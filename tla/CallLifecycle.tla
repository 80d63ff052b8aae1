---------------------------- MODULE CallLifecycle ----------------------------
(***************************************************************************)
(* The webview's side of a gRPC call: the dispatch, its one re-route on a  *)
(* kind mismatch, cancel, and how a stream call settles                    *)
(* (src/features/workflow/callLifecycle.ts); the webview's Stream store    *)
(* (stream/streamStore.ts) and the rule that releases what no step refers  *)
(* to any more (stream/releaseRule.ts).                                    *)
(*                                                                         *)
(* JavaScript runs a handler to its next await without interruption, so an *)
(* action is the code between two awaits that wait for core.  Core is the  *)
(* environment: it answers commands in any order, delivers the events of   *)
(* one call in order, and a stream may go on for ever.  Every caller       *)
(* passes a `recording`, so it is not a parameter here.                    *)
(***************************************************************************)
EXTENDS Naturals, Sequences

CONSTANTS
  MaxDrafts,   \* bound: drafts ever opened
  MaxCalls,    \* bound: request ids ever made
  MaxMessages, \* bound: messages a server sends on one call
  Kinds        \* the method kinds in play, of {"unary", "server", "bidi"}

ASSUME BoundsAssumption ==
  /\ MaxDrafts \in Nat /\ MaxCalls \in Nat /\ MaxMessages \in Nat
  /\ Kinds \subseteq {"unary", "server", "bidi"}

Drafts == 1..MaxDrafts
Calls  == 1..MaxCalls
Null   == 0                \* no draft, no call

VARIABLES
  draft,    \* the grpc draft in Focus; id Null: none, or an HTTP one
  steps,    \* the executed snapshots in the workflow's history
  gate,     \* gates: per draft "none", "open" or "cancelled"
  run,      \* the runGrpc of a draft: which attempt, which call
  kind,     \* the kind a call was made with ("none": id not made yet)
  owner,    \* the draft a call was made for
  live,     \* liveCalls: "no", "unopened", "opened"
  entry,    \* the Stream store's entries
  queue,    \* what of its events waits for the next frame
  records,  \* the rows of each history record written for a call
  core,     \* core's call: "none", "opening", "live", "over"
  produced, \* messages the server sent
  channel,  \* events on their way to the webview
  answer,   \* what the promise of stream_open / grpc_send will settle with
  cancels,  \* grpc_cancel of a call: "none", "sent", "answered"
  releases, \* stream_release: "none", "sent", "answered"
  send,     \* stream_send: "none", "sent", "acked", "failed", "over"
  half,     \* stream_half_close, likewise
  shown,    \* history: rows that reached a live entry
  opened,   \* history: calls marked opened while live
  outcome   \* history: calls refused before they opened, or answered as unary

webview == <<draft, steps, gate, run, kind, owner, live, entry, queue, records>>
ipc     == <<channel, answer, cancels, releases, send, half>>
history == <<shown, opened, outcome>>
vars == <<webview, core, produced, ipc, history>>

NoDraft == [id |-> Null, status |-> "draft", requestId |-> Null, streamId |-> Null]
NoRun   == [attempt |-> 0, call |-> Null, carried |-> Null]
NoEntry == [phase |-> "none", halfClosed |-> FALSE, sendFault |-> FALSE, rows |-> 0]

\* Nothing of a call, and of no call, waits for the next frame.
NothingQueued == [opened |-> FALSE, messages |-> 0]
EmptyQueue == [c \in Calls |-> NothingQueued]

Set(f, c, v) == [f EXCEPT ![c] = v]

\* What a snapshot keeps, and what the seed of a draft takes from it.
Snapshot(k, status, streamId) == [kind |-> k, status |-> status, streamId |-> streamId]
CleanSeed == Snapshot("none", "draft", Null)

Init ==
  /\ draft = NoDraft /\ steps = {}
  /\ gate = [d \in Drafts |-> "none"] /\ run = [d \in Drafts |-> NoRun]
  /\ kind = [c \in Calls |-> "none"] /\ owner = [c \in Calls |-> Null]
  /\ live = [c \in Calls |-> "no"] /\ entry = [c \in Calls |-> NoEntry]
  /\ queue = EmptyQueue /\ records = [c \in Calls |-> <<>>] /\ channel = records
  /\ core = kind /\ answer = kind /\ cancels = kind /\ releases = kind /\ send = kind
  /\ half = kind
  /\ produced = [c \in Calls |-> 0] /\ shown = produced
  /\ opened = {} /\ outcome = {}

-----------------------------------------------------------------------------
(* streamStore *)

isLivePhase(p) == p \in {"opening", "open"}
LiveEntry(e) == isLivePhase(e.phase)

\* An entry that is told of Opened and of messages as they wait.
Told(e, q) == [e EXCEPT !.phase = IF LiveEntry(e) /\ q.opened THEN "open" ELSE @, !.rows = @ + q.messages]

\* Mutant: a terminal entry goes on counting messages.
BugApply(e, q) == Told(e, q)

\* apply: terminal entries ignore every later event.
Apply(e, q) == IF LiveEntry(e) THEN Told(e, q) ELSE e

\* flush: the entries with everything queued applied.
Flushed(es, q) == [c \in Calls |-> Apply(es[c], q[c])]

\* apply of a terminal event, which never waits.
EndEntry(e, ev)  == [e EXCEPT !.phase = IF ev = "end" THEN "ended" ELSE "faulted", !.sendFault = FALSE]
CancelEntry(e) == [e EXCEPT !.phase = "cancelled", !.sendFault = FALSE]

-----------------------------------------------------------------------------
(* workflowStore, and the release rule that runs after each of its changes *)

\* updateGrpcDraft: only the draft with this id is patched.
Patched(d, p) == IF draft.id = d THEN [f \in DOMAIN draft |-> IF f \in DOMAIN p THEN p[f] ELSE draft[f]]
                 ELSE draft

\* Mutant: the history's snapshots are forgotten.
BugReferenced(dr, ss) == {dr.streamId} \ {Null}

Referenced(dr, ss) == ({dr.streamId} \cup {s.streamId : s \in ss}) \ {Null}

\* Mutant: a live call that is released is forgotten without a record.
BugAbandon(c, l, es, rec) == rec

\* abandonStream of call c: a live opened call is recorded, as cancelled.
Abandon(c, l, es, rec) ==
  IF l = "opened" /\ LiveEntry(es) THEN Append(rec, es.rows) ELSE rec

\* The webview's stores after draft' and steps' were written: every stream id
\* no step refers to any more is abandoned (which flushes), dropped, released.
AfterStore(es, q, l, rec) ==
  LET gone  == Referenced(draft, steps) \ Referenced(draft', steps')
      flush == \E c \in gone : l[c] # "no"
      es2   == IF flush THEN Flushed(es, q) ELSE es
  IN /\ entry'    = [c \in Calls |-> IF c \in gone THEN NoEntry ELSE es2[c]]
     /\ queue'    = [c \in Calls |-> IF flush \/ c \in gone THEN NothingQueued ELSE q[c]]
     /\ live'     = [c \in Calls |-> IF c \in gone THEN "no" ELSE l[c]]
     /\ records'  = [c \in Calls |-> IF c \in gone THEN Abandon(c, l[c], es2[c], rec[c])
                                     ELSE rec[c]]
     /\ releases' = [c \in Calls |-> IF c \in gone THEN "sent" ELSE releases[c]]

\* settleStream for a call whose entry is es[c]: the step is patched, and if the
\* call opened, its snapshot is committed and its record written.
Settle(c, status, es, q) ==
  IF live[c] = "no"
  THEN /\ UNCHANGED <<draft, steps, live, records, releases>>
       /\ entry' = es /\ queue' = q
  ELSE /\ draft' = Patched(owner[c], [status |-> status, requestId |-> Null])
       /\ steps' = IF live[c] = "opened" THEN steps \cup {Snapshot(kind[c], status, c)} ELSE steps
       /\ AfterStore(es, q, Set(live, c, "no"),
                     IF live[c] = "opened" THEN Set(records, c, Append(records[c], es[c].rows))
                     ELSE records)

\* streamStore.cancel and, if it found a live entry, settleStream.
CancelStream(c) ==
  LET es == Flushed(entry, queue) IN
  IF LiveEntry(es[c])
  THEN Settle(c, "cancelled", Set(es, c, CancelEntry(es[c])), EmptyQueue)
  ELSE /\ entry' = es /\ queue' = EmptyQueue
       /\ UNCHANGED <<draft, steps, live, records, releases>>

-----------------------------------------------------------------------------
(* The user: opening drafts, switching the method, sending, cancelling. *)

Seeds == steps \cup {CleanSeed}

\* setDraft, with a fresh draft seeded from the last executed call of its key.
SetDraft(d) ==
  /\ d \notin {draft.id} \cup {owner[c] : c \in Calls}
  /\ \E s \in Seeds : draft' = [id |-> d, status |-> s.status, requestId |-> Null,
                                streamId |-> s.streamId]
  /\ UNCHANGED steps /\ AfterStore(entry, queue, live, records)
  /\ UNCHANGED <<gate, run, kind, owner, core, produced, channel, answer, cancels, send, half,
                 history>>

\* setDraft with an HTTP draft, or clearDraft.
LeaveDraft ==
  /\ draft # NoDraft
  /\ draft' = NoDraft
  /\ UNCHANGED steps /\ AfterStore(entry, queue, live, records)
  /\ UNCHANGED <<gate, run, kind, owner, core, produced, channel, answer, cancels, send, half,
                 history>>

\* applyMethodSelection: the picker works while a call is in flight.
SelectMethod ==
  /\ draft # NoDraft
  /\ \E s \in Seeds : draft' = [draft EXCEPT !.status = s.status, !.streamId = s.streamId]
  /\ UNCHANGED steps /\ AfterStore(entry, queue, live, records)
  /\ UNCHANGED <<gate, run, kind, owner, core, produced, channel, answer, cancels, send, half,
                 history>>

\* runUnary or openStream up to the IPC call, under the fresh id c.  es and l
\* are the stores the code before it left.
Attempt(d, n, k, c, carried, es, l) ==
  /\ kind[c] = "none" /\ \A b \in Calls : b < c => kind[b] # "none"
  /\ kind' = Set(kind, c, k) /\ owner' = Set(owner, c, d)
  /\ run' = Set(run, d, [attempt |-> n, call |-> c, carried |-> carried])
  /\ draft' = Patched(d, [status |-> "sending", requestId |-> c,
                          streamId |-> IF k = "unary" THEN Null ELSE c])
  /\ steps' = steps
  /\ IF k = "unary"
       THEN AfterStore(es, queue, l, records)
       ELSE AfterStore(Set(es, c, [NoEntry EXCEPT !.phase = "opening"]), queue,
                       Set(l, c, "unopened"), records)
  /\ core' = Set(core, c, "opening") /\ answer' = Set(answer, c, "pending")
  /\ UNCHANGED <<produced, channel, cancels, send, half>>

Dispatch ==
  /\ draft # NoDraft /\ draft.status # "sending" /\ gate[draft.id] = "none"
  /\ gate' = Set(gate, draft.id, "open")
  /\ \E k \in Kinds, c \in Calls : Attempt(draft.id, 1, k, c, draft.streamId, entry, live)
  /\ UNCHANGED history

\* cancelCall up to the IPC call (bound: one cancel of a call at a time).
CancelCall ==
  /\ draft.status = "sending" /\ cancels[draft.requestId] = "none"
  /\ gate' = IF gate[draft.id] = "open" THEN Set(gate, draft.id, "cancelled") ELSE gate
  /\ cancels' = Set(cancels, draft.requestId, "sent")
  /\ UNCHANGED <<draft, steps, run, kind, owner, live, entry, queue, records, core, produced,
                 channel, answer, releases, send, half, history>>

\* ... and after it.
CancelAnswered(c) ==
  /\ cancels[c] = "answered"
  /\ cancels' = Set(cancels, c, "none")
  /\ IF kind[c] = "unary" THEN UNCHANGED <<draft, steps, live, records, releases, entry, queue>>
     ELSE CancelStream(c)
  /\ UNCHANGED <<gate, run, kind, owner, core, produced, channel, answer, send, half, history>>

-----------------------------------------------------------------------------
(* What core sends back. *)

Running(c) == owner[c] # Null /\ run[owner[c]].call = c

\* runGrpc is over: its gate goes.
Finish(d) == run' = Set(run, d, NoRun) /\ gate' = Set(gate, d, "none")

\* runUnary after grpc_send settled, except for a kind mismatch.  The snapshot
\* is the step as dispatched with the result's patch over it.
UnaryAnswered(c) ==
  /\ kind[c] = "unary" /\ answer[c] \in {"ok", "refused", "cancelled"}
  /\ LET d == owner[c] IN
     /\ \E status \in CASE answer[c] = "ok" -> {"ok", "error"}
                        [] answer[c] = "refused" -> {"error"}
                        [] answer[c] = "cancelled" -> {"draft"} :
          /\ draft' = Patched(d, [status |-> status, requestId |-> Null])
          /\ steps' = IF answer[c] = "ok"
                        THEN steps \cup {Snapshot("unary", status, run[d].carried)} ELSE steps
     /\ AfterStore(entry, queue, live,
                   IF answer[c] = "cancelled" THEN records ELSE Set(records, c, Append(records[c], 0)))
     /\ Finish(d)
  /\ outcome' = IF answer[c] = "cancelled" THEN outcome ELSE outcome \cup {c}
  /\ answer' = Set(answer, c, "settled")
  /\ UNCHANGED <<kind, owner, core, produced, channel, cancels, send, half, shown, opened>>

Mark(c) == /\ opened' = IF live[c] = "no" THEN opened ELSE opened \cup {c}

MarkedLive(c) == IF live[c] = "no" THEN live ELSE Set(live, c, "opened")

\* stream_open resolved: the call is open, whether or not Opened arrived yet.
OpenResolved(c) ==
  /\ kind[c] # "unary" /\ answer[c] = "ok"
  /\ live' = MarkedLive(c) /\ Mark(c)
  /\ answer' = Set(answer, c, "settled")
  /\ Finish(owner[c])
  /\ UNCHANGED <<draft, steps, kind, owner, entry, queue, records, core, produced, channel,
                 cancels, releases, send, half, shown, outcome>>

\* stream_open rejected: with the call settled already, as cancelled, or refused.
OpenRejected(c) ==
  /\ kind[c] # "unary"
  /\ \/ answer[c] \in {"refused", "cancelled"}
     \/ answer[c] = "mismatch" /\ live[c] = "no" /\ Running(c)
  /\ answer' = Set(answer, c, "settled")
  /\ Finish(owner[c])
  /\ IF live[c] = "no"
     THEN UNCHANGED <<draft, steps, live, records, releases, entry, queue, outcome>>
     ELSE IF answer[c] = "cancelled"
     THEN CancelStream(c) /\ UNCHANGED outcome
     ELSE /\ draft' = Patched(owner[c], [status |-> "error", requestId |-> Null, streamId |-> Null])
          /\ steps' = steps
          /\ AfterStore(Set(entry, c, NoEntry), Set(queue, c, NothingQueued), Set(live, c, "no"),
                        Set(records, c, Append(records[c], 0)))
          /\ outcome' = outcome \cup {c}
  /\ UNCHANGED <<kind, owner, core, produced, channel, cancels, send, half, shown, opened>>

\* The first attempt was refused for the kind of its method: once more, as the
\* kind core named, unless the user cancelled in between.
Mismatch(c) == Running(c) /\ answer[c] = "mismatch" /\ (kind[c] = "unary" \/ live[c] # "no")

Unsent == [status |-> "draft", requestId |-> Null, streamId |-> Null]
Failed == [status |-> "error", requestId |-> Null, streamId |-> Null]

GiveUp(c, patch) ==
  /\ draft' = Patched(owner[c], patch) /\ steps' = steps
  /\ AfterStore(Set(entry, c, NoEntry), Set(queue, c, NothingQueued), Set(live, c, "no"), records)
  /\ Finish(owner[c])
  /\ UNCHANGED <<kind, owner, core, send, half, produced, channel, cancels>>

\* Mutant: the gate is not looked at before the second attempt.
BugReroute(c) ==
  /\ Mismatch(c) /\ run[owner[c]].attempt = 1
  /\ \E k \in Kinds \ {kind[c]}, b \in Calls :
       Attempt(owner[c], 2, k, b, run[owner[c]].carried, Set(entry, c, NoEntry), Set(live, c, "no"))
  /\ UNCHANGED <<gate, history>>

Reroute(c) ==
  /\ Mismatch(c) /\ run[owner[c]].attempt = 1 /\ gate[owner[c]] = "open"
  /\ \E k \in Kinds \ {kind[c]}, b \in Calls :
       Attempt(owner[c], 2, k, b, run[owner[c]].carried, Set(entry, c, NoEntry), Set(live, c, "no"))
  /\ UNCHANGED <<gate, history>>

RerouteCancelled(c) ==
  /\ Mismatch(c) /\ run[owner[c]].attempt = 1 /\ gate[owner[c]] = "cancelled"
  /\ GiveUp(c, Unsent)
  /\ answer' = Set(answer, c, "settled")
  /\ UNCHANGED history

SecondMismatch(c) ==
  /\ Mismatch(c) /\ run[owner[c]].attempt = 2
  /\ GiveUp(c, Failed)
  /\ answer' = Set(answer, c, "settled")
  /\ UNCHANGED history

\* onEvent: a terminal event settles the call at once, the others wait for the
\* next animation frame.
Pushed(c, ev) ==
  IF entry[c].phase = "none" THEN queue
  ELSE Set(queue, c, IF ev = "opened" THEN [queue[c] EXCEPT !.opened = TRUE]
                     ELSE [queue[c] EXCEPT !.messages = @ + 1])

DeliverOpened(c) ==
  /\ live' = MarkedLive(c) /\ Mark(c)
  /\ queue' = Pushed(c, "opened")
  /\ UNCHANGED <<draft, steps, entry, records, releases, shown>>

DeliverMessage(c) ==
  /\ queue' = Pushed(c, "message")
  /\ shown' = IF LiveEntry(entry[c]) THEN Set(shown, c, shown[c] + 1) ELSE shown
  /\ UNCHANGED <<draft, steps, entry, live, records, releases, opened>>

DeliverEnd(c, ev) ==
  /\ IF LiveEntry(entry[c])
     THEN LET es == Flushed(entry, queue) IN
          \E status \in IF ev = "end" THEN {"ok", "error"} ELSE {"error"} :
            Settle(c, status, Set(es, c, EndEntry(es[c], ev)), EmptyQueue)
     ELSE UNCHANGED <<draft, steps, entry, queue, live, records, releases>>
  /\ UNCHANGED <<shown, opened>>

Deliver(c) ==
  LET ev == Head(channel[c]) IN
  /\ channel[c] # <<>>
  /\ channel' = Set(channel, c, Tail(channel[c]))
  /\ \/ ev = "opened" /\ DeliverOpened(c)
     \/ ev = "message" /\ DeliverMessage(c)
     \/ ev \in {"end", "fault"} /\ DeliverEnd(c, ev)
  /\ UNCHANGED <<gate, run, kind, owner, core, produced, answer, cancels, send, half, outcome>>

\* The animation frame.
Flush ==
  /\ queue # EmptyQueue
  /\ entry' = Flushed(entry, queue) /\ queue' = EmptyQueue
  /\ UNCHANGED <<draft, steps, gate, run, kind, owner, live, records, core, produced, ipc, history>>

-----------------------------------------------------------------------------
(* Send message and Half-close of a two-way call. *)

\* CallPanel offers both on the live call the draft shows, while it is open.
CanSend(c) == /\ kind[c] = "bidi" /\ draft.requestId = c /\ draft.streamId = c
              /\ entry[c].phase = "open" /\ ~entry[c].halfClosed

SendStreamMessage(c) ==
  /\ CanSend(c) /\ send[c] = "none"
  /\ send' = Set(send, c, "sent")
  /\ UNCHANGED <<webview, core, produced, channel, answer, cancels, releases, half, history>>

HalfCloseStream(c) ==
  /\ CanSend(c) /\ half[c] = "none"
  /\ half' = Set(half, c, "sent")
  /\ UNCHANGED <<webview, core, produced, channel, answer, cancels, releases, send, history>>

PushOutbound(e) == [e EXCEPT !.rows = @ + 1, !.sendFault = FALSE]
HalfClose(e)    == [e EXCEPT !.halfClosed = TRUE, !.sendFault = FALSE]
SetSendFault(e) == [e EXCEPT !.sendFault = TRUE]

\* Each of the three flushes, then touches a live entry only.
OnLiveEntry(c, change) ==
  LET es == Flushed(entry, queue)
      e  == es[c]
  IN  /\ entry' = IF ~LiveEntry(e) THEN es
                  ELSE Set(es, c, CASE change = "push"  -> PushOutbound(e)
                                    [] change = "half"  -> HalfClose(e)
                                    [] change = "fault" -> SetSendFault(e))
      /\ queue' = EmptyQueue

SendAnswered(c) ==
  /\ \/ /\ send[c] = "acked"
        /\ OnLiveEntry(c, "push")
        /\ shown' = IF LiveEntry(entry[c]) THEN Set(shown, c, shown[c] + 1) ELSE shown
     \/ /\ send[c] = "failed"
        /\ OnLiveEntry(c, "fault")
        /\ UNCHANGED shown
  /\ send' = Set(send, c, "over")
  /\ UNCHANGED <<draft, steps, gate, run, kind, owner, live, records, core, produced, channel,
                 answer, cancels, releases, half, opened, outcome>>

HalfCloseAnswered(c) ==
  /\ \/ half[c] = "acked" /\ OnLiveEntry(c, "half")
     \/ half[c] = "failed" /\ OnLiveEntry(c, "fault")
  /\ half' = Set(half, c, "over")
  /\ UNCHANGED <<draft, steps, gate, run, kind, owner, live, records, core, produced, channel,
                 answer, cancels, releases, send, history>>

-----------------------------------------------------------------------------
(* Core and the server, as the webview can tell them apart. *)

\* A call opens (its Opened event goes first), answers, or is refused.
CoreAnswer(c) ==
  /\ core[c] = "opening"
  /\ \/ /\ kind[c] # "unary"
        /\ core' = Set(core, c, "live") /\ answer' = Set(answer, c, "ok")
        /\ channel' = Set(channel, c, <<"opened">>)
     \/ /\ \E a \in {"refused", "mismatch"} \cup (IF kind[c] = "unary" THEN {"ok"} ELSE {}) :
             answer' = Set(answer, c, a)
        /\ core' = Set(core, c, "over")
        /\ UNCHANGED channel
  /\ UNCHANGED <<webview, produced, cancels, releases, send, half, history>>

CoreMessage(c) ==
  /\ core[c] = "live" /\ produced[c] < MaxMessages
  /\ produced' = Set(produced, c, produced[c] + 1)
  /\ channel' = Set(channel, c, Append(channel[c], "message"))
  /\ UNCHANGED <<webview, core, answer, cancels, releases, send, half, history>>

CoreEnd(c) ==
  /\ core[c] = "live"
  /\ core' = Set(core, c, "over")
  /\ \E ev \in {"end", "fault"} : channel' = Set(channel, c, Append(channel[c], ev))
  /\ UNCHANGED <<webview, produced, answer, cancels, releases, send, half, history>>

\* grpc_cancel: reaches the call before it opens or after.
CoreCancel(c) ==
  /\ cancels[c] = "sent"
  /\ cancels' = Set(cancels, c, "answered")
  /\ core' = Set(core, c, "over")
  /\ answer' = IF core[c] = "opening" THEN Set(answer, c, "cancelled") ELSE answer
  /\ UNCHANGED <<webview, produced, channel, releases, send, half, history>>

\* stream_release: only a registered call is found.
CoreRelease(c) ==
  /\ releases[c] = "sent"
  /\ releases' = Set(releases, c, "answered")
  /\ core' = IF core[c] = "live" THEN Set(core, c, "over") ELSE core
  /\ UNCHANGED <<webview, produced, channel, answer, cancels, send, half, history>>

CoreSend(c) ==
  /\ send[c] = "sent"
  /\ \E r \in {"failed"} \cup (IF core[c] = "live" THEN {"acked"} ELSE {}) : send' = Set(send, c, r)
  /\ UNCHANGED <<webview, core, produced, channel, answer, cancels, releases, half, history>>

CoreHalfClose(c) ==
  /\ half[c] = "sent"
  /\ \E r \in {"failed", "acked"} : half' = Set(half, c, r)
  /\ UNCHANGED <<webview, core, produced, channel, answer, cancels, releases, send, history>>

-----------------------------------------------------------------------------
User == \/ \E d \in Drafts : SetDraft(d)
        \/ LeaveDraft \/ SelectMethod \/ Dispatch \/ CancelCall
        \/ \E c \in Calls : SendStreamMessage(c) \/ HalfCloseStream(c)

\* The promises of call c settle, and its events arrive.
Answered(c) == \/ CancelAnswered(c) \/ UnaryAnswered(c) \/ OpenResolved(c) \/ OpenRejected(c)
               \/ Reroute(c) \/ RerouteCancelled(c) \/ SecondMismatch(c)
               \/ SendAnswered(c) \/ HalfCloseAnswered(c)

Core(c) == \/ CoreAnswer(c) \/ CoreCancel(c) \/ CoreRelease(c) \/ CoreSend(c) \/ CoreHalfClose(c)

Next == \/ User \/ Flush
        \/ \E c \in Calls : Answered(c) \/ Deliver(c) \/ Core(c) \/ CoreMessage(c) \/ CoreEnd(c)

Spec == Init /\ [][Next]_vars

(***************************************************************************)
(* Fairness: core answers every command (its deadlines bound an open and a *)
(* unary call), promises settle, events arrive, frames are drawn.  Nothing *)
(* is assumed of the server or the user.                                   *)
(***************************************************************************)
Settles(c) == \/ UnaryAnswered(c) \/ OpenResolved(c) \/ OpenRejected(c)
              \/ Reroute(c) \/ RerouteCancelled(c) \/ SecondMismatch(c)

Fairness == /\ WF_vars(Flush)
            /\ \A c \in Calls : /\ WF_vars(Settles(c)) /\ WF_vars(CancelAnswered(c))
                                /\ WF_vars(Deliver(c)) /\ WF_vars(Core(c))
FairSpec == Spec /\ Fairness

-----------------------------------------------------------------------------
Statuses == {"draft", "sending", "ok", "error", "cancelled"}
Phases   == {"none", "opening", "open", "ended", "cancelled", "faulted"}
Events   == {"opened", "message", "end", "fault"}
CallOrNull == Calls \cup {Null}

\* Of what is kept by call, and of the draft, the snapshots and the attempts for a draft.
CallTypes ==
  /\ kind \in [Calls -> Kinds \cup {"none"}]
  /\ live \in [Calls -> {"no", "unopened", "opened"}]
  /\ entry \in [Calls -> [phase : Phases, halfClosed : BOOLEAN, sendFault : BOOLEAN, rows : Nat]]
  /\ queue \in [Calls -> [opened : BOOLEAN, messages : Nat]]
  /\ records \in [Calls -> Seq(Nat)] /\ channel \in [Calls -> Seq(Events)]
  /\ core \in [Calls -> {"none", "opening", "live", "over"}]
  /\ answer \in [Calls -> {"none", "pending", "ok", "refused", "cancelled", "mismatch", "settled"}]
  /\ shown \in [Calls -> Nat] /\ opened \subseteq Calls /\ outcome \subseteq Calls

StepTypes ==
  /\ draft \in [id : Drafts \cup {Null}, status : Statuses, requestId : CallOrNull,
                streamId : CallOrNull]
  /\ steps \subseteq [kind : Kinds, status : {"ok", "error", "cancelled"}, streamId : CallOrNull]
  /\ owner \in [Calls -> Drafts \cup {Null}]
  /\ gate \in [Drafts -> {"none", "open", "cancelled"}]
  /\ \A d \in Drafts : gate[d] = "none" <=> run[d] = NoRun
  /\ run \in [Drafts -> [attempt : 0..2, call : CallOrNull, carried : CallOrNull]]

TypeOK == CallTypes /\ StepTypes

\* liveCalls and the Stream store never disagree about which calls go on.
LiveCallsAgree == \A c \in Calls : live[c] # "no" <=> LiveEntry(entry[c])

\* No draft is stuck: while it says "sending", either its stream call is live,
\* or a unary attempt for it is under way that will patch it.
SendingIsUnderWay ==
  draft.status = "sending" =>
    LET c == draft.requestId IN
    /\ c # Null
    /\ IF draft.streamId = Null
         THEN kind[c] = "unary" /\ run[draft.id].call = c
         ELSE draft.streamId = c /\ live[c] # "no" /\ owner[c] = draft.id

\* Ids that a unary snapshot carries by mistake (UnarySnapshotHasNoStream).
Carried == {s.streamId : s \in {t \in steps : t.kind = "unary"}}

FaceOf(phase) == CASE isLivePhase(phase) -> {"sending"}
                   [] phase = "ended"     -> {"ok", "error"}
                   [] phase = "cancelled" -> {"cancelled"}
                   [] phase = "faulted"   -> {"error"}
                   [] phase = "none"      -> {}

\* An executed snapshot, and a draft that shows the last call it made or has made none,
\* finds the entry of its stream, and its status is the one the entry's phase calls for -
\* whatever was cancelled, ended, replaced or released in the meantime.
ShowsLastCall ==
  \A c \in Calls : owner[c] = draft.id => c <= draft.streamId /\ owner[draft.streamId] = draft.id

StepsShowTheirCall ==
  \A s \in steps \cup (IF ShowsLastCall THEN {draft} ELSE {}) :
    s.streamId \notin Carried \cup {Null} => s.status \in FaceOf(entry[s.streamId].phase)

\* The stores agree on what is going on and on what came of it: a live call is live
\* everywhere, a draft says "sending" only while something will end it (settleStream,
\* runGrpc), and every step shows the end its call has come to.
StoresAgree == TypeOK /\ LiveCallsAgree /\ SendingIsUnderWay /\ StepsShowTheirCall

\* One record per call: exactly the calls that opened or got an outcome have
\* one, from the moment they are over, and never a second one - with an End, a
\* cancel, a rejection and a release racing to settle the call.
RecordedOnce ==
  \A c \in Calls :
    Len(records[c]) = IF c \in opened \cup outcome /\ live[c] = "no" THEN 1 ELSE 0

\* The record of a stream call holds every row that reached it while it was
\* live, the ones still queued for the next frame included.
RecordHasEveryRow ==
  \A c \in Calls : c \in opened /\ records[c] # <<>> => records[c][1] = shown[c]

\* Every call leaves exactly one record, with every row it showed (settleStream,
\* abandonStream, runUnary).
OneFullRecord == RecordedOnce /\ RecordHasEveryRow

\* Once a call is over its entry changes no more, until it is dropped.
TerminalIsFrozen ==
  [][\A c \in Calls : entry[c].phase # "none" /\ ~LiveEntry(entry[c])
                        => entry'[c] \in {entry[c], NoEntry}]_vars

\* A cancelled call ends, as the user sees it, whatever the server does: its
\* draft leaves "sending", also when the cancel lands during the re-route.
CancelSettles ==
  (draft.status = "sending" /\ cancels[draft.requestId] = "sent") ~> (draft.status # "sending")

-----------------------------------------------------------------------------
(* The inductive invariant behind OneFullRecord and TerminalIsFrozen,      *)

\* A call whose id is not made yet is nowhere.
UnmadeIsBlank ==
  \A c \in Calls : kind[c] = "none" =>
    /\ live[c] = "no" /\ entry[c] = NoEntry /\ queue[c] = NothingQueued /\ records[c] = <<>>
    /\ channel[c] = <<>> /\ answer[c] = "none" /\ shown[c] = 0 /\ c \notin opened \cup outcome

\* liveCalls knows which of its calls have opened; none of them has an outcome.
LiveIsMarked ==
  \A c \in Calls :
    /\ live[c] = "opened" => c \in opened
    /\ live[c] = "unopened" => c \notin opened
    /\ c \in outcome \/ kind[c] = "unary" => live[c] = "no"

\* What a live entry has, and what waits to be told to it, is what was shown.
RowsAreShown == \A c \in Calls : LiveEntry(entry[c]) => shown[c] = entry[c].rows + queue[c].messages

\* Until the command that makes a call is answered with success it has no events, has not
\* opened, and has no outcome before the answer was taken.
OpensWithAnswer ==
  \A c \in Calls :
    /\ answer[c] \in {"pending", "refused", "cancelled", "mismatch"} => c \notin opened /\ channel[c] = <<>>
    /\ core[c] = "opening" => answer[c] = "pending"
    /\ core[c] = "live" => answer[c] \in {"ok", "settled"}
    /\ c \in outcome => answer[c] = "settled"
    /\ kind[c] = "unary" => c \notin opened

CallInv == /\ CallTypes /\ UnmadeIsBlank /\ LiveCallsAgree /\ LiveIsMarked /\ RowsAreShown
           /\ OpensWithAnswer /\ OneFullRecord

-----------------------------------------------------------------------------
(* ... and what StoresAgree needs besides: the draft, the snapshots and the attempts. *)

\* Calls are made in the order of their ids, and for a draft.
OwnersAreKnown ==
  /\ \A c \in Calls : kind[c] = "none" <=> owner[c] = Null
  /\ \A b, c \in Calls : b < c /\ kind[b] = "none" => kind[c] = "none"
  /\ draft.id = Null => draft = NoDraft

\* An attempt is under way until its command's answer was taken, and a re-route takes it
\* over; it is the last its draft made.
RunIsCurrent ==
  /\ \A c \in Calls : answer[c] \in {"pending", "ok", "refused", "cancelled"} => Running(c)
  /\ \A d \in Drafts : run[d] # NoRun =>
       /\ run[d].call # Null /\ owner[run[d].call] = d
       /\ \A c \in Calls : owner[c] = d => c <= run[d].call

\* No stream, or one that is over.
Past(i) == i # Null => kind[i] \notin {"none", "unary"} /\ live[i] = "no"

\* Snapshots and attempts refer to streams that are over, and so does a draft unless the
\* stream is its own.
IdsArePast ==
  /\ \A s \in steps : Past(s.streamId)
  /\ \A d \in Drafts : Past(run[d].carried)
  /\ draft.streamId # Null => kind[draft.streamId] \notin {"none", "unary"}
  /\ draft.streamId # Null /\ owner[draft.streamId] # draft.id => Past(draft.streamId)

StepsAreSettled ==
  \A s \in steps : s.kind # "unary" =>
    s.streamId \in opened /\ s.status \in FaceOf(entry[s.streamId].phase)

\* A draft shows the call of its own that is live, which is its last; one that has made none shows a step.
DraftShowsItsOwn ==
  /\ \A c \in Calls : live[c] # "no" /\ owner[c] = draft.id =>
       draft.status = "sending" /\ draft.streamId = c /\ ShowsLastCall
  /\ (\A c \in Calls : owner[c] # draft.id) /\ draft.streamId # Null =>
       \E s \in steps : s.streamId = draft.streamId /\ s.status = draft.status
  /\ ShowsLastCall /\ draft.streamId \notin Carried \cup {Null} =>
       draft.status \in FaceOf(entry[draft.streamId].phase)

StepInv == /\ StepTypes /\ OwnersAreKnown /\ RunIsCurrent /\ IdsArePast /\ StepsAreSettled
           /\ DraftShowsItsOwn /\ SendingIsUnderWay

-----------------------------------------------------------------------------
(* What the repository says and the code does not keep. *)

\* The release rule: a draft that is replaced or cleared releases its stream,
\* so every live call has a step that shows it.
LiveCallIsReferenced ==
  \A c \in Calls : live[c] # "no" => c \in Referenced(draft, steps)

\* stream_release aborts the call if it is still running.
ReleasedCallEnds == \A c \in Calls : (releases[c] = "answered") ~> (core[c] = "over")

\* The draft's status is the one of the stream it shows: "sending" while live,
\* "ok" or "error" at End, "cancelled" after Cancel.
DraftShowsItsStream ==
  draft.streamId \notin Carried \cup {Null} => draft.status \in FaceOf(entry[draft.streamId].phase)

\* A unary call's snapshot refers to no stream.
UnarySnapshotHasNoStream == Carried \subseteq {Null}
=============================================================================
