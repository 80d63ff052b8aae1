---------------------------- MODULE CallRegistry ----------------------------
(***************************************************************************)
(* The hand-over of a call between the two registries of the Tauri layer:  *)
(* `in_flight` (a cancel Notify per request id, src-tauri/src/commands/    *)
(* call.rs) and core's stream registry (`stream_open_impl`, `grpc_cancel_  *)
(* impl` and the event callback of src-tauri/src/commands/grpc.rs).        *)
(*                                                                         *)
(* An attempt is one invocation of grpc_send / http_send (unary) or of     *)
(* stream_open.  Attempts may carry the same request id.  What the core    *)
(* call does once open is StreamCall's subject; here it lives until it     *)
(* ends, is cancelled, or loses its last handle.                           *)
(***************************************************************************)
EXTENDS Naturals, FiniteSets

CONSTANTS
  Attempts,  \* invocations of the commands
  Ids,       \* request ids
  None       \* "no attempt"

ASSUME NoneAssumption == None \notin Attempts

VARIABLES
  id,        \* the request id of each attempt
  streaming, \* which attempts are stream opens
  pc,        \* where each attempt is
  permit,    \* its Notify holds a permit
  raced,     \* the flag race_cancel_handoff returned
  dead,      \* its event channel refused an event
  slot,      \* the callback's OnceLock is set
  inCallback,\* the event callback is past `dead`, before `slot`
  call,      \* the core call: "none", "live", "over"
  cancelled, \* StreamCall::cancel was applied
  listening, \* the webview still listens on the attempt's channel
  inFlight,  \* request id -> attempt whose Notify is registered
  streams,   \* request id -> attempt whose StreamCall is registered
  latest,    \* history: the attempt begun last under an id
  handed,    \* history: the attempt registered last under an id
  freed,     \* history: attempts whose call was released, by the user or by itself
  aimed      \* history: attempts a cancel was meant for

fixed    == <<id, streaming>>
attempt  == <<pc, permit, raced, dead, slot, inCallback>>
callVars == <<call, cancelled, listening>>
history  == <<latest, handed, freed, aimed>>
vars == <<fixed, attempt, callVars, inFlight, streams, history>>

Set(f, a, v) == [f EXCEPT ![a] = v]
Goto(a, p) == pc' = Set(pc, a, p)

Init ==
  /\ id \in [Attempts -> Ids]
  /\ streaming \in SUBSET Attempts
  /\ pc = [a \in Attempts |-> "idle"]
  /\ permit = [a \in Attempts |-> FALSE] /\ raced = permit /\ dead = permit
  /\ slot = permit /\ inCallback = permit /\ cancelled = permit
  /\ call = [a \in Attempts |-> "none"]
  /\ listening = [a \in Attempts |-> TRUE]
  /\ inFlight = [i \in Ids |-> None] /\ streams = inFlight
  /\ latest = inFlight /\ handed = inFlight
  /\ freed = {} /\ aimed = {}

\* Mutant: the entry is removed whoever owns it.
BugWithoutOwn(m, a) == Set(m, id[a], None)

\* Remove a's own entry from registry m, and nobody else's (Arc::ptr_eq).
WithoutOwn(m, a) == IF m[id[a]] = a THEN Set(m, id[a], None) ELSE m

-----------------------------------------------------------------------------
(* race_cancel_handoff *)

Begin(a) ==
  /\ pc[a] = "idle"
  /\ inFlight' = Set(inFlight, id[a], a)
  /\ latest' = Set(latest, id[a], a)
  /\ Goto(a, "working")
  /\ UNCHANGED <<fixed, permit, raced, dead, slot, inCallback, callVars, streams, handed,
                 freed, aimed>>

\* The select is biased: the Notify is polled first ...
SelectCancel(a) ==
  /\ pc[a] = "working" /\ permit[a]
  /\ permit' = Set(permit, a, FALSE)
  /\ Goto(a, "unwind")
  /\ UNCHANGED <<fixed, raced, dead, slot, inCallback, callVars, inFlight, streams, history>>

SelectPoll(a) ==
  /\ pc[a] = "working" /\ ~permit[a]
  /\ Goto(a, "polling")
  /\ UNCHANGED <<fixed, permit, raced, dead, slot, inCallback, callVars, inFlight, streams,
                 history>>

\* ... then the work: not done, failed or timed out, or done.  A stream's work
\* ends in spawn_stream_call, whose Opened event reaches the callback first.
SelectWork(a) ==
  /\ pc[a] = "polling"
  /\ \/ Goto(a, "working") /\ UNCHANGED <<call, dead>>
     \/ Goto(a, "unwind") /\ UNCHANGED <<call, dead>>
     \/ /\ Goto(a, "ready")
        /\ call' = IF a \in streaming THEN Set(call, a, "live") ELSE call
        /\ dead' = IF a \in streaming /\ ~listening[a] THEN Set(dead, a, TRUE) ELSE dead
  /\ UNCHANGED <<fixed, permit, raced, slot, inCallback, cancelled, listening, inFlight, streams,
                 history>>

\* DeregisterGuard on an early return.
Unwind(a) ==
  /\ pc[a] = "unwind"
  /\ inFlight' = WithoutOwn(inFlight, a)
  /\ Goto(a, "failed")
  /\ UNCHANGED <<fixed, permit, raced, dead, slot, inCallback, callVars, streams, history>>

\* One section of the in_flight lock: register the value, drop the entry.
HandOff(a) ==
  /\ pc[a] = "ready"
  /\ inFlight' = WithoutOwn(inFlight, a)
  /\ streams' = IF a \in streaming THEN Set(streams, id[a], a) ELSE streams
  /\ handed' = IF a \in streaming THEN Set(handed, id[a], a) ELSE handed
  /\ Goto(a, "handed")
  /\ UNCHANGED <<fixed, permit, raced, dead, slot, inCallback, callVars, latest, freed, aimed>>

\* Mutant: a cancel that landed during the hand-off is not looked for.
BugTakePermit(a) ==
  /\ pc[a] = "handed"
  /\ Goto(a, IF a \in streaming THEN "slot" ELSE "done")
  /\ UNCHANGED <<fixed, permit, raced, dead, slot, inCallback, callVars, inFlight, streams,
                 history>>

\* has_permit; a unary caller throws the flag away.
TakePermit(a) ==
  /\ pc[a] = "handed"
  /\ raced' = Set(raced, a, permit[a])
  /\ permit' = Set(permit, a, FALSE)
  /\ Goto(a, IF a \in streaming THEN "slot" ELSE "done")
  /\ UNCHANGED <<fixed, dead, slot, inCallback, callVars, inFlight, streams, history>>

-----------------------------------------------------------------------------
(* the rest of stream_open_impl *)

SetSlot(a) ==
  /\ pc[a] = "slot"
  /\ slot' = Set(slot, a, TRUE)
  /\ Goto(a, "apply")
  /\ UNCHANGED <<fixed, permit, raced, dead, inCallback, callVars, inFlight, streams, history>>

ApplyCancel(a) ==
  /\ pc[a] = "apply"
  /\ cancelled' = Set(cancelled, a, cancelled[a] \/ raced[a])
  /\ Goto(a, "deadCheck")
  /\ UNCHANGED <<fixed, permit, raced, dead, slot, inCallback, call, listening, inFlight, streams,
                 history>>

\* call.cancel() and release_call of an attempt nobody listens to.
CancelAndRelease(a) ==
  /\ cancelled' = Set(cancelled, a, TRUE)
  /\ streams' = WithoutOwn(streams, a)
  /\ freed' = freed \cup {a}

\* Mutant: the flag is not looked at again once the slot is set.
BugDeadCheck(a) ==
  /\ pc[a] = "deadCheck"
  /\ Goto(a, "done")
  /\ UNCHANGED <<fixed, permit, raced, dead, slot, inCallback, callVars, inFlight, streams,
                 history>>

DeadCheck(a) ==
  /\ pc[a] = "deadCheck"
  /\ IF dead[a] THEN CancelAndRelease(a) ELSE UNCHANGED <<cancelled, streams, freed>>
  /\ Goto(a, "done")
  /\ UNCHANGED <<fixed, permit, raced, dead, slot, inCallback, call, listening, inFlight, latest,
                 handed, aimed>>

\* The event callback of a live call whose channel refuses the event: it flags
\* `dead`, then reaches for the handle if stream_open has stored it already.
CallbackFails(a) ==
  /\ call[a] = "live" /\ ~cancelled[a] /\ ~listening[a] /\ ~inCallback[a]
  /\ pc[a] \notin {"idle", "working", "polling"}
  /\ dead' = Set(dead, a, TRUE)
  /\ inCallback' = Set(inCallback, a, TRUE)
  /\ UNCHANGED <<fixed, pc, permit, raced, slot, callVars, inFlight, streams, history>>

CallbackReleases(a) ==
  /\ inCallback[a]
  /\ IF slot[a] /\ call[a] = "live"
       THEN CancelAndRelease(a)
       ELSE UNCHANGED <<cancelled, streams, freed>>
  /\ inCallback' = Set(inCallback, a, FALSE)
  /\ UNCHANGED <<fixed, pc, permit, raced, dead, slot, call, listening, inFlight, latest, handed,
                 aimed>>

-----------------------------------------------------------------------------
(* The user, the webview, and the end of a call. *)

\* grpc_cancel_impl, under the in_flight lock.
GrpcCancel(i) ==
  /\ IF inFlight[i] # None
       THEN permit' = Set(permit, inFlight[i], TRUE) /\ UNCHANGED cancelled
       ELSE /\ cancelled' = IF streams[i] # None THEN Set(cancelled, streams[i], TRUE)
                                                 ELSE cancelled
            /\ UNCHANGED permit
  /\ aimed' = IF latest[i] = None THEN aimed ELSE aimed \cup {latest[i]}
  /\ UNCHANGED <<fixed, pc, raced, dead, slot, inCallback, call, listening, inFlight, streams,
                 latest, handed, freed>>

\* stream_release.
Release(i) ==
  /\ streams[i] # None
  /\ freed' = freed \cup {streams[i]}
  /\ streams' = Set(streams, i, None)
  /\ UNCHANGED <<fixed, attempt, callVars, inFlight, latest, handed, aimed>>

\* The page that opened a is reloaded.
Reload(a) ==
  /\ listening[a] /\ pc[a] # "idle"
  /\ listening' = Set(listening, a, FALSE)
  /\ UNCHANGED <<fixed, attempt, call, cancelled, inFlight, streams, history>>

\* End, Fault or cancel took effect; or the last Arc went: the registry's and
\* the one stream_open_impl holds until it returns.
CallOver(a) ==
  /\ call[a] = "live" /\ ~inCallback[a]
  /\ call' = Set(call, a, "over")
  /\ UNCHANGED <<fixed, attempt, cancelled, listening, inFlight, streams, history>>

CallDropped(a) == pc[a] = "done" /\ streams[id[a]] # a /\ CallOver(a)

AttemptStep(a) == \/ SelectCancel(a) \/ SelectPoll(a) \/ SelectWork(a) \/ Unwind(a) \/ HandOff(a)
                  \/ TakePermit(a) \/ SetSlot(a) \/ ApplyCancel(a) \/ DeadCheck(a)

Next == \/ \E a \in Attempts : \/ Begin(a) \/ AttemptStep(a) \/ CallbackFails(a)
                               \/ CallbackReleases(a) \/ Reload(a) \/ CallOver(a) \/ CallDropped(a)
        \/ \E i \in Ids : GrpcCancel(i) \/ Release(i)

Spec == Init /\ [][Next]_vars

(***************************************************************************)
(* Fairness: a command that is running is polled, a callback that has      *)
(* begun returns, and a call without a handle is aborted.  Whether the     *)
(* work ever completes, and whether a call ends by itself, is not assumed. *)
(***************************************************************************)
Fairness == \A a \in Attempts : /\ WF_vars(AttemptStep(a))
                                /\ WF_vars(CallbackReleases(a))
                                /\ WF_vars(CallDropped(a))
FairSpec == Spec /\ Fairness

-----------------------------------------------------------------------------
PCs == {"idle", "working", "polling", "unwind", "failed", "ready", "handed", "slot", "apply",
        "deadCheck", "done"}
Under(i) == {a \in Attempts : id[a] = i}

TypeOK ==
  /\ id \in [Attempts -> Ids] /\ streaming \subseteq Attempts
  /\ pc \in [Attempts -> PCs] /\ call \in [Attempts -> {"none", "live", "over"}]
  /\ \A f \in {permit, raced, dead, slot, inCallback, cancelled, listening} :
       f \in [Attempts -> BOOLEAN]
  /\ \A m \in {inFlight, streams, latest, handed} : m \in [Ids -> Attempts \cup {None}]
  /\ \A i \in Ids : /\ inFlight[i] \in Under(i) \cup {None}
                    /\ streams[i] \in (Under(i) \cap streaming) \cup {None}
                    /\ latest[i] \in Under(i) \cup {None}
                    /\ handed[i] \in (Under(i) \cap streaming) \cup {None}
  /\ freed \subseteq Attempts /\ aimed \subseteq Attempts

\* race_cancel_handoff: a cancel "sees the id in exactly one registry at any
\* instant" - never in both ...
NeverInBoth == \A i \in Ids : inFlight[i] # None => streams[i] # inFlight[i]

\* ... and never in none: until the hand-off the latest attempt under an id can
\* be cancelled through in_flight, whatever attempts end under the same id.
CancelableUntilHandOff ==
  \A a \in Attempts :
    latest[id[a]] = a /\ pc[a] \in {"working", "polling", "ready"} => inFlight[id[a]] = a

\* A registered call leaves the registry by its own release, or replaced by a
\* later call under its id; never through the cleanup of another one.
RegisteredUntilFreed ==
  \A i \in Ids : handed[i] # None /\ handed[i] \notin freed => streams[i] = handed[i]

\* The id names its latest attempt in exactly one registry from Begin to the
\* release, whatever ends, is replaced or is cancelled meanwhile
\* (race_cancel_handoff, DeregisterGuard, stream_release).
ExactlyOneRegistry ==
  TypeOK /\ NeverInBoth /\ CancelableUntilHandOff /\ RegisteredUntilFreed

\* A command is in in_flight only while its work races the cancel ...
InFlightIsRacing ==
  \A i \in Ids : inFlight[i] # None =>
    pc[inFlight[i]] \in {"working", "polling", "unwind", "ready"}

\* ... and its call is in the stream registry only from the hand-off on.
StreamsAreHandedOver ==
  \A i \in Ids : streams[i] # None =>
    pc[streams[i]] \in {"handed", "slot", "apply", "deadCheck", "done"}

\* Only the latest attempt under an id can be in in_flight; only a stream open
\* goes on after the hand-off.
LatestHasBegun ==
  /\ \A i \in Ids : inFlight[i] \in {latest[i], None}
  /\ \A a \in Attempts : latest[id[a]] = a => pc[a] # "idle"
  /\ \A a \in Attempts : pc[a] \in {"slot", "apply", "deadCheck"} => a \in streaming

\* A cancel is never forgotten on the way: it is a permit of the Notify, then
\* the raced flag until stream_open applies it, then the call is cancelled -
\* unless the command has failed, was unary, or its call has no handle left.
CancelOnRecord ==
  \A a \in aimed :
    \/ permit[a] \/ cancelled[a]
    \/ raced[a] /\ pc[a] \in {"slot", "apply"}
    \/ pc[a] \in {"unwind", "failed"}
    \/ a \notin streaming /\ pc[a] \in {"handed", "done"}
    \/ streams[id[a]] # a /\ pc[a] \in {"handed", "slot", "apply", "deadCheck", "done"}

\* A cancel finds its call in exactly one registry, at any instant, and once it
\* has found it, it is on record until it takes effect.
CancelFindsItsCall == ExactlyOneRegistry /\ CancelOnRecord

\* The inductive invariant (CallRegistry_proofs).
IInv == /\ TypeOK /\ InFlightIsRacing /\ StreamsAreHandedOver /\ LatestHasBegun
        /\ CancelableUntilHandOff /\ RegisteredUntilFreed /\ CancelOnRecord

\* No cancel is lost: the attempt it was meant for fails, or its call is
\* cancelled or over - also when it lands between the end of the work and the
\* hand-off (for a unary attempt the result may win).
CancelReachesCall ==
  \A a \in Attempts :
    (a \in aimed) ~> \/ pc[a] = "failed" \/ cancelled[a] \/ call[a] = "over"
                     \/ a \notin streaming /\ pc[a] = "done"

\* A call that nobody listens to any more is cancelled and its store is freed,
\* wherever stream_open was when the channel refused the event.
DeadCallFreed ==
  \A a \in Attempts : dead[a] ~> ((cancelled[a] \/ call[a] = "over") /\ streams[id[a]] # a)
=============================================================================
