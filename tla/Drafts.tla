-------------------------------- MODULE Drafts --------------------------------
(***************************************************************************)
(* The draft in Focus and the way its content gets into the catalog: the   *)
(* workflow store's draft slot, autosave, the Save and Discard dialogs,    *)
(* Duplicate, a change of method, and a call opened from the history.      *)
(*                                                                         *)
(* There is one slot.  A draft bound to a saved request is saved by a      *)
(* timer, an unbound one by the user, and whatever replaces the draft has  *)
(* to let neither lose what was typed.  Every await below lets the user in *)
(* between: the dialogs are modal, but the palette and the hotkeys work    *)
(* over them, and a dialog can be closed while its submit goes on.         *)
(*                                                                         *)
(* A draft's content is its method and its body; a collection holds one    *)
(* request (Catalog has the trees, and commands that meet in one).         *)
(***************************************************************************)
EXTENDS Naturals, Sequences, FiniteSets

CONSTANTS
  Methods,     \* of gRPC services
  Stored,      \* the contents of the requests saved at launch, a sequence
  MaxRequests, \* bound: requests that can be saved
  MaxCalls,    \* bound: commands under way at once
  Budgets,     \* bounds: what the user and the disk may still do
  None

Http == "http"      \* the method of a draft of the other protocol
NoMethod == "none"  \* the one of a new gRPC draft
Pristine == 0       \* EMPTY_BODY_TEMPLATE, or the skeleton of the method

Requests == 1 .. MaxRequests
ASSUME RequestsAssumption == MaxRequests \in Nat /\ Len(Stored) \in Requests

VARIABLES
  draft,        \* [id, method, body]; a null draft has the method None
  origin,       \* draftOrigin: the request the draft is bound to, or None
  dirty,        \* draftDirty
  armed,        \* whether autosave's timer is armed
  tree,         \* useCatalogTree's picture of the requests
  stored,       \* core's
  calls,        \* the commands under way, each with the tree to roll back to
  born,         \* requests that have got an id
  saving,       \* the Save dialog's submit
  saveOpen, discardOpen,
  pending,      \* pendingOpenRef
  gate,         \* methodChange's gate
  reads,        \* applyMethodSelection and resetBodyToTemplate, reading a skeleton
  wanted,       \* history: what the user last made of each request
  rough,        \* history: requests whose commands overlapped or failed
  dropped,      \* history: requests an edit of which was never sent to core
  overtaken,    \* history: the draft was replaced, or bound, during a save or a duplicate of it
  left          \* what is left of the budget

focus == <<draft, origin, dirty, armed>>
catalog == <<tree, stored, calls, born>>
dialogs == <<saving, saveOpen, discardOpen, pending>>
change == <<gate, reads>>
history == <<wanted, rough, dropped, overtaken>>
vars == <<focus, catalog, dialogs, change, history, left>>

Content(d) == [method |-> d.method, body |-> d.body]
HasDraft == draft.method # None
IsGrpc == draft.method \in Methods \cup {NoMethod}
Modal == saveOpen \/ discardOpen \/ gate.phase = "asking"
Spend(what) == left[what] > 0 /\ left' = [left EXCEPT ![what] = @ - 1]

Idle == [phase |-> "idle"]

Init ==
  /\ draft = [id |-> 0, method |-> None, body |-> Pristine]
  /\ origin = None /\ dirty = FALSE /\ armed = FALSE
  /\ tree = [r \in Requests |-> IF r \in DOMAIN Stored THEN Stored[r] ELSE None]
  /\ stored = tree /\ wanted = tree
  /\ calls = {} /\ born = Len(Stored)
  /\ saving = None /\ saveOpen = FALSE /\ discardOpen = FALSE /\ pending = None
  /\ gate = Idle /\ reads = {}
  /\ rough = {} /\ dropped = {} /\ overtaken = FALSE
  /\ left \in Budgets

-----------------------------------------------------------------------------
(* The store's transitions, with what React does in the render after them. *)

\* draftStillAt, and the gate that no longer is.
StillAt(g, m, o) == o = g.r /\ m = g.from
GateAt(g, m, o) == IF g.phase = "asking" THEN IF StillAt(g, m, o) THEN g ELSE Idle ELSE g

\* An edit the timer has not sent, when its effect is cleaned up.
Unsent == IF armed /\ tree[origin] # Content(draft) THEN {origin} ELSE {}

\* Something is under way that will act on the draft it began with.
Awaited == saving' # None \/ \E c \in calls' : c.do = "duplicate"

\* The effect cleans up the timer of the old draft; for a draft of the same request it arms
\* one again, for one of another it does not: the bind itself is skipped.
TimerAt(o) == o # None /\ o = origin

\* setDraft, where the gate has just become g.
SetDraft(content, o, g) ==
  /\ draft' = [id |-> 1 - draft.id, method |-> content.method, body |-> content.body]
  /\ origin' = o /\ dirty' = FALSE /\ armed' = TimerAt(o)
  /\ gate' = GateAt(g, content.method, o)
  /\ reads' = {[j EXCEPT !.live = FALSE] : j \in reads}
  /\ dropped' = dropped \cup Unsent \cup
                  (IF o # None THEN IF tree'[o] # content THEN {o} ELSE {} ELSE {})
  /\ overtaken' = (overtaken \/ Awaited)

\* updateGrpcDraft and editHttpTemplate with a patch of content.
Patch(m, b) ==
  /\ draft' = [draft EXCEPT !.method = m, !.body = b]
  /\ dirty' = (dirty \/ origin = None)
  /\ armed' = (origin # None)
  /\ wanted' = IF origin = None THEN wanted ELSE [wanted EXCEPT ![origin] = Content(draft')]
  /\ UNCHANGED <<origin, rough, dropped, overtaken>>

\* The command `do` for request r begins: the optimistic edit, and what to undo.
Call(do, r, content, shown) ==
  /\ Cardinality(calls) < MaxCalls
  /\ tree' = shown
  /\ calls' = calls \cup {[do |-> do, r |-> r, content |-> content, undo |-> tree]}
  /\ rough' = rough \cup {c.r : c \in {k \in calls : k.r = r}}

\* optimistic's rollback, of everybody's edits since.
Fails(c) ==
  /\ Spend("fail")
  /\ calls' = calls \ {c}
  /\ tree' = c.undo
  /\ rough' = rough \cup {c.r} \cup {r \in Requests : c.undo[r] # tree[r]}
  /\ UNCHANGED stored

Done(c) ==
  /\ calls' = calls \ {c}
  /\ stored' = [stored EXCEPT ![c.r] = c.content]

-----------------------------------------------------------------------------
(* Opening something, and what stands in its way.                          *)

NewContents == {[method |-> m, body |-> Pristine] : m \in {NoMethod, Http}}

\* What an open action does when it runs.  A call from the history plans its
\* origin only then, on the tree there is.
OriginOf(a) == IF a.do = "history" THEN IF tree'[a.r] = None THEN None ELSE a.r ELSE a.r
Run(a) == SetDraft(a.content, OriginOf(a), gate) /\ UNCHANGED <<wanted, rough>>

\* openRequest, addRequest, addHttpRequest, openHistoryCall.
Actions ==
  {[do |-> "new", r |-> None, content |-> c] : c \in NewContents} \cup
  {[do |-> "open", r |-> r, content |-> tree[r]] : r \in {q \in Requests : tree[q] # None}} \cup
  {[do |-> "history", r |-> r, content |-> Stored[r]] : r \in DOMAIN Stored}

NeedsDiscardConfirm == origin = None /\ dirty

\* guardedRun.
Guarded(a) ==
  IF NeedsDiscardConfirm
  THEN /\ pending' = a /\ discardOpen' = TRUE
       /\ UNCHANGED <<focus, change, history, saving, saveOpen>>
  ELSE UNCHANGED dialogs /\ Run(a)

Open ==
  /\ Spend("open")
  /\ UNCHANGED catalog
  /\ \E a \in Actions : Guarded(a)

Discard ==
  /\ discardOpen
  /\ discardOpen' = FALSE /\ pending' = None
  /\ UNCHANGED <<catalog, saving, saveOpen, left>>
  /\ IF pending = None THEN UNCHANGED <<focus, change, history>>
     ELSE Run(pending)

CancelDiscard ==
  /\ discardOpen /\ discardOpen' = FALSE
  /\ UNCHANGED <<focus, catalog, change, history, left, saving, saveOpen, pending>>

SaveFirst ==
  /\ discardOpen /\ discardOpen' = FALSE /\ saveOpen' = TRUE
  /\ UNCHANGED <<focus, catalog, change, history, left, saving, pending>>

-----------------------------------------------------------------------------
(* Editing, and autosave.                                                  *)

\* A new body each time: what is left of the budget numbers them.
Edit ==
  /\ HasDraft /\ ~Modal
  /\ Patch(draft.method, left.edit) /\ Spend("edit")
  /\ gate' = gate
  /\ UNCHANGED <<catalog, dialogs, reads>>

\* A gRPC call's progress patches its draft too, without content: the effect
\* runs again all the same.  (callLifecycle patches it by id.)
ShowsAnswer ==
  /\ IsGrpc /\ origin # None
  /\ armed' = TRUE
  /\ UNCHANGED <<draft, origin, dirty, catalog, dialogs, change, history, left>>

\* Mutant: one save at a time; what is typed during it waits for the next edit.
BugAutosave ==
  /\ armed /\ armed' = FALSE
  /\ IF tree[origin] = None \/ \E c \in calls : c.r = origin THEN UNCHANGED <<tree, calls, rough>>
     ELSE Call("autosave", origin, Content(draft), [tree EXCEPT ![origin] = Content(draft)])
  /\ UNCHANGED <<draft, origin, dirty, stored, born, dialogs, change, wanted, dropped, overtaken, left>>

\* updateItemContent; a request that is gone is not in what is stored.
Autosave ==
  /\ armed /\ armed' = FALSE
  /\ IF tree[origin] = None THEN UNCHANGED <<tree, calls, rough>>
     ELSE Call("autosave", origin, Content(draft), [tree EXCEPT ![origin] = Content(draft)])
  /\ UNCHANGED <<draft, origin, dirty, stored, born, dialogs, change, wanted, dropped, overtaken, left>>

Autosaved ==
  /\ \E c \in calls :
       /\ c.do = "autosave"
       /\ \/ Done(c) /\ UNCHANGED <<tree, rough, left>>
          \/ Fails(c)
  /\ UNCHANGED <<focus, born, dialogs, change, wanted, dropped, overtaken>>

\* A request is deleted from the tree; the draft bound to it stays.
DeleteSaved ==
  /\ Spend("delete")
  /\ \E r \in Requests :
       /\ tree[r] # None
       /\ tree' = [tree EXCEPT ![r] = None] /\ stored' = [stored EXCEPT ![r] = None]
       /\ rough' = rough \cup {c.r : c \in {k \in calls : k.r = r}}
  /\ UNCHANGED <<focus, calls, born, dialogs, change, wanted, dropped, overtaken>>

-----------------------------------------------------------------------------
(* Saving an unbound draft.                                                *)

\* Ctrl+S and the Save button.
OpenSave ==
  /\ HasDraft /\ origin = None
  /\ saveOpen' = TRUE /\ pending' = None
  /\ UNCHANGED <<focus, catalog, change, history, left, saving, discardOpen>>

\* Closing it does not stop a submit.
CloseSave ==
  /\ saveOpen
  /\ saveOpen' = FALSE /\ pending' = None
  /\ UNCHANGED <<focus, catalog, change, history, left, saving, discardOpen>>

\* handleSave, with the draft there is by then.
HandleSave ==
  LET r == born + 1 IN
  /\ r \in Requests
  /\ born' = r
  /\ Call("save", r, Content(draft), [tree EXCEPT ![r] = Content(draft)])
  /\ saving' = [stage |-> "add", r |-> r]
  /\ wanted' = [wanted EXCEPT ![r] = Content(draft)]
  /\ overtaken' = (overtaken \/ origin # None)

\* submit: a new collection or folder may have to be created first.
Submit ==
  /\ saveOpen /\ saving = None /\ Spend("save")
  /\ \/ HandleSave
     \/ /\ saving' = [stage |-> "prepare", r |-> None]
        /\ UNCHANGED <<tree, calls, born, wanted, rough, overtaken>>
  /\ UNCHANGED <<focus, stored, change, saveOpen, discardOpen, pending, dropped>>

Prepared ==
  /\ saving # None /\ saving.stage = "prepare"
  /\ \/ HandleSave /\ UNCHANGED left
     \/ saving' = None /\ Spend("fail") /\ UNCHANGED <<tree, calls, born, wanted, rough, overtaken>>
  /\ UNCHANGED <<focus, stored, change, saveOpen, discardOpen, pending, dropped>>

\* setDraftOrigin: the draft is bound as it is, and what it has that was not saved is dropped.
SaveAnswers ==
  /\ \E c \in calls :
       /\ c.do = "save"
       /\ \/ /\ Done(c)
             /\ origin' = c.r /\ dirty' = FALSE /\ armed' = FALSE
             /\ gate' = GateAt(gate, draft.method, c.r)
             /\ saving' = [saving EXCEPT !.stage = "reload"]
             /\ dropped' = dropped \cup Unsent \cup (IF Content(draft) # c.content THEN {c.r} ELSE {})
             /\ UNCHANGED <<tree, rough, left>>
          \/ /\ Fails(c) /\ saving' = None
             /\ UNCHANGED <<origin, dirty, armed, gate, dropped>>
  /\ UNCHANGED <<draft, born, saveOpen, discardOpen, pending, reads, wanted, overtaken>>

\* reload, then the action that was deferred; the dialog closes.
Reloaded ==
  /\ saving # None /\ saving.stage = "reload"
  /\ \/ tree' = stored /\ rough' = rough \cup {c.r : c \in calls}
     \/ UNCHANGED <<tree, rough>>
  /\ saving' = None /\ saveOpen' = FALSE /\ pending' = None
  /\ UNCHANGED <<stored, calls, born, discardOpen, wanted, left>>
  /\ IF pending = None THEN UNCHANGED <<focus, change, dropped, overtaken>>
     ELSE SetDraft(pending.content, OriginOf(pending), gate)

-----------------------------------------------------------------------------
(* Saving a method of the picker as a request, and opening it (quickAddMethod). *)

QuickAdd ==
  LET r == born + 1 IN
  /\ IsGrpc /\ ~Modal /\ Spend("save")
  /\ r \in Requests /\ born' = r
  /\ \E m \in Methods :
       LET content == [method |-> m, body |-> Pristine]
       IN  /\ Call("quick", r, content, [tree EXCEPT ![r] = content])
           /\ wanted' = [wanted EXCEPT ![r] = content]
  /\ UNCHANGED <<focus, stored, dialogs, change, dropped, overtaken>>

QuickAnswers ==
  \E c \in calls :
    /\ c.do = "quick"
    /\ UNCHANGED born
    /\ \/ /\ Done(c) /\ UNCHANGED <<tree, left>>
          /\ Guarded([do |-> "open", r |-> c.r, content |-> c.content])
       \/ Fails(c) /\ UNCHANGED <<focus, dialogs, change, wanted, dropped, overtaken>>

-----------------------------------------------------------------------------
(* Duplicating the request the draft is bound to.                          *)

Duplicate ==
  /\ origin # None /\ ~Modal /\ Spend("save")
  /\ Call("duplicate", origin, None, tree)
  /\ UNCHANGED <<focus, stored, born, dialogs, change, wanted, dropped, overtaken>>

\* The copy is core's, the whole collection is fetched, and the copy is opened
\* over whatever draft there is.
Duplicated ==
  \E c \in calls :
    /\ c.do = "duplicate"
    /\ calls' = calls \ {c}
    /\ UNCHANGED <<dialogs, left>>
    /\ \/ /\ stored[c.r] # None /\ born + 1 \in Requests
          /\ born' = born + 1
          /\ stored' = [stored EXCEPT ![born'] = stored[c.r]]
          /\ tree' = [tree EXCEPT ![c.r] = stored[c.r], ![born'] = stored[c.r]]
          /\ wanted' = [wanted EXCEPT ![born'] = stored[c.r]]
          /\ rough' = IF \E k \in calls' : k.r = c.r THEN rough \cup {c.r} ELSE rough
          /\ SetDraft(stored[c.r], born', gate)
       \/ UNCHANGED <<focus, tree, stored, born, change, history>>

-----------------------------------------------------------------------------
(* Changing the method (methodChange.tsx, applyMethodSelection).           *)

\* startMethodApply: the body is looked at now, the skeleton it is compared with is read.
Read(m, gated) ==
  reads' = reads \cup {[to |-> m, body |-> draft.body, live |-> TRUE, asked |-> origin, gated |-> gated]}

\* onSelectMethod.
PickMethod ==
  /\ IsGrpc /\ ~Modal /\ gate = Idle
  /\ Spend("pick")
  /\ \E m \in Methods :
       IF origin = None \/ draft.method = m
       THEN Read(m, FALSE) /\ UNCHANGED gate
       ELSE /\ gate' = [phase |-> "asking", r |-> origin, from |-> draft.method, to |-> m, body |-> draft.body]
            /\ UNCHANGED reads
  /\ UNCHANGED <<focus, catalog, dialogs, history>>

\* resetBodyToTemplate.
ResetBody ==
  /\ IsGrpc /\ ~Modal
  /\ Spend("pick")
  /\ Read(None, FALSE)
  /\ UNCHANGED <<focus, catalog, dialogs, gate, history>>

CancelAsking ==
  /\ gate.phase = "asking" /\ gate' = Idle
  /\ UNCHANGED <<focus, catalog, dialogs, reads, history, left>>

CommitChange ==
  /\ gate.phase = "asking"
  /\ gate' = [phase |-> "committing", r |-> gate.r]
  /\ Read(gate.to, TRUE)
  /\ UNCHANGED <<focus, catalog, dialogs, history, left>>

Reset(j) == j.to = None \/ j.body = Pristine

\* Mutant: a patch reaches whatever draft there is.
BugFinds(j) == TRUE

\* updateGrpcDraft's look at the draft's id.
Finds(j) == j.live

\* The skeleton is there, or could not be read.
ReadAnswers ==
  \E j \in reads :
    /\ IF Finds(j) /\ IsGrpc
       THEN Patch(IF j.to = None THEN draft.method ELSE j.to, IF Reset(j) THEN Pristine ELSE draft.body)
       ELSE UNCHANGED <<focus, history>>
    /\ reads' = reads \ {j}
    /\ gate' = IF j.gated THEN Idle ELSE GateAt(gate, draft'.method, origin)
    /\ UNCHANGED <<catalog, dialogs, left>>

\* createSibling: a new request next to the one that was asked about, if that one is there.
CommitCreate ==
  LET r == born + 1 content == [method |-> gate.to, body |-> gate.body] IN
  /\ gate.phase = "asking"
  /\ IF tree[gate.r] = None
     THEN gate' = Idle /\ UNCHANGED <<tree, calls, born, wanted, rough>>
     ELSE /\ r \in Requests
          /\ born' = r
          /\ gate' = [phase |-> "committing", r |-> gate.r]
          /\ Call("sibling", r, content, [tree EXCEPT ![r] = content])
          /\ wanted' = [wanted EXCEPT ![r] = content]
  /\ UNCHANGED <<focus, stored, dialogs, reads, dropped, overtaken, left>>

\* Mutant: the sibling is opened wherever the user is by now.
BugStays == IsGrpc

\* The draft is still bound to the request that was asked about.
Stays == IsGrpc /\ origin = gate.r

SiblingAnswers ==
  \E c \in calls :
    /\ c.do = "sibling"
    /\ \/ /\ Done(c)
          /\ UNCHANGED <<tree, rough, left>>
          /\ IF Stays THEN UNCHANGED dialogs /\ SetDraft(c.content, c.r, Idle)
             ELSE gate' = Idle /\ UNCHANGED <<focus, reads, dropped, overtaken, dialogs>>
       \/ /\ Fails(c) /\ gate' = Idle
          /\ UNCHANGED <<focus, reads, dropped, overtaken, dialogs>>
    /\ UNCHANGED <<born, wanted>>

Next ==
  \/ Open \/ Discard \/ CancelDiscard \/ SaveFirst
  \/ Edit \/ ShowsAnswer \/ Autosave \/ Autosaved \/ DeleteSaved
  \/ OpenSave \/ CloseSave \/ Submit \/ Prepared \/ SaveAnswers \/ Reloaded
  \/ QuickAdd \/ QuickAnswers \/ Duplicate \/ Duplicated
  \/ PickMethod \/ ResetBody \/ CancelAsking \/ CommitChange \/ ReadAnswers
  \/ CommitCreate \/ SiblingAnswers

Spec == Init /\ [][Next]_vars

-----------------------------------------------------------------------------
Contents == [method : Methods \cup {Http, NoMethod}, body : Nat]
DraftSlots == [id : {0, 1}, method : Methods \cup {Http, NoMethod, None}, body : Nat]
Trees    == [Requests -> Contents \cup {None}]
Calls    == [do : {"autosave", "save", "quick", "sibling"}, r : Requests, content : Contents, undo : Trees]
              \cup [do : {"duplicate"}, r : Requests, content : {None}, undo : Trees]
Savings  == [stage : {"prepare", "add", "reload"}, r : Requests \cup {None}]
Deferred == [do : {"new", "open", "history"}, r : Requests \cup {None}, content : Contents]
Gates    == [phase : {"asking"}, r : Requests, from : Methods \cup {NoMethod}, to : Methods, body : Nat]
              \cup [phase : {"committing"}, r : Requests]
Reads    == [to : Methods \cup {None}, body : Nat, live : BOOLEAN, asked : Requests \cup {None},
             gated : BOOLEAN]
Spendings == {"edit", "open", "pick", "save", "fail", "delete"}

\* The values are distinct where the source has null, and what is there at launch is typed.
ASSUME NoneAssumption ==
  /\ None \notin Methods \cup {Http, NoMethod} /\ None \notin Requests
  /\ None \notin Contents \cup Savings \cup Deferred
ASSUME LaunchAssumption == Stored \in Seq(Contents) /\ Budgets \subseteq [Spendings -> Nat]

TypeOK ==
  /\ draft \in DraftSlots
  /\ origin \in Requests \cup {None} /\ dirty \in BOOLEAN /\ armed \in BOOLEAN
  /\ saveOpen \in BOOLEAN /\ discardOpen \in BOOLEAN /\ overtaken \in BOOLEAN
  /\ tree \in Trees /\ stored \in Trees /\ wanted \in Trees
  /\ calls \subseteq Calls /\ born \in Len(Stored) .. MaxRequests
  /\ saving \in Savings \cup {None} /\ pending \in Deferred \cup {None}
  /\ (gate = Idle \/ gate \in Gates) /\ reads \subseteq Reads
  /\ rough \subseteq Requests /\ dropped \subseteq Requests
  /\ left \in [Spendings -> Nat]

Quiet(r) == (\A c \in calls : c.r # r) /\ ~(origin = r /\ armed)

\* With no timer armed and no command under way for a request, core has what the user last
\* made of it, the tree shows it, and so does the draft bound to it: through every open,
\* save, duplicate and change of method, answered in any order.  Left out are requests whose
\* commands failed or overlapped, and those of which an edit was dropped before it was sent.
EditsArrive ==
  /\ TypeOK
  /\ \A r \in Requests \ (rough \cup dropped) :
       Quiet(r) /\ tree[r] # None =>
         stored[r] = wanted[r] /\ tree[r] = wanted[r] /\ (origin = r => Content(draft) = wanted[r])

\* An unbound draft with edits is only replaced when the user discards it: not by an
\* opening that was deferred, nor by an answer that opens a request ("confirm first if it
\* would drop a dirty unbound draft").  Left out is a draft typed during the save or the
\* duplicate of another.
UnsavedIsKept ==
  [][dirty /\ origin = None /\ draft'.id # draft.id
       => (discardOpen /\ pending # None /\ ~discardOpen') \/ overtaken]_vars

\* A method lands on the draft it was picked for and on no other, and on a bound one only
\* if it was confirmed for that request, or picked before the draft was saved.
MethodFindsItsDraft ==
  [][draft'.id = draft.id /\ draft'.method # draft.method
       => \E j \in reads \ reads' :
            j.live /\ j.to = draft'.method /\ (j.asked \in {origin, None} \/ overtaken)]_vars

\* Known disagreement ("Origin-bound drafts autosave, so duplicating never loses edits"):
\* what replaces the draft within the timer's delay drops the edit.
EditsAreKept ==
  \A r \in Requests \ rough : Quiet(r) /\ tree[r] # None => stored[r] = wanted[r]

\* Known disagreement ("resets the body ONLY when the current body is still pristine"):
\* what is typed while the skeleton is read is reset.
TypedBodyIsKept ==
  [][draft'.id = draft.id /\ draft'.method # draft.method => draft'.body = draft.body \/ draft.body = Pristine]_vars

-----------------------------------------------------------------------------
(* The inductive invariant behind EditsArrive, UnsavedIsKept and           *)
(* MethodFindsItsDraft.                                                    *)

\* Before the first draft there is nothing to save, to ask or to answer.
NoDraftYet ==
  ~HasDraft =>
    /\ origin = None /\ ~dirty /\ ~armed /\ calls = {}
    /\ saving = None /\ ~saveOpen /\ ~discardOpen /\ gate = Idle

\* The timer is that of a bound draft.
TimerIsBound == armed => origin # None

\* A request that is not born yet is nowhere.
Unborn ==
  \A r \in Requests : r > born =>
    /\ tree[r] = None /\ stored[r] = None /\ origin # r
    /\ pending = None \/ pending.r # r
    /\ \A c \in calls : c.r # r /\ c.undo[r] = None

\* The commands of a request whose commands did not overlap: one at most, of what the
\* tree shows; without one core has what the tree shows.
OneCommand ==
  \A r \in Requests \ rough :
    /\ \A c, d \in calls : c.r = r /\ d.r = r => c = d
    /\ \A c \in calls : c.r = r /\ c.do # "duplicate" => c.content = tree[r]
    /\ stored[r] = tree[r] \/ \E c \in calls : c.r = r /\ c.do # "duplicate"

\* What the user last made of a request is in the tree, or in the draft and its timer armed.
WantedIsHeld ==
  \A r \in Requests \ (rough \cup dropped) :
    tree[r] # None =>
      /\ wanted[r] = tree[r] \/ (origin = r /\ armed)
      /\ origin = r => Content(draft) = wanted[r]

Under(do) == {c \in calls : c.do = do}

\* A submit has one command, in its second stage; a draft that is bound by then, or unbound
\* after it, is not the one it began with.  So is a duplicate's that is unbound.
SubmitsApart ==
  /\ \A c, d \in Under("save") : c = d
  /\ Under("save") # {} => saving # None /\ saving.stage = "add" /\ (origin # None => overtaken)
  /\ saving # None /\ saving.stage = "reload" /\ origin = None => overtaken
  /\ Under("duplicate") # {} /\ origin = None => overtaken

Gated == {j \in reads : j.gated}

\* One answer at most will close the gate, and until then nothing else does.
GateIsHeld ==
  /\ \A c, d \in Under("sibling") : c = d
  /\ \A j, k \in Gated : j = k
  /\ Under("sibling") = {} \/ Gated = {}
  /\ Under("sibling") # {} \/ Gated # {} => gate.phase = "committing"

\* A read that may still patch the draft was begun at the draft, where it is bound now or
\* before it was.
ReadsKnowTheirDraft ==
  \A j \in reads : j.live => j.asked \in {origin, None} \/ overtaken

DraftInv == /\ TypeOK /\ NoDraftYet /\ TimerIsBound /\ Unborn /\ OneCommand /\ WantedIsHeld
            /\ SubmitsApart /\ GateIsHeld /\ ReadsKnowTheirDraft
=============================================================================
