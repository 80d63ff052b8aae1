---------------------------- MODULE Editing_proofs ----------------------------
(***************************************************************************)
(* Theorems about the two places where the user's edits are kept before    *)
(* they are stored: Drafts and VarTable.                                   *)
(*                                                                         *)
(* Drafts, for any methods, any requests saved at launch, any number of    *)
(* commands under way and any budget of the user: what is typed reaches    *)
(* core or is given up knowingly.  The three properties follow from        *)
(* DraftInv; most actions are put together from SetDraft, Patch, Call,     *)
(* Done and Fails, and so is the proof: first what each of these does to   *)
(* the invariant, then the actions.                                        *)
(*                                                                         *)
(* VarTable, for any names, values, stored variables, searches and any     *)
(* number of turns of the user: what is worked on stays on the screen, and *)
(* leaving the pane gives up nothing that is right.  Both follow from      *)
(* TableInv, which is proved the same way: first what the operators the    *)
(* handlers are made of keep of a table that is in order (TableOK), then   *)
(* the actions.                                                            *)
(***************************************************************************)
EXTENDS Drafts, VarTable, FiniteSetTheorems, SequenceTheorems, TLAPS


-----------------------------------------------------------------------------
(* The operators the actions are made of. *)

\* A content is what Content makes of it, and not that of a null draft.
LEMMA ContentFacts ==
  ASSUME NEW c \in Contents
  PROVE  /\ [method |-> c.method, body |-> c.body] = c
         /\ c.method # None /\ c.body \in Nat /\ c.method \in Methods \cup {Http, NoMethod}
  BY NoneAssumption DEF Contents

\* A draft that is replaced is another one, with the content and the origin it was given,
\* and its reads are dead.
LEMMA SetDraftFacts ==
  ASSUME TypeOK, TimerIsBound, NEW c \in Contents, NEW o \in Requests \cup {None},
         NEW g, g = Idle \/ g \in Gates, SetDraft(c, o, g)
  PROVE  /\ draft' \in DraftSlots /\ draft'.id # draft.id /\ Content(draft') = c
         /\ draft'.method # None
         /\ origin' = o /\ dirty' = FALSE
         /\ gate' = Idle \/ gate' \in Gates
         /\ reads' \subseteq Reads
         /\ dropped \subseteq dropped' /\ dropped' \subseteq Requests
         /\ \A j \in reads' : ~j.live
  <1>1. draft' = [id |-> 1 - draft.id, method |-> c.method, body |-> c.body]
    BY DEF SetDraft
  <1>2. draft' \in DraftSlots /\ draft'.id # draft.id
    BY <1>1, ContentFacts DEF TypeOK, DraftSlots
  <1>3. Content(draft') = c /\ draft'.method # None
    BY <1>1, ContentFacts DEF Content
  <1>4. origin' = o /\ dirty' = FALSE
    BY DEF SetDraft
  <1>5. gate' = Idle \/ gate' \in Gates
    BY DEF SetDraft, GateAt
  <1>6. reads' = {[j EXCEPT !.live = FALSE] : j \in reads}
    BY DEF SetDraft
  <1>7. reads' \subseteq Reads /\ \A j \in reads' : ~j.live
    BY <1>6 DEF TypeOK, Reads
  <1>8. Unsent \subseteq Requests
    BY DEF Unsent, TypeOK, TimerIsBound
  <1>9. dropped \subseteq dropped' /\ dropped' \subseteq Requests
    BY <1>8 DEF SetDraft, TypeOK
  <1>10. QED BY <1>2, <1>3, <1>4, <1>5, <1>7, <1>9

\* A replaced draft is overtaken if anything awaits it.
LEMMA SetDraftOvertakes ==
  ASSUME TypeOK, NEW c, NEW o, NEW g, SetDraft(c, o, g)
  PROVE  /\ overtaken' \in BOOLEAN /\ armed' \in BOOLEAN
         /\ overtaken' = (overtaken \/ Awaited)
         /\ armed' => origin' # None
  <1>1. overtaken' \in BOOLEAN
    BY Zenon DEF SetDraft
  <1>2. armed' \in BOOLEAN
    BY Zenon DEF SetDraft, TimerAt
  <1>3. overtaken' = (overtaken \/ Awaited)
    BY Zenon DEF SetDraft
  <1>4. armed' => origin' # None
    BY Zenon DEF SetDraft, TimerAt
  <1>5. QED BY <1>1, <1>2, <1>3, <1>4

\* A patch of a draft there is.
LEMMA PatchFacts ==
  ASSUME TypeOK, HasDraft, NEW m \in Methods \cup {Http, NoMethod}, NEW b \in Nat, Patch(m, b)
  PROVE  /\ draft' \in DraftSlots
         /\ draft'.id = draft.id /\ draft'.method = m /\ draft'.body = b
         /\ Content(draft') \in Contents /\ draft'.method # None
         /\ origin' = origin /\ rough' = rough /\ dropped' = dropped /\ overtaken' = overtaken
         /\ dirty' \in BOOLEAN /\ armed' \in BOOLEAN /\ wanted' \in Trees
  <1>1. draft' = [draft EXCEPT !.method = m, !.body = b]
    BY DEF Patch
  <1>2. /\ draft' \in DraftSlots
        /\ draft'.id = draft.id /\ draft'.method = m /\ draft'.body = b
    BY <1>1 DEF TypeOK, DraftSlots
  <1>3. Content(draft') \in Contents /\ draft'.method # None
    BY <1>2, NoneAssumption DEF Content, Contents
  <1>4. origin' = origin /\ rough' = rough /\ dropped' = dropped /\ overtaken' = overtaken
    BY DEF Patch
  <1>5. dirty' \in BOOLEAN /\ armed' \in BOOLEAN
    BY Zenon DEF Patch
  <1>6. wanted' \in Trees
    BY <1>3 DEF Patch, TypeOK, Trees
  <1>7. QED BY <1>2, <1>3, <1>4, <1>5, <1>6

\* A command that begins.
LEMMA CallFacts ==
  ASSUME TypeOK, NEW do, NEW r \in Requests, NEW c, NEW shown \in Trees, Call(do, r, c, shown),
         \/ do \in {"autosave", "save", "quick", "sibling"} /\ c \in Contents
         \/ do = "duplicate" /\ c = None
  PROVE  /\ tree' = shown /\ tree' \in Trees
         /\ calls' \subseteq Calls /\ rough \subseteq rough' /\ rough' \subseteq Requests
         /\ \E n \in Calls : n.do = do /\ n.r = r /\ n.content = c /\ n.undo = tree
                               /\ calls' = calls \cup {n}
  <1> DEFINE n == [do |-> do, r |-> r, content |-> c, undo |-> tree]
  <1>1. n \in Calls
    BY DEF TypeOK, Calls
  <1>2. tree' = shown /\ calls' = calls \cup {n} /\ rough' = rough \cup {k.r : k \in {x \in calls : x.r = r}}
    BY DEF Call
  <1>3. rough' \subseteq Requests
    BY <1>2 DEF TypeOK
  <1>4. QED BY <1>1, <1>2, <1>3 DEF TypeOK

\* One that fails, and one that is done.
LEMMA FailsFacts ==
  ASSUME TypeOK, NEW c \in calls, Fails(c)
  PROVE  /\ calls' = calls \ {c} /\ calls' \subseteq Calls
         /\ tree' = c.undo /\ tree' \in Trees /\ stored' = stored
         /\ rough \subseteq rough' /\ rough' \subseteq Requests /\ c.r \in rough'
         /\ \A r \in Requests \ rough' : tree'[r] = tree[r]
         /\ left' \in [Spendings -> Nat]
  <1>1. /\ calls' = calls \ {c} /\ tree' = c.undo /\ stored' = stored
        /\ rough' = rough \cup {c.r} \cup {r \in Requests : c.undo[r] # tree[r]}
    BY DEF Fails
  <1>2. c \in Calls BY DEF TypeOK
  <1>3. c.r \in Requests /\ c.undo \in Trees BY <1>2 DEF Calls
  <1>4. left' \in [Spendings -> Nat] BY DEF Fails, Spend, Spendings, TypeOK
  <1>5. QED BY <1>1, <1>3, <1>4 DEF TypeOK

LEMMA SpendFacts ==
  ASSUME TypeOK, NEW what \in Spendings, Spend(what)
  PROVE  left' \in [Spendings -> Nat]
  BY DEF TypeOK, Spend

LEMMA DoneFacts ==
  ASSUME TypeOK, NEW c \in calls, c.do # "duplicate", Done(c)
  PROVE  /\ calls' = calls \ {c} /\ calls' \subseteq Calls /\ c.content \in Contents /\ c.r \in Requests
         /\ stored' = [stored EXCEPT ![c.r] = c.content] /\ stored' \in Trees
  <1>1. c \in Calls BY DEF TypeOK
  <1>2. c.r \in Requests /\ c.content \in Contents BY <1>1 DEF Calls
  <1>3. QED BY <1>1, <1>2 DEF Done, TypeOK, Trees

\* What guardedRun does: ask, or open.
LEMMA GuardedFacts ==
  ASSUME TypeOK, TimerIsBound, NEW a \in Deferred, Guarded(a)
  PROVE  \/ /\ NeedsDiscardConfirm
            /\ pending' = a /\ discardOpen' = TRUE
            /\ UNCHANGED <<draft, origin, dirty, armed, gate, reads, wanted, rough, dropped,
                           overtaken, saving, saveOpen>>
         \/ /\ ~NeedsDiscardConfirm
            /\ UNCHANGED <<saving, saveOpen, discardOpen, pending, wanted, rough>>
            /\ SetDraft(a.content, OriginOf(a), gate)
            /\ a.content \in Contents /\ OriginOf(a) \in Requests \cup {None}
  BY DEF Guarded, Run, OriginOf, Deferred, focus, change, history, dialogs

\* What may be opened is typed.
LEMMA ActionsFacts ==
  ASSUME TypeOK
  PROVE  Actions \subseteq Deferred
  <1>1. NewContents \subseteq Contents
    BY DEF NewContents, Contents, Pristine
  <1>2. \A r \in Requests : tree[r] # None => tree[r] \in Contents
    BY DEF TypeOK, Trees
  <1>3. DOMAIN Stored \subseteq Requests /\ \A r \in DOMAIN Stored : Stored[r] \in Contents
    BY LaunchAssumption, RequestsAssumption DEF Requests
  <1>4. QED BY <1>1, <1>2, <1>3 DEF Actions, Deferred

LEMMA HandleSaveFacts ==
  ASSUME TypeOK, HasDraft, HandleSave
  PROVE  LET r == born + 1 IN
         /\ r \in Requests /\ born' = r /\ born' \in Len(Stored) .. MaxRequests
         /\ Content(draft) \in Contents
         /\ Call("save", r, Content(draft), [tree EXCEPT ![r] = Content(draft)])
         /\ [tree EXCEPT ![r] = Content(draft)] \in Trees
         /\ saving' \in Savings /\ saving'.stage = "add"
         /\ wanted' = [wanted EXCEPT ![r] = Content(draft)] /\ wanted' \in Trees
         /\ overtaken' = (overtaken \/ origin # None) /\ overtaken' \in BOOLEAN
  <1> DEFINE r == born + 1
  <1>1. /\ r \in Requests /\ born' = r /\ saving' = [stage |-> "add", r |-> r]
        /\ Call("save", r, Content(draft), [tree EXCEPT ![r] = Content(draft)])
        /\ wanted' = [wanted EXCEPT ![r] = Content(draft)]
    BY DEF HandleSave
  <1>2. born' \in Len(Stored) .. MaxRequests
    BY <1>1, RequestsAssumption DEF TypeOK, Requests
  <1>3. Content(draft) \in Contents
    BY DEF TypeOK, DraftSlots, HasDraft, Content, Contents
  <1>4. [tree EXCEPT ![r] = Content(draft)] \in Trees /\ wanted' \in Trees
    BY <1>1, <1>3 DEF TypeOK, Trees
  <1>5. saving' \in Savings /\ saving'.stage = "add"
    BY <1>1 DEF Savings
  <1>6. overtaken' = (overtaken \/ origin # None) /\ overtaken' \in BOOLEAN
    BY Zenon DEF HandleSave
  <1>7. QED BY <1>1, <1>2, <1>3, <1>4, <1>5, <1>6

-----------------------------------------------------------------------------
(* Types. *)

LEMMA OpenTypes ==
  ASSUME TypeOK, TimerIsBound, Open \/ Discard \/ CancelDiscard \/ SaveFirst
  PROVE  TypeOK'
  <1> USE DEF focus, catalog, dialogs, change, history
  <1>1. CASE Open
    <2>1. PICK a \in Deferred : Guarded(a) BY <1>1, ActionsFacts DEF Open
    <2>2. UNCHANGED <<tree, stored, calls, born>> BY <1>1 DEF Open
    <2>3. left' \in [Spendings -> Nat] BY <1>1, SpendFacts DEF Open, Spendings
    <2>4. CASE NeedsDiscardConfirm
      BY <2>1, <2>2, <2>3, <2>4, GuardedFacts DEF TypeOK
    <2>5. CASE ~NeedsDiscardConfirm
      <3>1. /\ UNCHANGED <<saving, saveOpen, discardOpen, pending, wanted, rough>>
            /\ SetDraft(a.content, OriginOf(a), gate)
            /\ a.content \in Contents /\ OriginOf(a) \in Requests \cup {None}
        BY <2>1, <2>5, GuardedFacts
      <3>2. gate = Idle \/ gate \in Gates BY DEF TypeOK
      <3>3. QED BY <2>2, <2>3, <3>1, <3>2, SetDraftFacts, SetDraftOvertakes DEF TypeOK
    <2>6. QED BY <2>4, <2>5
  <1>2. CASE Discard
    <2>1. /\ UNCHANGED <<tree, stored, calls, born, saving, saveOpen, left>>
          /\ discardOpen' = FALSE /\ pending' = None
      BY <1>2 DEF Discard
    <2>2. CASE pending = None
      BY <1>2, <2>1, <2>2 DEF Discard, TypeOK
    <2>3. CASE pending # None
      <3>1. pending \in Deferred BY <2>3 DEF TypeOK
      <3>2. /\ UNCHANGED <<wanted, rough>>
            /\ SetDraft(pending.content, OriginOf(pending), gate)
            /\ pending.content \in Contents /\ OriginOf(pending) \in Requests \cup {None}
        BY <1>2, <2>3, <3>1 DEF Discard, Run, OriginOf, Deferred
      <3>3. gate = Idle \/ gate \in Gates BY DEF TypeOK
      <3>4. QED BY <2>1, <3>2, <3>3, SetDraftFacts, SetDraftOvertakes DEF TypeOK
    <2>4. QED BY <2>2, <2>3
  <1>3. CASE CancelDiscard
    BY <1>3 DEF CancelDiscard, TypeOK
  <1>4. CASE SaveFirst
    BY <1>4 DEF SaveFirst, TypeOK
  <1>5. QED BY <1>1, <1>2, <1>3, <1>4

LEMMA EditTypes ==
  ASSUME TypeOK, TimerIsBound, NoDraftYet, Edit \/ ShowsAnswer \/ Autosave \/ Autosaved \/ DeleteSaved
  PROVE  TypeOK'
  <1> USE DEF focus, catalog, dialogs, change, history
  <1>1. CASE Edit
    <2>1. /\ HasDraft /\ Patch(draft.method, left.edit) /\ Spend("edit")
          /\ UNCHANGED <<tree, stored, calls, born, saving, saveOpen, discardOpen, pending, gate, reads>>
      BY <1>1 DEF Edit
    <2>2. draft.method \in Methods \cup {Http, NoMethod} /\ left.edit \in Nat
      BY <2>1 DEF TypeOK, DraftSlots, HasDraft, Spendings
    <2>3. left' \in [Spendings -> Nat] BY <2>1, SpendFacts DEF Spendings
    <2>4. QED BY <2>1, <2>2, <2>3, PatchFacts DEF TypeOK
  <1>2. CASE ShowsAnswer
    BY <1>2 DEF ShowsAnswer, TypeOK
  <1>3. CASE Autosave
    <2>1. /\ armed /\ armed' = FALSE
          /\ UNCHANGED <<draft, origin, dirty, stored, born, saving, saveOpen, discardOpen, pending,
                         gate, reads, wanted, dropped, overtaken, left>>
      BY <1>3 DEF Autosave
    <2>2. CASE tree[origin] = None
      BY <1>3, <2>1, <2>2 DEF Autosave, TypeOK
    <2>3. CASE tree[origin] # None
      <3>1. origin \in Requests BY <2>1 DEF TypeOK, TimerIsBound
      <3>2. HasDraft BY <2>1 DEF NoDraftYet
      <3>3. Content(draft) \in Contents
        BY <3>2 DEF TypeOK, DraftSlots, HasDraft, Content, Contents
      <3>4. [tree EXCEPT ![origin] = Content(draft)] \in Trees
        BY <3>3 DEF TypeOK, Trees
      <3>5. Call("autosave", origin, Content(draft), [tree EXCEPT ![origin] = Content(draft)])
        BY <1>3, <2>3 DEF Autosave
      <3>6. QED BY <2>1, <3>1, <3>3, <3>4, <3>5, CallFacts DEF TypeOK
    <2>4. QED BY <2>2, <2>3
  <1>4. CASE Autosaved
    <2>1. UNCHANGED <<draft, origin, dirty, armed, born, saving, saveOpen, discardOpen, pending, gate, reads,
                      wanted, dropped, overtaken>>
      BY <1>4 DEF Autosaved
    <2>2. PICK c \in calls :
            c.do = "autosave" /\ ((Done(c) /\ UNCHANGED <<tree, rough, left>>) \/ Fails(c))
      BY <1>4 DEF Autosaved
    <2>4. CASE Done(c) /\ UNCHANGED <<tree, rough, left>>
      BY <2>1, <2>2, <2>4, DoneFacts DEF TypeOK
    <2>5. CASE Fails(c)
      BY <2>1, <2>5, FailsFacts DEF TypeOK
    <2>6. QED BY <2>2, <2>4, <2>5
  <1>5. CASE DeleteSaved
    <2>1. UNCHANGED <<draft, origin, dirty, armed, calls, born, saving, saveOpen, discardOpen, pending,
                      gate, reads, wanted, dropped, overtaken>>
      BY <1>5 DEF DeleteSaved
    <2>2. left' \in [Spendings -> Nat] BY <1>5, SpendFacts DEF DeleteSaved, Spendings
    <2>3. tree' \in Trees /\ stored' \in Trees BY <1>5 DEF DeleteSaved, TypeOK, Trees
    <2>4. rough' \subseteq Requests BY <1>5 DEF DeleteSaved, TypeOK, Calls
    <2>5. QED BY <2>1, <2>2, <2>3, <2>4 DEF TypeOK
  <1>6. QED BY <1>1, <1>2, <1>3, <1>4, <1>5

\* The two ends of a duplicate.
Copies(c) ==
  /\ c.do = "duplicate" /\ calls' = calls \ {c}
  /\ UNCHANGED <<saving, saveOpen, discardOpen, pending, left>>
  /\ stored[c.r] # None /\ born + 1 \in Requests
  /\ born' = born + 1
  /\ stored' = [stored EXCEPT ![born'] = stored[c.r]]
  /\ tree' = [tree EXCEPT ![c.r] = stored[c.r], ![born'] = stored[c.r]]
  /\ wanted' = [wanted EXCEPT ![born'] = stored[c.r]]
  /\ rough' = IF \E k \in calls' : k.r = c.r THEN rough \cup {c.r} ELSE rough
  /\ SetDraft(stored[c.r], born', gate)

CopiesNot(c) ==
  /\ c.do = "duplicate" /\ calls' = calls \ {c}
  /\ UNCHANGED <<saving, saveOpen, discardOpen, pending, left>>
  /\ UNCHANGED <<focus, tree, stored, born, change, history>>

\* The save is answered: the draft is bound as it is.
Binds(c) ==
  /\ Done(c)
  /\ origin' = c.r /\ dirty' = FALSE /\ armed' = FALSE
  /\ gate' = GateAt(gate, draft.method, c.r)
  /\ saving' = [saving EXCEPT !.stage = "reload"]
  /\ dropped' = dropped \cup Unsent \cup (IF Content(draft) # c.content THEN {c.r} ELSE {})
  /\ UNCHANGED <<tree, rough, left>>

LEMMA SaveTypes ==
  ASSUME TypeOK, TimerIsBound, NoDraftYet, SubmitsApart,
         OpenSave \/ CloseSave \/ Submit \/ Prepared \/ SaveAnswers \/ Reloaded
  PROVE  TypeOK'
  <1> USE DEF focus, catalog, dialogs, change, history
  <1>1. CASE OpenSave \/ CloseSave
    BY <1>1 DEF OpenSave, CloseSave, TypeOK
  <1>2. CASE Submit \/ Prepared
    <2>1. UNCHANGED <<draft, origin, dirty, armed, stored, gate, reads, saveOpen, discardOpen, pending, dropped>>
      BY <1>2 DEF Submit, Prepared
    <2>2. left' \in [Spendings -> Nat]
      BY <1>2, SpendFacts DEF Submit, Prepared, Spendings, TypeOK
    <2>3. HasDraft
      BY <1>2 DEF Submit, Prepared, NoDraftYet
    <2>4. CASE HandleSave
      BY <2>1, <2>2, <2>3, <2>4, HandleSaveFacts, CallFacts DEF TypeOK
    <2>5. CASE ~HandleSave
      <3>1. /\ UNCHANGED <<tree, calls, born, wanted, rough, overtaken>>
            /\ saving' \in Savings \cup {None}
        BY <1>2, <2>5 DEF Submit, Prepared, Savings
      <3>2. QED BY <2>1, <2>2, <3>1 DEF TypeOK
    <2>6. QED BY <2>4, <2>5
  <1>3. CASE SaveAnswers
    <2>1. UNCHANGED <<draft, born, saveOpen, discardOpen, pending, reads, wanted, overtaken>>
      BY <1>3 DEF SaveAnswers
    <2>2. PICK c \in calls :
           c.do = "save" /\ (Binds(c) \/ (Fails(c) /\ saving' = None
                                            /\ UNCHANGED <<origin, dirty, armed, gate, dropped>>))
      BY <1>3 DEF SaveAnswers, Binds
    <2>3. c \in Calls BY DEF TypeOK
    <2>4. c.r \in Requests BY <2>3 DEF Calls
    <2>5. CASE Fails(c) /\ saving' = None /\ UNCHANGED <<origin, dirty, armed, gate, dropped>>
      BY <2>1, <2>5, FailsFacts DEF TypeOK
    <2>6. CASE Binds(c)
      <3>1. Unsent \subseteq Requests BY DEF Unsent, TypeOK, TimerIsBound
      <3>2. dropped' \subseteq Requests BY <2>4, <2>6, <3>1 DEF TypeOK, Binds
      <3>3. gate' = Idle \/ gate' \in Gates BY <2>6 DEF GateAt, TypeOK, Binds
      <3>4. saving \in Savings BY <2>2 DEF TypeOK, SubmitsApart, Under
      <3>5. saving' \in Savings BY <2>6, <3>4 DEF Savings, Binds
      <3>6. QED BY <2>1, <2>2, <2>4, <2>6, <3>2, <3>3, <3>5, DoneFacts DEF TypeOK, Binds
    <2>7. QED BY <2>2, <2>5, <2>6
  <1>4. CASE Reloaded
    <2>1. /\ saving' = None /\ saveOpen' = FALSE /\ pending' = None
          /\ UNCHANGED <<stored, calls, born, discardOpen, wanted, left>>
      BY <1>4 DEF Reloaded
    <2>2. tree' \in Trees /\ rough' \subseteq Requests
      BY <1>4 DEF Reloaded, TypeOK, Calls
    <2>3. CASE pending = None
      BY <1>4, <2>1, <2>2, <2>3 DEF Reloaded, TypeOK
    <2>4. CASE pending # None
      <3>1. pending \in Deferred BY <2>4 DEF TypeOK
      <3>2. /\ SetDraft(pending.content, OriginOf(pending), gate)
            /\ pending.content \in Contents /\ OriginOf(pending) \in Requests \cup {None}
        BY <1>4, <2>4, <3>1 DEF Reloaded, OriginOf, Deferred
      <3>3. gate = Idle \/ gate \in Gates BY DEF TypeOK
      <3>4. QED BY <2>1, <2>2, <3>2, <3>3, SetDraftFacts, SetDraftOvertakes DEF TypeOK
    <2>5. QED BY <2>3, <2>4
  <1>5. QED BY <1>1, <1>2, <1>3, <1>4

LEMMA AddTypes ==
  ASSUME TypeOK, TimerIsBound, NoDraftYet, QuickAdd \/ QuickAnswers \/ Duplicate \/ Duplicated
  PROVE  TypeOK'
  <1> USE DEF focus, catalog, dialogs, change, history
  <1>1. CASE QuickAdd
    <2> DEFINE r == born + 1
    <2>1. PICK m \in Methods :
           LET content == [method |-> m, body |-> Pristine]
           IN  /\ Call("quick", r, content, [tree EXCEPT ![r] = content])
               /\ wanted' = [wanted EXCEPT ![r] = content]
      BY <1>1 DEF QuickAdd
    <2>2. /\ r \in Requests /\ born' = r /\ Spend("save")
          /\ UNCHANGED <<draft, origin, dirty, armed, stored, saving, saveOpen, discardOpen, pending,
                         gate, reads, dropped, overtaken>>
      BY <1>1 DEF QuickAdd
    <2>3. born' \in Len(Stored) .. MaxRequests
      BY <2>2, RequestsAssumption DEF TypeOK, Requests
    <2>4. left' \in [Spendings -> Nat] BY <2>2, SpendFacts DEF Spendings
    <2> DEFINE content == [method |-> m, body |-> Pristine]
    <2>5. content \in Contents BY DEF Contents, Pristine
    <2>6. [tree EXCEPT ![r] = content] \in Trees /\ [wanted EXCEPT ![r] = content] \in Trees
      BY <2>5 DEF TypeOK, Trees
    <2>7. QED BY <2>1, <2>2, <2>3, <2>4, <2>5, <2>6, CallFacts DEF TypeOK
  <1>2. CASE QuickAnswers
    <2>1. born' = born BY <1>2 DEF QuickAnswers
    <2>2. PICK c \in calls :
            /\ c.do = "quick"
            /\ \/ /\ Done(c) /\ UNCHANGED <<tree, left>>
                  /\ Guarded([do |-> "open", r |-> c.r, content |-> c.content])
               \/ Fails(c) /\ UNCHANGED <<focus, dialogs, change, wanted, dropped, overtaken>>
      BY <1>2 DEF QuickAnswers
    <2>3. c \in Calls BY DEF TypeOK
    <2>4. CASE Fails(c) /\ UNCHANGED <<focus, dialogs, change, wanted, dropped, overtaken>>
      BY <2>1, <2>4, FailsFacts DEF TypeOK
    <2> DEFINE a == [do |-> "open", r |-> c.r, content |-> c.content]
    <2>5. CASE Done(c) /\ UNCHANGED <<tree, left>> /\ Guarded(a)
      <3>1. c.r \in Requests /\ c.content \in Contents BY <2>2, <2>3 DEF Calls
      <3>2. a \in Deferred BY <3>1 DEF Deferred
      <3>3. stored' \in Trees /\ calls' \subseteq Calls BY <2>2, <2>5, DoneFacts
      <3>4. CASE NeedsDiscardConfirm
        BY <2>1, <2>5, <3>2, <3>3, <3>4, GuardedFacts DEF TypeOK
      <3>5. CASE ~NeedsDiscardConfirm
        <4> HIDE DEF a
        <4>1. /\ UNCHANGED <<saving, saveOpen, discardOpen, pending, wanted, rough>>
              /\ SetDraft(a.content, OriginOf(a), gate)
              /\ a.content \in Contents /\ OriginOf(a) \in Requests \cup {None}
          BY <2>5, <3>2, <3>5, GuardedFacts
        <4>2. gate = Idle \/ gate \in Gates BY DEF TypeOK
        <4>3. QED BY <2>1, <2>5, <3>3, <4>1, <4>2, SetDraftFacts, SetDraftOvertakes DEF TypeOK
      <3>6. QED BY <3>4, <3>5
    <2>6. QED BY <2>2, <2>4, <2>5
  <1>3. CASE Duplicate
    <2>1. /\ origin # None /\ Spend("save") /\ Call("duplicate", origin, None, tree)
          /\ UNCHANGED <<draft, origin, dirty, armed, stored, born, saving, saveOpen, discardOpen, pending,
                         gate, reads, wanted, dropped, overtaken>>
      BY <1>3 DEF Duplicate
    <2>2. origin \in Requests /\ tree \in Trees BY <2>1 DEF TypeOK
    <2>3. left' \in [Spendings -> Nat] BY <2>1, SpendFacts DEF Spendings
    <2>4. QED BY <2>1, <2>2, <2>3, CallFacts DEF TypeOK
  <1>4. CASE Duplicated
    <2>1. PICK c \in calls : Copies(c) \/ CopiesNot(c)
      BY <1>4 DEF Duplicated, Copies, CopiesNot
    <2>2. c \in Calls BY DEF TypeOK
    <2>3. CASE Copies(c)
      <3>1. stored[c.r] \in Contents /\ c.r \in Requests
        BY <2>2, <2>3 DEF Copies, TypeOK, Trees, Calls
      <3>2. born' \in Requests /\ born' \in Len(Stored) .. MaxRequests
        BY <2>3, RequestsAssumption DEF TypeOK, Requests, Copies
      <3>3. tree' \in Trees /\ stored' \in Trees /\ wanted' \in Trees
        BY <2>3, <3>1, <3>2 DEF Copies, TypeOK, Trees
      <3>4. rough' \subseteq Requests /\ calls' \subseteq Calls
        BY <2>3, <3>1 DEF TypeOK, Copies
      <3>5. SetDraft(stored[c.r], born', gate) /\ UNCHANGED <<saving, saveOpen, discardOpen, pending, left>>
        BY <2>3 DEF Copies
      <3>6. gate = Idle \/ gate \in Gates BY DEF TypeOK
      <3>7. PICK o \in Requests : o = born' BY <3>2
      <3>8. SetDraft(stored[c.r], o, gate) BY <3>5, <3>7
      <3>9. QED
        BY <3>1, <3>2, <3>3, <3>4, <3>5, <3>6, <3>8, SetDraftFacts, SetDraftOvertakes DEF TypeOK
    <2>4. CASE CopiesNot(c)
      BY <2>4 DEF CopiesNot, TypeOK
    <2>5. QED BY <2>1, <2>3, <2>4
  <1>5. QED BY <1>1, <1>2, <1>3, <1>4

LEMMA MethodTypes ==
  ASSUME TypeOK, TimerIsBound, GateIsHeld,
         \/ PickMethod \/ ResetBody \/ CancelAsking \/ CommitChange \/ ReadAnswers
         \/ CommitCreate \/ SiblingAnswers
  PROVE  TypeOK'
  <1> USE DEF focus, catalog, dialogs, change, history
  <1>0. /\ \A m \in Methods \cup {None} : Read(m, FALSE) => reads' \subseteq Reads
        /\ \A m \in Methods \cup {None} : Read(m, TRUE) => reads' \subseteq Reads
    <2>1. draft.body \in Nat /\ origin \in Requests \cup {None} /\ reads \subseteq Reads
      BY DEF TypeOK, DraftSlots
    <2>2. \A m \in Methods \cup {None}, b \in Nat, o \in Requests \cup {None} :
            /\ [to |-> m, body |-> b, live |-> TRUE, asked |-> o, gated |-> TRUE] \in Reads
            /\ [to |-> m, body |-> b, live |-> TRUE, asked |-> o, gated |-> FALSE] \in Reads
      BY Zenon DEF Reads
    <2>3. QED BY <2>1, <2>2 DEF Read
  <1>1. CASE PickMethod
    <2>1. /\ IsGrpc /\ Spend("pick")
          /\ UNCHANGED <<draft, origin, dirty, armed, tree, stored, calls, born, saving, saveOpen,
                         discardOpen, pending, wanted, rough, dropped, overtaken>>
      BY <1>1 DEF PickMethod
    <2>2. left' \in [Spendings -> Nat] BY <2>1, SpendFacts DEF Spendings
    <2>3. PICK m \in Methods :
            IF origin = None \/ draft.method = m
            THEN Read(m, FALSE) /\ UNCHANGED gate
            ELSE /\ gate' = [phase |-> "asking", r |-> origin, from |-> draft.method, to |-> m,
                             body |-> draft.body]
                 /\ UNCHANGED reads
      BY <1>1 DEF PickMethod
    <2>4. reads' \subseteq Reads BY <1>0, <2>1, <2>3 DEF TypeOK
    <2>5. gate' = Idle \/ gate' \in Gates
      <3>1. /\ draft.method \in Methods \cup {NoMethod} /\ draft.body \in Nat
            /\ origin \in Requests \cup {None} /\ (gate = Idle \/ gate \in Gates)
        BY <2>1 DEF TypeOK, IsGrpc, DraftSlots
      <3>2. CASE origin = None \/ draft.method = m
        BY <2>3, <3>1, <3>2
      <3>3. CASE ~(origin = None \/ draft.method = m)
        <4>1. gate' = [phase |-> "asking", r |-> origin, from |-> draft.method, to |-> m, body |-> draft.body]
          BY <2>3, <3>3
        <4>2. gate' \in [phase : {"asking"}, r : Requests, from : Methods \cup {NoMethod}, to : Methods,
                         body : Nat]
          BY <3>1, <3>3, <4>1
        <4>3. QED BY <4>2 DEF Gates
      <3>4. QED BY <3>2, <3>3
    <2>6. QED BY <2>1, <2>2, <2>4, <2>5 DEF TypeOK
  <1>2. CASE ResetBody
    <2>1. /\ IsGrpc /\ Spend("pick") /\ Read(None, FALSE)
          /\ UNCHANGED <<draft, origin, dirty, armed, tree, stored, calls, born, saving, saveOpen,
                         discardOpen, pending, gate, wanted, rough, dropped, overtaken>>
      BY <1>2 DEF ResetBody
    <2>2. left' \in [Spendings -> Nat] BY <2>1, SpendFacts DEF Spendings
    <2>3. QED BY <1>0, <2>1, <2>2 DEF TypeOK
  <1>3. CASE CancelAsking
    BY <1>3 DEF CancelAsking, TypeOK
  <1>4. CASE CommitChange
    <2>1. /\ gate.phase = "asking" /\ gate' = [phase |-> "committing", r |-> gate.r] /\ Read(gate.to, TRUE)
          /\ UNCHANGED <<draft, origin, dirty, armed, tree, stored, calls, born, saving, saveOpen,
                         discardOpen, pending, wanted, rough, dropped, overtaken, left>>
      BY <1>4 DEF CommitChange
    <2>2. gate \in Gates BY <2>1 DEF TypeOK, Idle
    <2>3. gate.to \in Methods /\ gate.r \in Requests BY <2>1, <2>2 DEF Gates
    <2>4. gate' \in Gates BY <2>1, <2>3 DEF Gates
    <2>5. reads' \subseteq Reads BY <1>0, <2>1, <2>3
    <2>6. QED BY <2>1, <2>4, <2>5 DEF TypeOK
  <1>5. CASE ReadAnswers
    <2>1. UNCHANGED <<tree, stored, calls, born, saving, saveOpen, discardOpen, pending, left>>
      BY <1>5 DEF ReadAnswers
    <2>2. PICK j \in reads :
            /\ IF Finds(j) /\ IsGrpc
               THEN Patch(IF j.to = None THEN draft.method ELSE j.to, IF Reset(j) THEN Pristine ELSE draft.body)
               ELSE UNCHANGED <<focus, history>>
            /\ reads' = reads \ {j}
            /\ gate' = IF j.gated THEN Idle ELSE GateAt(gate, draft'.method, origin)
      BY <1>5 DEF ReadAnswers
    <2>3. reads' \subseteq Reads /\ (gate' = Idle \/ gate' \in Gates)
      BY <2>2 DEF TypeOK, GateAt
    <2>4. CASE Finds(j) /\ IsGrpc
      <3>1. j.to \in Methods \cup {None} BY DEF TypeOK, Reads
      <3>2. draft.method \in Methods \cup {NoMethod} /\ draft.body \in Nat /\ HasDraft
        BY <2>4, NoneAssumption DEF IsGrpc, TypeOK, DraftSlots, HasDraft
      <3> DEFINE m == IF j.to = None THEN draft.method ELSE j.to
                 b == IF Reset(j) THEN Pristine ELSE draft.body
      <3>3. m \in Methods \cup {Http, NoMethod} /\ b \in Nat /\ Patch(m, b)
        BY <2>2, <2>4, <3>1, <3>2 DEF Pristine
      <3> HIDE DEF m, b
      <3>4. QED BY <2>1, <2>3, <3>2, <3>3, PatchFacts DEF TypeOK
    <2>5. CASE ~(Finds(j) /\ IsGrpc)
      BY <2>1, <2>2, <2>3, <2>5 DEF TypeOK
    <2>6. QED BY <2>4, <2>5
  <1>6. CASE CommitCreate
    <2> DEFINE r == born + 1
               content == [method |-> gate.to, body |-> gate.body]
    <2>1. /\ gate.phase = "asking"
          /\ UNCHANGED <<draft, origin, dirty, armed, stored, saving, saveOpen, discardOpen, pending, reads,
                         dropped, overtaken, left>>
          /\ \/ gate' = Idle /\ UNCHANGED <<tree, calls, born, wanted, rough>>
             \/ /\ r \in Requests /\ born' = r
                /\ gate' = [phase |-> "committing", r |-> gate.r]
                /\ Call("sibling", r, content, [tree EXCEPT ![r] = content])
                /\ wanted' = [wanted EXCEPT ![r] = content]
      BY <1>6 DEF CommitCreate
    <2>2. gate \in Gates BY <2>1 DEF TypeOK, Idle
    <2>3. gate.to \in Methods /\ gate.r \in Requests /\ gate.body \in Nat BY <2>1, <2>2 DEF Gates
    <2>4. content \in Contents BY <2>3 DEF Contents
    <2>5. CASE gate' = Idle /\ UNCHANGED <<tree, calls, born, wanted, rough>>
      BY <2>1, <2>5 DEF TypeOK
    <2>6. CASE /\ r \in Requests /\ born' = r
               /\ gate' = [phase |-> "committing", r |-> gate.r]
               /\ Call("sibling", r, content, [tree EXCEPT ![r] = content])
               /\ wanted' = [wanted EXCEPT ![r] = content]
      <3> HIDE DEF content
      <3>1. [tree EXCEPT ![r] = content] \in Trees /\ [wanted EXCEPT ![r] = content] \in Trees
        BY <2>4 DEF TypeOK, Trees
      <3>2. gate' \in Gates BY <2>3, <2>6 DEF Gates
      <3>3. born' \in Len(Stored) .. MaxRequests
        BY <2>6, RequestsAssumption DEF TypeOK, Requests
      <3>4. QED BY <2>1, <2>4, <2>6, <3>1, <3>2, <3>3, CallFacts DEF TypeOK
    <2>7. QED BY <2>1, <2>5, <2>6
  <1>7. CASE SiblingAnswers
    <2>1. PICK c \in calls :
            /\ c.do = "sibling"
            /\ \/ /\ Done(c)
                  /\ UNCHANGED <<tree, rough, left>>
                  /\ IF Stays THEN UNCHANGED dialogs /\ SetDraft(c.content, c.r, Idle)
                     ELSE gate' = Idle /\ UNCHANGED <<focus, reads, dropped, overtaken, dialogs>>
               \/ /\ Fails(c) /\ gate' = Idle
                  /\ UNCHANGED <<focus, reads, dropped, overtaken, dialogs>>
      BY <1>7 DEF SiblingAnswers
    <2>2. UNCHANGED <<born, wanted>> BY <1>7 DEF SiblingAnswers
    <2>3. CASE Fails(c) /\ gate' = Idle /\ UNCHANGED <<focus, reads, dropped, overtaken, dialogs>>
      BY <2>2, <2>3, FailsFacts DEF TypeOK
    <2>4. CASE /\ Done(c)
               /\ UNCHANGED <<tree, rough, left>>
               /\ IF Stays THEN UNCHANGED dialogs /\ SetDraft(c.content, c.r, Idle)
                  ELSE gate' = Idle /\ UNCHANGED <<focus, reads, dropped, overtaken, dialogs>>
      <3>1. stored' \in Trees /\ calls' \subseteq Calls /\ c.content \in Contents /\ c.r \in Requests
        BY <2>1, <2>4, DoneFacts
      <3>2. CASE Stays
        BY <2>2, <2>4, <3>1, <3>2, SetDraftFacts, SetDraftOvertakes DEF TypeOK
      <3>3. CASE ~Stays
        BY <2>2, <2>4, <3>1, <3>3 DEF TypeOK
      <3>4. QED BY <3>2, <3>3
    <2>5. QED BY <2>1, <2>3, <2>4
  <1>8. QED BY <1>1, <1>2, <1>3, <1>4, <1>5, <1>6, <1>7

LEMMA TypeStep ==
  ASSUME TypeOK, TimerIsBound, NoDraftYet, SubmitsApart, GateIsHeld, [Next]_vars
  PROVE  TypeOK'
  <1>1. CASE Next
    BY <1>1, OpenTypes, EditTypes, SaveTypes, AddTypes, MethodTypes DEF Next
  <1>2. CASE UNCHANGED vars
    BY <1>2 DEF vars, focus, catalog, dialogs, change, history, TypeOK
  <1>3. QED BY <1>1, <1>2

-----------------------------------------------------------------------------
(* The requests: what a step does to the picture, the store and the        *)
(* commands, and what to the draft.                                        *)

\* A command begins: of a request there is, or of one that is born.
Begins(do, r, c) ==
  /\ r \in Requests
  /\ stored' = stored
  /\ UNCHANGED <<draft, origin, dropped, pending>>
  /\ \/ /\ do = "autosave" /\ r = origin /\ c = Content(draft) /\ c \in Contents
        /\ tree[r] # None /\ born' = born /\ wanted' = wanted /\ armed' = FALSE
        /\ Call(do, r, c, [tree EXCEPT ![r] = c])
     \/ /\ do = "duplicate" /\ r = origin /\ c = None
        /\ born' = born /\ wanted' = wanted /\ armed' = armed
        /\ Call(do, r, c, tree)
     \/ /\ do \in {"save", "quick", "sibling"} /\ c \in Contents
        /\ r = born + 1 /\ born' = r /\ wanted' = [wanted EXCEPT ![r] = c] /\ armed' = armed
        /\ Call(do, r, c, [tree EXCEPT ![r] = c])

\* The draft is replaced, by something there is.
Replaces ==
  \E c \in Contents, o \in Requests \cup {None}, g \in Gates \cup {Idle} :
    /\ SetDraft(c, o, g)
    /\ o # None => o <= born'

\* The draft and its timer are left alone, the timer is armed, the draft is patched or
\* replaced.
DraftStep ==
  \/ UNCHANGED <<draft, origin, armed, wanted, dropped>>
  \/ UNCHANGED <<draft, origin, wanted, dropped>> /\ armed' = TRUE /\ origin # None
  \/ UNCHANGED <<draft, origin, wanted, dropped>> /\ armed' = FALSE /\ origin \in Requests /\ tree[origin] = None
  \/ HasDraft /\ \E m \in Methods \cup {Http, NoMethod}, b \in Nat : Patch(m, b)
  \/ Replaces /\ wanted' = wanted

CatalogStep ==
  \/ UNCHANGED <<tree, stored, calls, born, rough>> /\ DraftStep
  \/ \E do, r, c : Begins(do, r, c)
  \/ \E c \in calls : /\ c.do # "duplicate" /\ Done(c) /\ UNCHANGED <<tree, born, rough>>
                      /\ DraftStep \/ (Binds(c) /\ UNCHANGED <<draft, wanted>>)
  \/ \E c \in calls : Fails(c) /\ UNCHANGED <<draft, origin, armed, born, wanted, dropped>>
  \/ DeleteSaved
  \/ /\ tree' = stored /\ rough' = rough \cup {c.r : c \in calls}
     /\ UNCHANGED <<stored, calls, born>> /\ DraftStep
  \/ \E c \in calls : Copies(c)
  \/ \E c \in calls : CopiesNot(c)

\* The type invariant and what is known of the dialogs, together.
Typed == TypeOK /\ TimerIsBound /\ NoDraftYet /\ SubmitsApart /\ GateIsHeld

LEMMA ReplacesWith ==
  ASSUME NEW c \in Contents, NEW o \in Requests \cup {None}, NEW g \in Gates \cup {Idle},
         SetDraft(c, o, g), o # None => o <= born'
  PROVE  Replaces
  BY DEF Replaces

\* What is deferred or on offer is of a request that is born.
LEMMA DeferredIsBorn ==
  ASSUME TypeOK, Unborn, born' = born, NEW a \in Deferred, a \in Actions \cup {pending}, a # None
  PROVE  OriginOf(a) \in Requests \cup {None} /\ (OriginOf(a) # None => OriginOf(a) <= born)
  <1>1. a.r \in Requests \cup {None} /\ born \in Nat /\ Requests \subseteq Nat
    BY RequestsAssumption, LaunchAssumption DEF Deferred, TypeOK, Requests
  <1>2. a.r # None => a.r <= born
    <2>1. CASE a = pending
      <3>1. \A r \in Requests : r > born => a.r # r
        BY <2>1 DEF Unborn
      <3>2. a.r # None => a.r \in Requests /\ ~(a.r > born) BY <1>1, <3>1, Zenon
      <3>3. \A r \in Requests : ~(r > born) => r <= born BY <1>1
      <3>4. QED BY <3>2, <3>3, Zenon
    <2>2. CASE a \in Actions
      <3>1. \A r \in Requests : tree[r] # None => ~(r > born) BY DEF Unborn
      <3>2. \A r \in DOMAIN Stored : r <= born
        BY LaunchAssumption, RequestsAssumption DEF TypeOK
      <3>3. \/ a.r = None
            \/ \E r \in {q \in Requests : tree[q] # None} : a.r = r
            \/ \E r \in DOMAIN Stored : a.r = r
        BY <2>2 DEF Actions
      <3>4. QED BY <1>1, <3>1, <3>2, <3>3
    <2>3. QED BY <2>1, <2>2
  <1>3. QED BY <1>1, <1>2 DEF OriginOf

LEMMA OpenCatalog ==
  ASSUME Typed, Unborn, Open \/ Discard \/ CancelDiscard \/ SaveFirst
  PROVE  UNCHANGED <<tree, stored, calls, born, rough>> /\ DraftStep
  <1> USE DEF focus, catalog, dialogs, change, history
  <1>0. TypeOK /\ TimerIsBound /\ (gate \in Gates \cup {Idle}) BY DEF Typed, TypeOK
  <1>1. CASE Open
    <2>1. PICK a \in Actions : Guarded(a) BY <1>1 DEF Open
    <2>2. UNCHANGED <<tree, stored, calls, born>> BY <1>1 DEF Open
    <2>3. a \in Deferred /\ a # None BY <1>0, ActionsFacts, NoneAssumption
    <2>4. CASE NeedsDiscardConfirm
      BY <1>0, <2>1, <2>2, <2>3, <2>4, GuardedFacts DEF DraftStep
    <2>5. CASE ~NeedsDiscardConfirm
      <3>1. /\ UNCHANGED <<wanted, rough>>
            /\ SetDraft(a.content, OriginOf(a), gate)
            /\ a.content \in Contents
        BY <1>0, <2>1, <2>3, <2>5, GuardedFacts
      <3>2. OriginOf(a) \in Requests \cup {None} /\ (OriginOf(a) # None => OriginOf(a) <= born)
        BY <1>0, <2>2, <2>3, DeferredIsBorn
      <3>3. Replaces BY <1>0, <2>2, <3>1, <3>2, ReplacesWith
      <3>4. QED BY <2>2, <3>1, <3>3 DEF DraftStep
    <2>6. QED BY <2>4, <2>5
  <1>2. CASE Discard
    <2>1. UNCHANGED <<tree, stored, calls, born>> BY <1>2 DEF Discard
    <2>2. CASE pending = None
      BY <1>2, <2>1, <2>2 DEF Discard, DraftStep
    <2>3. CASE pending # None
      <3>1. pending \in Deferred BY <1>0, <2>3 DEF TypeOK
      <3>2. /\ UNCHANGED <<wanted, rough>>
            /\ SetDraft(pending.content, OriginOf(pending), gate)
            /\ pending.content \in Contents
        BY <1>2, <2>3, <3>1 DEF Discard, Run, Deferred
      <3>3. OriginOf(pending) \in Requests \cup {None} /\ (OriginOf(pending) # None => OriginOf(pending) <= born)
        BY <1>0, <2>1, <2>3, <3>1, DeferredIsBorn
      <3>4. Replaces BY <1>0, <2>1, <3>2, <3>3, ReplacesWith
      <3>5. QED BY <2>1, <3>2, <3>4 DEF DraftStep
    <2>4. QED BY <2>2, <2>3
  <1>3. CASE CancelDiscard \/ SaveFirst
    BY <1>3 DEF CancelDiscard, SaveFirst, DraftStep
  <1>4. QED BY <1>1, <1>2, <1>3

LEMMA EditCatalog ==
  ASSUME Typed, Unborn, Edit \/ ShowsAnswer \/ Autosave \/ Autosaved \/ DeleteSaved
  PROVE  CatalogStep
  <1> USE DEF focus, catalog, dialogs, change, history
  <1>0. TypeOK /\ TimerIsBound /\ NoDraftYet BY DEF Typed
  <1>1. CASE Edit
    <2>1. /\ HasDraft /\ Patch(draft.method, left.edit)
          /\ UNCHANGED <<tree, stored, calls, born>>
      BY <1>1 DEF Edit
    <2>2. draft.method \in Methods \cup {Http, NoMethod} /\ left.edit \in Nat
      BY <1>0, <2>1 DEF TypeOK, DraftSlots, HasDraft, Spendings
    <2>3. rough' = rough BY <2>1 DEF Patch
    <2>4. QED BY <2>1, <2>2, <2>3 DEF CatalogStep, DraftStep
  <1>2. CASE ShowsAnswer
    BY <1>2 DEF ShowsAnswer, CatalogStep, DraftStep
  <1>3. CASE Autosave
    <2>1. /\ armed /\ armed' = FALSE
          /\ UNCHANGED <<draft, origin, dirty, stored, born, pending, wanted, dropped>>
      BY <1>3 DEF Autosave
    <2>2. origin \in Requests BY <1>0, <2>1 DEF TypeOK, TimerIsBound
    <2>3. CASE tree[origin] = None
      BY <1>3, <2>1, <2>2, <2>3 DEF Autosave, CatalogStep, DraftStep
    <2>4. CASE tree[origin] # None
      <3>1. Content(draft) \in Contents
        BY <1>0, <2>1 DEF NoDraftYet, TypeOK, DraftSlots, HasDraft, Content, Contents
      <3>2. Call("autosave", origin, Content(draft), [tree EXCEPT ![origin] = Content(draft)])
        BY <1>3, <2>4 DEF Autosave
      <3>3. Begins("autosave", origin, Content(draft)) BY <2>1, <2>2, <2>4, <3>1, <3>2 DEF Begins
      <3>4. QED BY <3>3 DEF CatalogStep
    <2>5. QED BY <2>3, <2>4
  <1>4. CASE Autosaved
    <2>1. UNCHANGED <<draft, origin, armed, born, wanted, dropped>>
      BY <1>4 DEF Autosaved
    <2>2. PICK c \in calls :
            c.do = "autosave" /\ ((Done(c) /\ UNCHANGED <<tree, rough, left>>) \/ Fails(c))
      BY <1>4 DEF Autosaved
    <2>3. CASE Done(c) /\ UNCHANGED <<tree, rough, left>>
      BY <2>1, <2>2, <2>3 DEF CatalogStep, DraftStep
    <2>4. CASE Fails(c)
      BY <2>1, <2>4 DEF CatalogStep
    <2>5. QED BY <2>2, <2>3, <2>4
  <1>5. CASE DeleteSaved
    BY <1>5 DEF CatalogStep
  <1>6. QED BY <1>1, <1>2, <1>3, <1>4, <1>5

LEMMA SaveCatalog ==
  ASSUME Typed, Unborn, OpenSave \/ CloseSave \/ Submit \/ Prepared \/ SaveAnswers \/ Reloaded
  PROVE  CatalogStep
  <1> USE DEF focus, catalog, dialogs, change, history
  <1>0. TypeOK /\ TimerIsBound /\ NoDraftYet /\ gate \in Gates \cup {Idle} BY DEF Typed, TypeOK
  <1>1. CASE OpenSave \/ CloseSave
    BY <1>1 DEF OpenSave, CloseSave, CatalogStep, DraftStep
  <1>2. CASE Submit \/ Prepared
    <2>1. UNCHANGED <<draft, origin, armed, stored, pending, dropped>>
      BY <1>2 DEF Submit, Prepared
    <2>2. HasDraft
      BY <1>0, <1>2 DEF Submit, Prepared, NoDraftYet
    <2>3. CASE HandleSave
      <3>1. Begins("save", born + 1, Content(draft))
        BY <1>0, <2>1, <2>2, <2>3, HandleSaveFacts DEF Begins
      <3>2. QED BY <3>1 DEF CatalogStep
    <2>4. CASE ~HandleSave
      BY <1>2, <2>1, <2>4 DEF Submit, Prepared, CatalogStep, DraftStep
    <2>5. QED BY <2>3, <2>4
  <1>3. CASE SaveAnswers
    <2>1. UNCHANGED <<draft, born, wanted>>
      BY <1>3 DEF SaveAnswers
    <2>2. PICK c \in calls :
           c.do = "save" /\ (Binds(c) \/ (Fails(c) /\ saving' = None
                                            /\ UNCHANGED <<origin, dirty, armed, gate, dropped>>))
      BY <1>3 DEF SaveAnswers, Binds
    <2>3. CASE Binds(c)
      BY <2>1, <2>2, <2>3 DEF CatalogStep, Binds
    <2>4. CASE Fails(c) /\ saving' = None /\ UNCHANGED <<origin, dirty, armed, gate, dropped>>
      BY <2>1, <2>4 DEF CatalogStep
    <2>5. QED BY <2>2, <2>3, <2>4
  <1>4. CASE Reloaded
    <2>1. UNCHANGED <<stored, calls, born, wanted>>
      BY <1>4 DEF Reloaded
    <2>2. \/ tree' = stored /\ rough' = rough \cup {c.r : c \in calls}
          \/ UNCHANGED <<tree, rough>>
      BY <1>4 DEF Reloaded
    <2>3. DraftStep
      <3>1. CASE pending = None
        BY <1>4, <2>1, <3>1 DEF Reloaded, DraftStep
      <3>2. CASE pending # None
        <4>1. pending \in Deferred BY <1>0, <3>2 DEF TypeOK
        <4>2. /\ SetDraft(pending.content, OriginOf(pending), gate)
              /\ pending.content \in Contents
          BY <1>4, <3>2, <4>1 DEF Reloaded, Deferred
        <4>3. OriginOf(pending) \in Requests \cup {None} /\ (OriginOf(pending) # None => OriginOf(pending) <= born)
          BY <1>0, <2>1, <3>2, <4>1, DeferredIsBorn
        <4>4. Replaces BY <1>0, <2>1, <4>2, <4>3, ReplacesWith
        <4>5. QED BY <2>1, <4>4 DEF DraftStep
      <3>3. QED BY <3>1, <3>2
    <2>4. QED BY <2>1, <2>2, <2>3 DEF CatalogStep
  <1>5. QED BY <1>1, <1>2, <1>3, <1>4

LEMMA AddCatalog ==
  ASSUME Typed, Unborn, QuickAdd \/ QuickAnswers \/ Duplicate \/ Duplicated
  PROVE  CatalogStep
  <1> USE DEF focus, catalog, dialogs, change, history
  <1>0. TypeOK /\ TimerIsBound /\ NoDraftYet /\ gate \in Gates \cup {Idle} BY DEF Typed, TypeOK
  <1>1. CASE QuickAdd
    <2> DEFINE r == born + 1
    <2>1. PICK m \in Methods :
           LET content == [method |-> m, body |-> Pristine]
           IN  /\ Call("quick", r, content, [tree EXCEPT ![r] = content])
               /\ wanted' = [wanted EXCEPT ![r] = content]
      BY <1>1 DEF QuickAdd
    <2> DEFINE content == [method |-> m, body |-> Pristine]
    <2>2. content \in Contents BY DEF Contents, Pristine
    <2>3. /\ r \in Requests /\ born' = r
          /\ UNCHANGED <<draft, origin, armed, stored, pending, dropped>>
      BY <1>1 DEF QuickAdd
    <2>4. Begins("quick", r, content) BY <2>1, <2>2, <2>3 DEF Begins
    <2>5. QED BY <2>4 DEF CatalogStep
  <1>2. CASE QuickAnswers
    <2>1. born' = born BY <1>2 DEF QuickAnswers
    <2>2. PICK c \in calls :
            /\ c.do = "quick"
            /\ \/ /\ Done(c) /\ UNCHANGED <<tree, left>>
                  /\ Guarded([do |-> "open", r |-> c.r, content |-> c.content])
               \/ Fails(c) /\ UNCHANGED <<focus, dialogs, change, wanted, dropped, overtaken>>
      BY <1>2 DEF QuickAnswers
    <2>3. c \in Calls /\ c.r \in Requests /\ c.content \in Contents
      BY <1>0, <2>2 DEF TypeOK, Calls
    <2>4. CASE Fails(c) /\ UNCHANGED <<focus, dialogs, change, wanted, dropped, overtaken>>
      BY <2>1, <2>4 DEF CatalogStep
    <2> DEFINE a == [do |-> "open", r |-> c.r, content |-> c.content]
    <2>5. CASE Done(c) /\ UNCHANGED <<tree, left>> /\ Guarded(a)
      <3>1. a \in Deferred /\ OriginOf(a) = c.r /\ a.content = c.content
        BY <2>3 DEF Deferred, OriginOf
      <3>2. c.r <= born
        <4>1. ~(c.r > born) BY <2>3 DEF Unborn
        <4>2. c.r \in Nat /\ born \in Nat
          BY <1>0, <2>3, RequestsAssumption, LaunchAssumption DEF TypeOK, Requests
        <4>3. QED BY <4>1, <4>2
      <3>3. rough' = rough /\ wanted' = wanted /\ DraftStep
        <4> HIDE DEF a
        <4>1. CASE NeedsDiscardConfirm
          BY <1>0, <2>5, <3>1, <4>1, GuardedFacts DEF DraftStep
        <4>2. CASE ~NeedsDiscardConfirm
          <5>1. SetDraft(c.content, c.r, gate) /\ UNCHANGED <<wanted, rough>>
            BY <1>0, <2>5, <3>1, <4>2, GuardedFacts
          <5>2. Replaces BY <1>0, <2>1, <2>3, <3>2, <5>1, ReplacesWith
          <5>3. QED BY <5>1, <5>2 DEF DraftStep
        <4>3. QED BY <4>1, <4>2
      <3>4. QED BY <2>1, <2>2, <2>5, <3>3 DEF CatalogStep
    <2>6. QED BY <2>2, <2>4, <2>5
  <1>3. CASE Duplicate
    <2>1. /\ origin # None /\ Call("duplicate", origin, None, tree)
          /\ UNCHANGED <<draft, origin, armed, stored, born, pending, wanted, dropped>>
      BY <1>3 DEF Duplicate
    <2>2. origin \in Requests BY <1>0, <2>1 DEF TypeOK
    <2>3. Begins("duplicate", origin, None) BY <2>1, <2>2 DEF Begins
    <2>4. QED BY <2>3 DEF CatalogStep
  <1>4. CASE Duplicated
    <2>1. PICK c \in calls : Copies(c) \/ CopiesNot(c)
      BY <1>4 DEF Duplicated, Copies, CopiesNot
    <2>2. QED BY <2>1 DEF CatalogStep
  <1>5. QED BY <1>1, <1>2, <1>3, <1>4

LEMMA MethodCatalog ==
  ASSUME Typed, Unborn,
         \/ PickMethod \/ ResetBody \/ CancelAsking \/ CommitChange \/ ReadAnswers
         \/ CommitCreate \/ SiblingAnswers
  PROVE  CatalogStep
  <1> USE DEF focus, catalog, dialogs, change, history
  <1>0. TypeOK /\ TimerIsBound /\ NoDraftYet /\ gate \in Gates \cup {Idle} BY DEF Typed, TypeOK
  <1>1. CASE PickMethod \/ ResetBody \/ CancelAsking \/ CommitChange
    BY <1>1 DEF PickMethod, ResetBody, CancelAsking, CommitChange, CatalogStep, DraftStep
  <1>2. CASE ReadAnswers
    <2>1. UNCHANGED <<tree, stored, calls, born>>
      BY <1>2 DEF ReadAnswers
    <2>2. PICK j \in reads :
            IF Finds(j) /\ IsGrpc
            THEN Patch(IF j.to = None THEN draft.method ELSE j.to, IF Reset(j) THEN Pristine ELSE draft.body)
            ELSE UNCHANGED <<focus, history>>
      BY <1>2 DEF ReadAnswers
    <2>3. CASE Finds(j) /\ IsGrpc
      <3>1. j.to \in Methods \cup {None} BY <1>0 DEF TypeOK, Reads
      <3>2. draft.method \in Methods \cup {NoMethod} /\ draft.body \in Nat /\ HasDraft
        BY <1>0, <2>3, NoneAssumption DEF IsGrpc, TypeOK, DraftSlots, HasDraft
      <3> DEFINE m == IF j.to = None THEN draft.method ELSE j.to
                 b == IF Reset(j) THEN Pristine ELSE draft.body
      <3>3. m \in Methods \cup {Http, NoMethod} /\ b \in Nat /\ Patch(m, b)
        BY <2>2, <2>3, <3>1, <3>2 DEF Pristine
      <3> HIDE DEF m, b
      <3>4. rough' = rough BY <3>3 DEF Patch
      <3>5. QED BY <2>1, <3>2, <3>3, <3>4 DEF CatalogStep, DraftStep
    <2>4. CASE ~(Finds(j) /\ IsGrpc)
      BY <2>1, <2>2, <2>4 DEF CatalogStep, DraftStep
    <2>5. QED BY <2>3, <2>4
  <1>3. CASE CommitCreate
    <2> DEFINE r == born + 1
               content == [method |-> gate.to, body |-> gate.body]
    <2>1. /\ gate.phase = "asking"
          /\ UNCHANGED <<draft, origin, armed, stored, pending, dropped>>
          /\ \/ gate' = Idle /\ UNCHANGED <<tree, calls, born, wanted, rough>>
             \/ /\ r \in Requests /\ born' = r
                /\ Call("sibling", r, content, [tree EXCEPT ![r] = content])
                /\ wanted' = [wanted EXCEPT ![r] = content]
      BY <1>3 DEF CommitCreate
    <2>2. content \in Contents BY <1>0, <2>1 DEF Idle, Gates, Contents
    <2> HIDE DEF content
    <2>3. CASE gate' = Idle /\ UNCHANGED <<tree, calls, born, wanted, rough>>
      BY <2>1, <2>3 DEF CatalogStep, DraftStep
    <2>4. CASE /\ r \in Requests /\ born' = r
               /\ Call("sibling", r, content, [tree EXCEPT ![r] = content])
               /\ wanted' = [wanted EXCEPT ![r] = content]
      <3>1. Begins("sibling", r, content) BY <2>1, <2>2, <2>4 DEF Begins
      <3>2. QED BY <3>1 DEF CatalogStep
    <2>5. QED BY <2>1, <2>3, <2>4
  <1>4. CASE SiblingAnswers
    <2>1. PICK c \in calls :
            /\ c.do = "sibling"
            /\ \/ /\ Done(c)
                  /\ UNCHANGED <<tree, rough, left>>
                  /\ IF Stays THEN UNCHANGED dialogs /\ SetDraft(c.content, c.r, Idle)
                     ELSE gate' = Idle /\ UNCHANGED <<focus, reads, dropped, overtaken, dialogs>>
               \/ /\ Fails(c) /\ gate' = Idle
                  /\ UNCHANGED <<focus, reads, dropped, overtaken, dialogs>>
      BY <1>4 DEF SiblingAnswers
    <2>2. UNCHANGED <<born, wanted>> BY <1>4 DEF SiblingAnswers
    <2>3. c.r \in Requests /\ c.content \in Contents BY <1>0, <2>1 DEF TypeOK, Calls
    <2>4. CASE Fails(c) /\ gate' = Idle /\ UNCHANGED <<focus, reads, dropped, overtaken, dialogs>>
      BY <2>2, <2>4 DEF CatalogStep
    <2>5. CASE Done(c) /\ UNCHANGED <<tree, rough, left>> /\ ~Stays /\ UNCHANGED <<focus, dropped>>
      BY <2>1, <2>2, <2>5 DEF CatalogStep, DraftStep
    <2>6. CASE Done(c) /\ UNCHANGED <<tree, rough, left>> /\ SetDraft(c.content, c.r, Idle)
      <3>1. c.r <= born
        <4>1. ~(c.r > born) BY <2>3 DEF Unborn
        <4>2. c.r \in Nat /\ born \in Nat
          BY <1>0, <2>3, RequestsAssumption, LaunchAssumption DEF TypeOK, Requests
        <4>3. QED BY <4>1, <4>2
      <3>2. Replaces BY <2>2, <2>3, <2>6, <3>1, ReplacesWith
      <3>3. QED BY <2>1, <2>2, <2>6, <3>2 DEF CatalogStep, DraftStep
    <2>7. QED BY <2>1, <2>4, <2>5, <2>6
  <1>5. QED BY <1>1, <1>2, <1>3, <1>4

LEMMA StepCases ==
  ASSUME Typed, Unborn, [Next]_vars
  PROVE  CatalogStep
  <1>1. CASE Next
    BY <1>1, OpenCatalog, EditCatalog, SaveCatalog, AddCatalog, MethodCatalog DEF Next, CatalogStep
  <1>2. CASE UNCHANGED vars
    BY <1>2 DEF vars, focus, catalog, dialogs, change, history, CatalogStep, DraftStep
  <1>3. QED BY <1>1, <1>2

UnbornGoal ==
  /\ born' >= born
  /\ \A r \in Requests : r > born' =>
       /\ tree'[r] = None /\ stored'[r] = None /\ origin' # r
       /\ \A c \in calls' : c.r # r /\ c.undo[r] = None

\* A request is not born before a command makes it so, or a copy.
LEMMA UnbornGoalStep ==
  ASSUME Typed, TypeOK', Unborn, [Next]_vars
  PROVE  UnbornGoal
  <1> USE DEF UnbornGoal
  <1>0. TypeOK BY DEF Typed
  <1>a. born \in Nat /\ Requests \subseteq Nat /\ born' \in Nat
    BY <1>0, RequestsAssumption, LaunchAssumption DEF TypeOK, Requests
  <1>b. \A r \in Requests : r > born =>
          /\ tree[r] = None /\ stored[r] = None /\ origin # r
          /\ \A c \in calls : c.r # r /\ c.undo[r] = None
    BY DEF Unborn
  <1>c. \A c \in calls : c \in Calls /\ c.r \in Requests /\ c.undo \in Trees
    BY <1>0 DEF TypeOK, Calls
  <1>d. tree \in Trees /\ stored \in Trees BY <1>0 DEF TypeOK
  <1>1. ASSUME DraftStep, born' = born
        PROVE  \A r \in Requests : r > born => origin' # r
    <2>1. CASE origin' = origin BY <1>b, <2>1
    <2>2. CASE Replaces
      <3>1. PICK c \in Contents, o \in Requests \cup {None}, g \in Gates \cup {Idle} :
              SetDraft(c, o, g) /\ (o # None => o <= born')
        BY <2>2 DEF Replaces
      <3>2. origin' = o BY <3>1 DEF SetDraft
      <3>3. \A r \in Requests : r > born => ~(r <= born) BY <1>a
      <3>4. QED BY <1>1, <3>1, <3>2, <3>3, NoneAssumption
    <2>3. QED BY <1>1, <2>1, <2>2 DEF DraftStep, Patch
  <1>2. CASE UNCHANGED <<tree, stored, calls, born, rough>> /\ DraftStep
    BY <1>a, <1>b, <1>1, <1>2
  <1>3. CASE \E do, r, c : Begins(do, r, c)
    <2>1. PICK do, r, c : Begins(do, r, c) BY <1>3
    <2>2. /\ stored' = stored /\ origin' = origin /\ r \in Requests
          /\ calls' = calls \cup {[do |-> do, r |-> r, content |-> c, undo |-> tree]}
          /\ \A q \in Requests \ {r} : tree'[q] = tree[q]
      BY <1>d, <2>1 DEF Begins, Call, Trees
    <2>3. (born' = born /\ ~(r > born)) \/ (r = born + 1 /\ born' = r)
      <3>1. CASE do \in {"autosave", "duplicate"}
        BY <1>b, <2>1, <3>1 DEF Begins
      <3>2. CASE do \notin {"autosave", "duplicate"}
        BY <2>1, <3>2 DEF Begins
      <3>3. QED BY <3>1, <3>2
    <2>4. born' >= born /\ \A q \in Requests : q > born' => q # r /\ q > born
      BY <1>a, <2>3, <2>2
    <2>5. ASSUME NEW q \in Requests, q > born', NEW k \in calls'
          PROVE  k.r # q /\ k.undo[q] = None
      <3>1. CASE k \in calls BY <1>b, <2>4, <2>5, <3>1
      <3>2. CASE k \notin calls
        <4>1. k = [do |-> do, r |-> r, content |-> c, undo |-> tree] BY <2>2, <2>5, <3>2
        <4>2. QED BY <1>b, <2>4, <2>5, <4>1
      <3>3. QED BY <3>1, <3>2
    <2>6. QED BY <1>b, <2>2, <2>4, <2>5
  <1>4. ASSUME NEW c \in calls, c.do # "duplicate", Done(c), UNCHANGED <<tree, born, rough>>,
               DraftStep \/ Binds(c)
        PROVE  UnbornGoal
    <2>1. calls' = calls \ {c} /\ stored' = [stored EXCEPT ![c.r] = c.content]
      BY <1>4 DEF Done
    <2>2. \A r \in Requests : r > born => r # c.r BY <1>b
    <2>3. \A r \in Requests : r > born => stored'[r] = None
      BY <1>b, <1>d, <2>1, <2>2 DEF Trees
    <2>4. \A r \in Requests : r > born => origin' # r
      BY <1>1, <1>4, <2>2 DEF Binds
    <2>5. tree' = tree /\ born' = born BY <1>4
    <2>6. \A r \in Requests : r > born => \A k \in calls' : k.r # r /\ k.undo[r] = None
      BY <1>b, <2>1
    <2>7. QED BY <1>a, <1>b, <2>3, <2>4, <2>5, <2>6
  <1>5. CASE \E c \in calls : Fails(c) /\ UNCHANGED <<draft, origin, armed, born, wanted, dropped>>
    <2>1. PICK c \in calls : Fails(c) /\ UNCHANGED <<origin, born>> BY <1>5
    <2>2. calls' = calls \ {c} /\ tree' = c.undo /\ stored' = stored BY <2>1 DEF Fails
    <2>3. \A r \in Requests : r > born => tree'[r] = None
      <3>1. c \in calls OBVIOUS
      <3>2. QED BY <1>b, <2>2, <3>1, Zenon
    <2>4. \A r \in Requests : r > born => \A k \in calls' : k.r # r /\ k.undo[r] = None
      BY <1>b, <2>2
    <2>5. \A r \in Requests : r > born => stored'[r] = None /\ origin' # r
      BY <1>b, <2>1, <2>2
    <2>6. born' = born /\ born >= born BY <1>a, <2>1
    <2>7. QED BY <2>3, <2>4, <2>5, <2>6
  <1>6. CASE DeleteSaved
    BY <1>a, <1>b, <1>d, <1>6 DEF DeleteSaved, focus, Trees
  <1>7. CASE /\ tree' = stored /\ rough' = rough \cup {c.r : c \in calls}
             /\ UNCHANGED <<stored, calls, born>> /\ DraftStep
    <2>1. tree' = stored /\ stored' = stored /\ calls' = calls /\ born' = born BY <1>7
    <2>2. \A r \in Requests : r > born' => tree'[r] = None /\ stored'[r] = None BY <1>b, <2>1
    <2>3. \A r \in Requests : r > born' => origin' # r BY <1>1, <1>7, <2>1
    <2>4. \A r \in Requests : r > born' => \A k \in calls' : k.r # r /\ k.undo[r] = None BY <1>b, <2>1
    <2>5. born' >= born BY <1>a, <2>1
    <2>6. QED BY ONLY <2>2, <2>3, <2>4, <2>5 DEF UnbornGoal
  <1>8. CASE \E c \in calls : Copies(c)
    <2>1. PICK c \in calls : Copies(c) BY <1>8
    <2>2. /\ calls' = calls \ {c} /\ born' = born + 1 /\ born' \in Requests
          /\ stored' = [stored EXCEPT ![born'] = stored[c.r]]
          /\ tree' = [tree EXCEPT ![c.r] = stored[c.r], ![born'] = stored[c.r]]
          /\ origin' = born'
      BY <2>1 DEF Copies, SetDraft
    <2>3. \A r \in Requests : r > born' => r > born /\ r # born' /\ r # c.r
      BY <1>a, <1>b, <1>c, <2>2
    <2>4. \A r \in Requests : r > born' => tree'[r] = None /\ stored'[r] = None
      BY <1>b, <1>d, <2>2, <2>3 DEF Trees
    <2>5. \A r \in Requests : r > born' => origin' # r
      BY <2>2, <2>3
    <2>6. \A r \in Requests : r > born' => \A k \in calls' : k.r # r /\ k.undo[r] = None
      BY <1>b, <2>2, <2>3
    <2>7. born' >= born
      BY <1>a, <2>2
    <2>8. QED BY ONLY <2>4, <2>5, <2>6, <2>7 DEF UnbornGoal
  <1>9. CASE \E c \in calls : CopiesNot(c)
    <2>1. PICK c \in calls : CopiesNot(c) BY <1>9
    <2>2. calls' = calls \ {c} /\ born' = born /\ origin' = origin /\ tree' = tree /\ stored' = stored
      BY <2>1 DEF CopiesNot, focus
    <2>3. \A r \in Requests : r > born' => tree'[r] = None /\ stored'[r] = None /\ origin' # r
      BY <1>b, <2>2
    <2>4. \A r \in Requests : r > born' => \A k \in calls' : k.r # r /\ k.undo[r] = None
      BY <1>b, <2>2
    <2>5. born' >= born
      BY <1>a, <2>2
    <2>6. QED BY ONLY <2>3, <2>4, <2>5 DEF UnbornGoal
  <1>10. CatalogStep BY StepCases
  <1>11. QED
    BY <1>2, <1>3, <1>4, <1>5, <1>6, <1>7, <1>8, <1>9, <1>10 DEF CatalogStep

\* What is deferred stays what it was, goes, or is on offer at this moment.
LEMMA PendingStep ==
  ASSUME Typed, Unborn, [Next]_vars
  PROVE  \/ pending' \in {pending, None}
         \/ pending' \in Actions
         \/ \E c \in calls : pending' = [do |-> "open", r |-> c.r, content |-> c.content]
  <1>0. TypeOK /\ TimerIsBound BY DEF Typed
  <1> USE DEF dialogs
  <1>1. CASE Open
    BY <1>1 DEF Open, Guarded
  <1>2. CASE QuickAnswers
    BY <1>2 DEF QuickAnswers, Guarded
  <1>3. CASE Discard \/ CancelDiscard \/ SaveFirst \/ Edit \/ ShowsAnswer \/ Autosave \/ Autosaved \/ DeleteSaved
    BY <1>3 DEF Discard, CancelDiscard, SaveFirst, Edit, ShowsAnswer, Autosave, Autosaved, DeleteSaved
  <1>4. CASE OpenSave \/ CloseSave \/ Submit \/ Prepared \/ SaveAnswers \/ Reloaded
    BY <1>4 DEF OpenSave, CloseSave, Submit, Prepared, SaveAnswers, Reloaded
  <1>5. CASE QuickAdd \/ Duplicate \/ Duplicated \/ PickMethod \/ ResetBody \/ CancelAsking
    BY <1>5 DEF QuickAdd, Duplicate, Duplicated, PickMethod, ResetBody, CancelAsking
  <1>6. CASE CommitChange \/ ReadAnswers \/ CommitCreate
    BY <1>6 DEF CommitChange, ReadAnswers, CommitCreate
  <1>7. CASE SiblingAnswers
    BY <1>7 DEF SiblingAnswers
  <1>8. CASE UNCHANGED vars
    BY <1>8 DEF vars
  <1>9. QED BY <1>1, <1>2, <1>3, <1>4, <1>5, <1>6, <1>7, <1>8 DEF Next

LEMMA UnbornStep ==
  ASSUME Typed, TypeOK', Unborn, [Next]_vars
  PROVE  Unborn'
  <1>0. TypeOK BY DEF Typed
  <1>1. UnbornGoal BY UnbornGoalStep
  <1>2. ASSUME NEW r \in Requests, r > born'
        PROVE  pending' = None \/ pending'.r # r
    <2>1. born \in Nat /\ born' \in Nat /\ Requests \subseteq Nat
      BY <1>0, RequestsAssumption, LaunchAssumption DEF TypeOK, Requests
    <2>2. r > born BY <1>1, <1>2, <2>1 DEF UnbornGoal
    <2>3. tree[r] = None /\ \A c \in calls : c.r # r BY <2>2 DEF Unborn
    <2>4. CASE pending' \in {pending, None} BY <2>2, <2>4 DEF Unborn
    <2>5. CASE pending' \in Actions
      <3>1. \A q \in DOMAIN Stored : q # r
        BY <1>0, <2>1, <2>2, LaunchAssumption, RequestsAssumption DEF TypeOK
      <3>2. r # None BY NoneAssumption
      <3>3. \/ pending'.r = None
            \/ \E q \in {x \in Requests : tree[x] # None} : pending'.r = q
            \/ \E q \in DOMAIN Stored : pending'.r = q
        BY <2>5 DEF Actions
      <3>4. QED BY <2>3, <3>1, <3>2, <3>3
    <2>6. CASE \E c \in calls : pending' = [do |-> "open", r |-> c.r, content |-> c.content]
      BY <2>3, <2>6
    <2>7. QED BY <2>4, <2>5, <2>6, PendingStep
  <1>3. QED BY <1>1, <1>2 DEF Unborn, UnbornGoal

-----------------------------------------------------------------------------
(* What core has, and what the user wanted. *)

\* For a request whose commands do not overlap a command that begins is the only one.
LEMMA OneCommandStep ==
  ASSUME Typed, TypeOK', Unborn, OneCommand, [Next]_vars
  PROVE  OneCommand'
  <1>0. TypeOK BY DEF Typed
  <1>a. calls \subseteq Calls /\ tree \in Trees /\ stored \in Trees BY <1>0 DEF TypeOK
  <1>b. \A c \in calls : c.r \in Requests /\ c.undo \in Trees BY <1>a DEF Calls
  <1> SUFFICES ASSUME NEW r \in Requests \ rough'
               PROVE  /\ \A c, d \in calls' : c.r = r /\ d.r = r => c = d
                      /\ \A c \in calls' : c.r = r /\ c.do # "duplicate" => c.content = tree'[r]
                      /\ stored'[r] = tree'[r] \/ \E c \in calls' : c.r = r /\ c.do # "duplicate"
    BY DEF OneCommand
  <1>c. r \notin rough =>
          /\ \A c, d \in calls : c.r = r /\ d.r = r => c = d
          /\ \A c \in calls : c.r = r /\ c.do # "duplicate" => c.content = tree[r]
          /\ stored[r] = tree[r] \/ \E c \in calls : c.r = r /\ c.do # "duplicate"
    BY DEF OneCommand
  <1>1. CASE UNCHANGED <<tree, stored, calls, born, rough>> /\ DraftStep
    BY <1>c, <1>1
  <1>2. CASE \E do, q, x : Begins(do, q, x)
    <2>1. PICK do, q, x : Begins(do, q, x) BY <1>2
    <2> DEFINE n == [do |-> do, r |-> q, content |-> x, undo |-> tree]
    <2>2. /\ stored' = stored /\ q \in Requests /\ calls' = calls \cup {n}
          /\ rough' = rough \cup {c.r : c \in {k \in calls : k.r = q}}
          /\ \A p \in Requests \ {q} : tree'[p] = tree[p]
          /\ do # "duplicate" => tree'[q] = x
          /\ do = "duplicate" => tree' = tree
      BY <1>a, <2>1 DEF Begins, Call, Trees
    <2>3. n.do = do /\ n.r = q /\ n.content = x OBVIOUS
    <2> HIDE DEF n
    <2>4. r \notin rough BY <2>2
    <2>5. CASE q = r
      <3>1. \A c \in calls : c.r # r BY <2>2, <2>5
      <3>2. \A c \in calls' : c.r = r => c = n BY <2>2, <3>1
      <3>3. CASE do = "duplicate" BY <1>c, <2>2, <2>3, <2>4, <3>1, <3>2, <3>3
      <3>4. CASE do # "duplicate" BY <2>2, <2>3, <2>5, <3>2, <3>4
      <3>5. QED BY <3>3, <3>4
    <2>6. CASE q # r
      <3>1. \A c \in calls' : c.r = r => c \in calls BY <2>2, <2>3, <2>6
      <3>2. tree'[r] = tree[r] BY <2>2, <2>6
      <3>3. QED BY <1>c, <2>2, <2>4, <3>1, <3>2
    <2>7. QED BY <2>5, <2>6
  <1>3. ASSUME NEW c \in calls, c.do # "duplicate", Done(c), UNCHANGED <<tree, born, rough>>
        PROVE  /\ \A k, d \in calls' : k.r = r /\ d.r = r => k = d
               /\ \A k \in calls' : k.r = r /\ k.do # "duplicate" => k.content = tree'[r]
               /\ stored'[r] = tree'[r] \/ \E k \in calls' : k.r = r /\ k.do # "duplicate"
    <2>1. /\ calls' = calls \ {c} /\ stored' = [stored EXCEPT ![c.r] = c.content]
          /\ tree' = tree /\ r \notin rough
      BY <1>3 DEF Done
    <2>2. CASE c.r = r
      <3>1. c.content = tree[r] BY <1>c, <1>3, <2>1, <2>2
      <3>2. stored'[r] = tree'[r] BY <1>a, <2>1, <2>2, <3>1 DEF Trees
      <3>3. QED BY <1>c, <2>1, <3>2
    <2>3. CASE c.r # r
      <3>1. stored'[r] = stored[r] BY <1>a, <2>1, <2>3 DEF Trees
      <3>2. \A k \in calls : k.r = r => k \in calls' BY <2>1, <2>3
      <3>3. QED BY <1>c, <2>1, <3>1, <3>2
    <2>4. QED BY <2>2, <2>3
  <1>4. CASE \E c \in calls : Fails(c) /\ UNCHANGED <<draft, origin, armed, born, wanted, dropped>>
    <2>1. PICK c \in calls : Fails(c) BY <1>4
    <2>2. /\ calls' = calls \ {c} /\ stored' = stored /\ tree'[r] = tree[r] /\ r \notin rough /\ c.r # r
      BY <1>0, <2>1, FailsFacts
    <2>3. \A k \in calls : k.r = r => k \in calls' BY <2>2
    <2>4. QED BY <1>c, <2>2, <2>3
  <1>5. CASE DeleteSaved
    <2>1. PICK q \in Requests :
            /\ tree' = [tree EXCEPT ![q] = None] /\ stored' = [stored EXCEPT ![q] = None]
            /\ rough' = rough \cup {c.r : c \in {k \in calls : k.r = q}}
      BY <1>5 DEF DeleteSaved
    <2>2. calls' = calls /\ r \notin rough BY <1>5, <2>1 DEF DeleteSaved
    <2>3. CASE q = r
      <3>1. \A c \in calls : c.r # r BY <2>1, <2>3
      <3>2. tree'[r] = None /\ stored'[r] = None BY <1>a, <2>1, <2>3 DEF Trees
      <3>3. QED BY <2>2, <3>1, <3>2
    <2>4. CASE q # r
      <3>1. tree'[r] = tree[r] /\ stored'[r] = stored[r] BY <1>a, <2>1, <2>4 DEF Trees
      <3>2. QED BY <1>c, <2>2, <3>1
    <2>5. QED BY <2>3, <2>4
  <1>6. CASE /\ tree' = stored /\ rough' = rough \cup {c.r : c \in calls}
             /\ UNCHANGED <<stored, calls, born>> /\ DraftStep
    <2>1. \A c \in calls : c.r # r BY <1>6
    <2>2. QED BY <1>c, <1>6, <2>1
  <1>7. CASE \E c \in calls : Copies(c)
    <2>1. PICK c \in calls : Copies(c) BY <1>7
    <2>2. /\ calls' = calls \ {c} /\ c.do = "duplicate" /\ born' = born + 1 /\ born' \in Requests
          /\ stored' = [stored EXCEPT ![born'] = stored[c.r]]
          /\ tree' = [tree EXCEPT ![c.r] = stored[c.r], ![born'] = stored[c.r]]
          /\ rough' = IF \E k \in calls' : k.r = c.r THEN rough \cup {c.r} ELSE rough
      BY <2>1 DEF Copies
    <2>3. r \notin rough BY <2>2
    <2>4. born' > born
      BY <1>0, <2>2, RequestsAssumption, LaunchAssumption DEF TypeOK, Requests
    <2>5. \A k \in calls : k.r # born' BY <2>2, <2>4 DEF Unborn
    <2>6. CASE r = born'
      <3>1. tree'[r] = stored[c.r] /\ stored'[r] = stored[c.r]
        BY <1>a, <2>2, <2>6 DEF Trees
      <3>2. QED BY <2>2, <2>5, <2>6, <3>1
    <2>7. CASE r # born' /\ r = c.r
      <3>1. \A k \in calls' : k.r # r BY <2>2, <2>7
      <3>2. \A k \in calls : k.r = r => k = c BY <2>2, <3>1
      <3>3. stored[r] = tree[r] BY <1>c, <2>2, <2>3, <3>2
      <3>4. tree'[r] = stored[r] /\ stored'[r] = stored[r]
        BY <1>a, <2>2, <2>7 DEF Trees
      <3>5. QED BY <3>1, <3>3, <3>4
    <2>8. CASE r # born' /\ r # c.r
      <3>1. tree'[r] = tree[r] /\ stored'[r] = stored[r]
        BY <1>a, <2>2, <2>8 DEF Trees
      <3>2. \A k \in calls : k.r = r => k \in calls' BY <2>2, <2>8
      <3>3. QED BY <1>c, <2>2, <2>3, <3>1, <3>2
    <2>9. QED BY <2>6, <2>7, <2>8
  <1>8. CASE \E c \in calls : CopiesNot(c)
    <2>1. PICK c \in calls : CopiesNot(c) BY <1>8
    <2>2. /\ calls' = calls \ {c} /\ c.do = "duplicate" /\ UNCHANGED <<tree, stored, rough>>
      BY <2>1 DEF CopiesNot, history
    <2>3. QED BY <1>c, <2>2
  <1>9. CatalogStep BY StepCases
  <1>10. QED BY <1>1, <1>2, <1>3, <1>4, <1>5, <1>6, <1>7, <1>8, <1>9 DEF CatalogStep

\* What is wanted of one request: in the tree or on its way there, and in the draft bound to it.
Held(r) ==
  /\ wanted[r] = tree[r] \/ (origin = r /\ armed)
  /\ origin = r => Content(draft) = wanted[r]

\* What is neither dropped nor waiting for the timer is in the tree.
LEMMA SentIsInTree ==
  ASSUME NEW r \in Requests, Held(r), r \notin Unsent
  PROVE  wanted[r] = tree[r]
  BY DEF Held, Unsent

\* A replaced draft has left what was wanted in the tree, and shows what is there.
LEMMA SetDraftHolds ==
  ASSUME TypeOK, TimerIsBound, NEW c \in Contents, NEW o \in Requests \cup {None},
         NEW g \in Gates \cup {Idle}, SetDraft(c, o, g),
         NEW r \in Requests, Held(r), r \notin dropped', tree'[r] = tree[r], wanted'[r] = wanted[r]
  PROVE  wanted'[r] = tree'[r] /\ (origin' = r => Content(draft') = wanted'[r])
  <1>1. r \notin Unsent /\ (o = r => tree'[r] = c)
    BY NoneAssumption DEF SetDraft
  <1>2. wanted[r] = tree[r]
    BY <1>1, SentIsInTree
  <1>3. origin' = o /\ Content(draft') = c
    BY SetDraftFacts
  <1>4. QED BY <1>1, <1>2, <1>3

\* A step of the draft alone.
LEMMA DraftStepHolds ==
  ASSUME Typed, DraftStep,
         NEW r \in Requests, Held(r), r \notin dropped', tree'[r] = tree[r], tree[r] # None
  PROVE  /\ wanted'[r] = tree'[r] \/ (origin' = r /\ armed')
         /\ origin' = r => Content(draft') = wanted'[r]
  <1>0. TypeOK /\ TimerIsBound BY DEF Typed
  <1>1. CASE UNCHANGED <<draft, origin, armed, wanted, dropped>>
    BY <1>1 DEF Held, Content
  <1>2. CASE UNCHANGED <<draft, origin, wanted, dropped>> /\ armed' = TRUE /\ origin # None
    BY <1>2 DEF Held, Content
  <1>3. CASE UNCHANGED <<draft, origin, wanted, dropped>> /\ armed' = FALSE /\ origin \in Requests /\ tree[origin] = None
    BY <1>3 DEF Held, Content
  <1>4. CASE HasDraft /\ \E m \in Methods \cup {Http, NoMethod}, b \in Nat : Patch(m, b)
    <2>1. /\ origin' = origin /\ armed' = (origin # None)
          /\ wanted' = IF origin = None THEN wanted ELSE [wanted EXCEPT ![origin] = Content(draft')]
      BY <1>4 DEF Patch
    <2>2. CASE origin = r
      <3>1. wanted' = [wanted EXCEPT ![r] = Content(draft')]
        BY <2>1, <2>2, NoneAssumption
      <3>2. wanted'[r] = Content(draft')
        BY <1>0, <3>1 DEF TypeOK, Trees
      <3>3. origin' = r /\ armed' BY <2>1, <2>2, NoneAssumption
      <3>4. QED BY <3>2, <3>3
    <2>3. CASE origin # r
      <3>1. wanted'[r] = wanted[r] BY <1>0, <2>1, <2>3 DEF TypeOK, Trees
      <3>2. QED BY <2>1, <2>3, <3>1 DEF Held
    <2>4. QED BY <2>2, <2>3
  <1>5. CASE Replaces /\ wanted' = wanted
    <2>1. PICK c \in Contents, o \in Requests \cup {None}, g \in Gates \cup {Idle} : SetDraft(c, o, g)
      BY <1>5 DEF Replaces
    <2>2. wanted'[r] = wanted[r] BY <1>5
    <2>3. wanted'[r] = tree'[r] /\ (origin' = r => Content(draft') = wanted'[r])
      BY <1>0, <2>1, <2>2, SetDraftHolds
    <2>4. QED BY <2>3
  <1>6. QED BY <1>1, <1>2, <1>3, <1>4, <1>5 DEF DraftStep

\* Whatever the step, an edit that is neither dropped nor rough is held.
LEMMA WantedIsHeldStep ==
  ASSUME Typed, TypeOK', Unborn, OneCommand, WantedIsHeld, [Next]_vars
  PROVE  WantedIsHeld'
  <1>0. TypeOK /\ TimerIsBound BY DEF Typed
  <1>a. /\ calls \subseteq Calls /\ tree \in Trees /\ stored \in Trees /\ wanted \in Trees
        /\ origin \in Requests \cup {None}
    BY <1>0 DEF TypeOK
  <1>b. \A c \in calls : c.r \in Requests /\ c.undo \in Trees BY <1>a DEF Calls
  <1> SUFFICES ASSUME NEW r \in Requests \ (rough' \cup dropped'), tree'[r] # None
               PROVE  /\ wanted'[r] = tree'[r] \/ (origin' = r /\ armed')
                      /\ origin' = r => Content(draft') = wanted'[r]
    BY DEF WantedIsHeld, Content
  <1>c. r \notin rough /\ r \notin dropped /\ tree[r] # None => Held(r)
    BY DEF WantedIsHeld, Held
  <1>d. DraftStep => r \notin dropped
    BY DEF DraftStep, Replaces, SetDraft, Patch
  <1>1. CASE UNCHANGED <<tree, stored, calls, born, rough>> /\ DraftStep
    BY <1>c, <1>d, <1>1, DraftStepHolds
  <1>2. CASE \E do, q, x : Begins(do, q, x)
    <2>1. PICK do, q, x : Begins(do, q, x) BY <1>2
    <2>2. /\ q \in Requests /\ UNCHANGED <<draft, origin, dropped>>
          /\ r \notin rough /\ r \notin dropped
          /\ \A p \in Requests \ {q} : tree'[p] = tree[p] /\ wanted'[p] = wanted[p]
          /\ do # "duplicate" => tree'[q] = x
          /\ do = "duplicate" => tree' = tree
      BY <1>a, <2>1 DEF Begins, Call, Trees
    <2>3. CASE do = "duplicate"
      <3>1. wanted' = wanted /\ armed' = armed /\ tree' = tree BY <2>1, <2>2, <2>3 DEF Begins
      <3>2. Held(r) BY <1>c, <2>2, <3>1
      <3>3. QED BY <2>2, <3>1, <3>2 DEF Held, Content
    <2>4. CASE do = "autosave"
      <3>1. /\ q = origin /\ x = Content(draft) /\ tree[q] # None /\ wanted' = wanted
        BY <2>1, <2>4 DEF Begins
      <3>2. tree[r] # None BY <2>2, <3>1
      <3>3. Held(r) BY <1>c, <2>2, <3>2
      <3>4. CASE q = r BY <2>2, <2>4, <3>1, <3>3, <3>4 DEF Held, Content
      <3>5. CASE q # r
        <4>1. origin' # r BY <2>2, <3>1, <3>5
        <4>2. tree'[r] = tree[r] /\ wanted'[r] = wanted[r] BY <2>2, <3>5
        <4>3. QED BY <3>1, <3>3, <3>5, <4>1, <4>2 DEF Held
      <3>6. QED BY <3>4, <3>5
    <2>5. CASE do \in {"save", "quick", "sibling"}
      <3>1. /\ q = born + 1 /\ wanted' = [wanted EXCEPT ![q] = x] /\ armed' = armed
        BY <2>1, <2>5 DEF Begins
      <3>2. CASE q = r
        <4>1. q > born
          BY <1>0, <3>1, RequestsAssumption, LaunchAssumption DEF TypeOK, Requests
        <4>2. origin # q BY <2>2, <4>1 DEF Unborn
        <4>3. wanted'[q] = x BY <1>a, <2>2, <3>1 DEF Trees
        <4>4. QED BY <2>2, <2>5, <3>2, <4>2, <4>3
      <3>3. CASE q # r
        <4>1. tree'[r] = tree[r] /\ wanted'[r] = wanted[r] BY <2>2, <3>3
        <4>2. Held(r) BY <1>c, <2>2, <4>1
        <4>3. QED BY <2>2, <3>1, <4>1, <4>2 DEF Held, Content
      <3>4. QED BY <3>2, <3>3
    <2>6. QED BY <2>1, <2>3, <2>4, <2>5 DEF Begins
  <1>3. CASE \E c \in calls : /\ c.do # "duplicate" /\ Done(c) /\ UNCHANGED <<tree, born, rough>>
                              /\ DraftStep \/ (Binds(c) /\ UNCHANGED <<draft, wanted>>)
    <2>1. PICK c \in calls : /\ c.do # "duplicate" /\ Done(c) /\ UNCHANGED <<tree, born, rough>>
                             /\ DraftStep \/ (Binds(c) /\ UNCHANGED <<draft, wanted>>)
      BY <1>3
    <2>2. tree'[r] = tree[r] /\ tree[r] # None /\ r \notin rough BY <2>1
    <2>3. CASE DraftStep BY <1>c, <1>d, <2>2, <2>3, DraftStepHolds
    <2>4. CASE Binds(c) /\ UNCHANGED <<draft, wanted>>
      <3>1. /\ origin' = c.r /\ r \notin dropped /\ r \notin Unsent
            /\ c.r = r => Content(draft) = c.content
        BY <2>4 DEF Binds
      <3>2. wanted[r] = tree[r] BY <1>c, <2>2, <3>1, SentIsInTree
      <3>3. c.r = r => c.content = tree[r] BY <2>1, <2>2 DEF OneCommand
      <3>4. Content(draft') = Content(draft) BY <2>4 DEF Content
      <3>5. wanted'[r] = wanted[r] BY <2>4
      <3>6. QED BY <2>2, <3>1, <3>2, <3>3, <3>4, <3>5
    <2>5. QED BY <2>1, <2>3, <2>4
  <1>4. CASE \E c \in calls : Fails(c) /\ UNCHANGED <<draft, origin, armed, born, wanted, dropped>>
    <2>1. PICK c \in calls : Fails(c) /\ UNCHANGED <<draft, origin, armed, born, wanted, dropped>>
      BY <1>4
    <2>2. tree'[r] = tree[r] /\ r \notin rough BY <1>0, <2>1, FailsFacts
    <2>3. Held(r) BY <1>c, <2>1, <2>2
    <2>4. QED BY <2>1, <2>2, <2>3 DEF Held, Content
  <1>5. CASE DeleteSaved
    <2>1. PICK q \in Requests : tree' = [tree EXCEPT ![q] = None] /\ rough \subseteq rough'
      BY <1>5 DEF DeleteSaved
    <2>2. UNCHANGED <<draft, origin, armed, wanted, dropped>> BY <1>5 DEF DeleteSaved, focus
    <2>3. q # r /\ tree'[r] = tree[r] BY <1>a, <2>1 DEF Trees
    <2>4. Held(r) BY <1>c, <2>1, <2>2, <2>3
    <2>5. QED BY <2>2, <2>3, <2>4 DEF Held, Content
  <1>6. CASE /\ tree' = stored /\ rough' = rough \cup {c.r : c \in calls}
             /\ UNCHANGED <<stored, calls, born>> /\ DraftStep
    <2>1. r \notin rough /\ \A c \in calls : c.r # r BY <1>6
    <2>2. tree'[r] = tree[r] BY <1>6, <2>1 DEF OneCommand
    <2>3. QED BY <1>c, <1>d, <1>6, <2>1, <2>2, DraftStepHolds
  <1>7. CASE \E c \in calls : Copies(c)
    <2>1. PICK c \in calls : Copies(c) BY <1>7
    <2>2. /\ c.do = "duplicate" /\ calls' = calls \ {c} /\ stored[c.r] # None
          /\ born' = born + 1 /\ born' \in Requests
          /\ tree' = [tree EXCEPT ![c.r] = stored[c.r], ![born'] = stored[c.r]]
          /\ wanted' = [wanted EXCEPT ![born'] = stored[c.r]]
          /\ rough' = IF \E k \in calls' : k.r = c.r THEN rough \cup {c.r} ELSE rough
          /\ SetDraft(stored[c.r], born', gate)
      BY <2>1 DEF Copies
    <2>3. PICK b \in Requests : b = born' BY <2>2
    <2>4. stored[c.r] \in Contents /\ c.r \in Requests BY <1>a, <1>b, <2>2 DEF Trees
    <2>5. gate \in Gates \cup {Idle} BY <1>0 DEF TypeOK
    <2>6. SetDraft(stored[c.r], b, gate) BY <2>2, <2>3
    <2>7. origin' = b /\ Content(draft') = stored[c.r]
      BY <1>0, <2>4, <2>5, <2>6, SetDraftFacts
    <2>8. CASE r = b
      <3>1. tree'[r] = stored[c.r] /\ wanted'[r] = stored[c.r]
        BY <1>a, <2>2, <2>3, <2>8 DEF Trees
      <3>2. QED BY <2>7, <3>1
    <2>9. CASE r # b
      <3>1. r \notin rough /\ r \notin dropped BY <2>2, <2>6 DEF SetDraft
      <3>2. wanted'[r] = wanted[r] BY <1>a, <2>2, <2>3, <2>9 DEF Trees
      <3>3. tree'[r] = tree[r]
        <4>1. CASE r # c.r BY <1>a, <2>2, <2>3, <2>9, <4>1 DEF Trees
        <4>2. CASE r = c.r
          <5>1. \A k \in calls' : k.r # r BY <2>2, <4>2
          <5>2. \A k \in calls : k.r = r => k = c BY <2>2, <5>1
          <5>3. stored[r] = tree[r] BY <2>2, <3>1, <5>2 DEF OneCommand
          <5>4. tree'[r] = stored[r] BY <1>a, <2>2, <2>3, <2>9, <4>2 DEF Trees
          <5>5. QED BY <5>3, <5>4
        <4>3. QED BY <4>1, <4>2
      <3>4. Held(r) BY <1>c, <3>1, <3>3
      <3>5. QED BY <2>7, <2>9, <1>0, <2>4, <2>5, <2>6, <3>2, <3>3, <3>4, SetDraftHolds
    <2>10. QED BY <2>8, <2>9
  <1>8. CASE \E c \in calls : CopiesNot(c)
    <2>1. UNCHANGED <<focus, tree, history>> BY <1>8 DEF CopiesNot
    <2>2. UNCHANGED <<draft, origin, armed, wanted, rough, dropped>> /\ tree'[r] = tree[r]
      BY <2>1 DEF focus, history
    <2>3. Held(r) BY <1>c, <2>2
    <2>4. QED BY <2>2, <2>3 DEF Held, Content
  <1>9. CatalogStep BY StepCases
  <1>10. QED BY <1>1, <1>2, <1>3, <1>4, <1>5, <1>6, <1>7, <1>8, <1>9 DEF CatalogStep

-----------------------------------------------------------------------------
(* The timer, and the null draft. *)

LEMMA DraftStepTimer ==
  ASSUME Typed, DraftStep
  PROVE  (armed' => origin' # None) /\ (HasDraft => draft'.method # None)
  <1>0. TypeOK /\ TimerIsBound BY DEF Typed
  <1>1. CASE UNCHANGED <<draft, origin, armed, wanted, dropped>>
    BY <1>0, <1>1 DEF TimerIsBound, HasDraft
  <1>2. CASE UNCHANGED <<draft, origin, wanted, dropped>> /\ armed' = TRUE /\ origin # None
    BY <1>2 DEF HasDraft
  <1>3. CASE UNCHANGED <<draft, origin, wanted, dropped>> /\ armed' = FALSE /\ origin \in Requests /\ tree[origin] = None
    BY <1>3 DEF HasDraft
  <1>4. CASE HasDraft /\ \E m \in Methods \cup {Http, NoMethod}, b \in Nat : Patch(m, b)
    <2>1. PICK m \in Methods \cup {Http, NoMethod}, b \in Nat : HasDraft /\ Patch(m, b) BY <1>4
    <2>2. draft'.method # None BY <1>0, <2>1, PatchFacts
    <2>3. armed' => origin' # None BY <2>1 DEF Patch
    <2>4. QED BY <2>2, <2>3
  <1>5. CASE Replaces /\ wanted' = wanted
    <2>1. PICK c \in Contents, o \in Requests \cup {None}, g \in Gates \cup {Idle} : SetDraft(c, o, g)
      BY <1>5 DEF Replaces
    <2>2. armed' => origin' # None BY <1>0, <2>1, SetDraftOvertakes
    <2>3. draft'.method # None BY <1>0, <2>1, SetDraftFacts
    <2>4. QED BY <2>2, <2>3
  <1>6. QED BY <1>1, <1>2, <1>3, <1>4, <1>5 DEF DraftStep

LEMMA TimerStep ==
  ASSUME Typed, Unborn, [Next]_vars
  PROVE  TimerIsBound' /\ (HasDraft => HasDraft')
  <1> SUFFICES (armed' => origin' # None) /\ (HasDraft => draft'.method # None)
    BY DEF TimerIsBound, HasDraft
  <1>0. TypeOK /\ TimerIsBound BY DEF Typed
  <1>1. CASE DraftStep BY <1>1, DraftStepTimer
  <1>2. CASE \E do, r, c : Begins(do, r, c)
    BY <1>0, <1>2 DEF Begins, TimerIsBound, HasDraft
  <1>3. CASE \E c \in calls : Binds(c) /\ UNCHANGED <<draft, wanted>>
    BY <1>3 DEF Binds, HasDraft
  <1>4. CASE UNCHANGED <<draft, origin, armed>>
    BY <1>0, <1>4 DEF TimerIsBound, HasDraft
  <1>5. CASE \E c \in calls : Copies(c)
    <2>1. PICK c \in calls : Copies(c) BY <1>5
    <2>2. /\ stored[c.r] # None /\ born' \in Requests /\ SetDraft(stored[c.r], born', gate)
      BY <2>1 DEF Copies
    <2>3. PICK b \in Requests : b = born' BY <2>2
    <2>4. c.r \in Requests BY <1>0 DEF TypeOK, Calls
    <2>5. stored[c.r] \in Contents /\ (gate = Idle \/ gate \in Gates) BY <1>0, <2>2, <2>4 DEF TypeOK, Trees
    <2>6. SetDraft(stored[c.r], b, gate) BY <2>2, <2>3
    <2>7. armed' => origin' # None BY <1>0, <2>6, SetDraftOvertakes
    <2>8. draft'.method # None BY <1>0, <2>5, <2>6, SetDraftFacts
    <2>9. QED BY <2>7, <2>8
  <1>6. DeleteSaved => UNCHANGED <<draft, origin, armed>> BY DEF DeleteSaved, focus
  <1>7. \A c : CopiesNot(c) => UNCHANGED <<draft, origin, armed>> BY DEF CopiesNot, focus
  <1>8. CatalogStep BY StepCases
  <1>9. QED BY <1>1, <1>2, <1>3, <1>4, <1>5, <1>6, <1>7, <1>8 DEF CatalogStep

\* Before there is a draft nothing can be done but to open one, or to delete.
LEMMA NoDraftStep ==
  ASSUME Typed, Unborn, [Next]_vars
  PROVE  NoDraftYet'
  <1>0. TypeOK /\ TimerIsBound /\ NoDraftYet BY DEF Typed
  <1>1. CASE HasDraft BY <1>1, TimerStep DEF NoDraftYet
  <1>2. CASE ~HasDraft
    <2>1. /\ origin = None /\ ~dirty /\ ~armed /\ calls = {} /\ saving = None /\ ~saveOpen /\ ~discardOpen
          /\ gate = Idle /\ ~IsGrpc /\ gate.phase # "asking"
      BY <1>0, <1>2, NoneAssumption DEF NoDraftYet, HasDraft, IsGrpc, Idle
    <2>2. CASE Open
      <3>1. PICK a \in Actions : Guarded(a) BY <2>2 DEF Open
      <3>2. SetDraft(a.content, OriginOf(a), gate) BY <2>1, <3>1 DEF Guarded, NeedsDiscardConfirm, Run
      <3>3. a.content \in Contents BY <1>0, <3>1, ActionsFacts DEF Deferred
      <3>4. draft'.method # None BY <3>2, <3>3, ContentFacts DEF SetDraft
      <3>5. QED BY <3>4 DEF NoDraftYet, HasDraft
    <2>3. CASE DeleteSaved \/ UNCHANGED vars
      BY <1>0, <2>3 DEF DeleteSaved, vars, focus, catalog, dialogs, change, NoDraftYet, HasDraft
    <2>4. CASE ReadAnswers
      <3>1. PICK j \in reads : gate' = IF j.gated THEN Idle ELSE GateAt(gate, draft'.method, origin)
        BY <2>4 DEF ReadAnswers
      <3>2. gate' = Idle BY <2>1, <3>1 DEF GateAt
      <3>3. UNCHANGED <<focus, catalog, dialogs>> BY <2>1, <2>4 DEF ReadAnswers
      <3>4. QED BY <1>0, <3>2, <3>3 DEF focus, catalog, dialogs, NoDraftYet, HasDraft
    <2>5. ~Discard /\ ~CancelDiscard /\ ~SaveFirst /\ ~Edit /\ ~ShowsAnswer /\ ~Autosave /\ ~Autosaved
      BY <1>2, <2>1 DEF Discard, CancelDiscard, SaveFirst, Edit, ShowsAnswer, Autosave, Autosaved
    <2>6. ~OpenSave /\ ~CloseSave /\ ~Submit /\ ~Prepared /\ ~SaveAnswers /\ ~Reloaded
      BY <1>2, <2>1 DEF OpenSave, CloseSave, Submit, Prepared, SaveAnswers, Reloaded
    <2>7. ~QuickAdd /\ ~QuickAnswers /\ ~Duplicate /\ ~Duplicated
      BY <2>1 DEF QuickAdd, QuickAnswers, Duplicate, Duplicated
    <2>8. ~PickMethod /\ ~ResetBody /\ ~CancelAsking /\ ~CommitChange /\ ~CommitCreate /\ ~SiblingAnswers
      BY <2>1 DEF PickMethod, ResetBody, CancelAsking, CommitChange, CommitCreate, SiblingAnswers
    <2>9. QED BY <2>2, <2>3, <2>4, <2>5, <2>6, <2>7, <2>8 DEF Next
  <1>3. QED BY <1>1, <1>2

-----------------------------------------------------------------------------
(* The draft's identity: what a step does to the draft that somebody is    *)
(* waiting to act on.                                                      *)

\* A submit goes on as it was, or its last stage ends.
Submitting == saving' = saving \/ (saving # None /\ saving.stage = "reload" /\ saving' = None)

\* The draft stays the one it is, and nothing that awaits it begins but a duplicate of it.
Rests ==
  /\ draft'.id = draft.id /\ draft'.method = draft.method
  /\ UNCHANGED <<origin, overtaken, gate, reads>> /\ Submitting
  /\ \A c \in calls' \ calls : c.do \notin {"save", "sibling"} /\ (c.do = "duplicate" => origin # None)

\* What may replace an unbound draft with edits.
MayReplace ==
  dirty /\ origin = None =>
    \/ discardOpen /\ pending # None /\ ~discardOpen'
    \/ overtaken

\* The draft is replaced, as the user has it or as it was going to be.
Reopens ==
  /\ \E c \in Contents, o \in Requests \cup {None} : SetDraft(c, o, gate)
  /\ calls' \subseteq calls /\ Submitting /\ MayReplace

LEMMA ReopensWith ==
  ASSUME NEW c \in Contents, NEW o \in Requests \cup {None}, SetDraft(c, o, gate),
         calls' \subseteq calls, Submitting, MayReplace
  PROVE  Reopens
  BY DEF Reopens

LEMMA OpenChange ==
  ASSUME Typed, Open \/ Discard \/ CancelDiscard \/ SaveFirst
  PROVE  Rests \/ Reopens
  <1> USE DEF focus, catalog, dialogs, change, history
  <1>0. TypeOK /\ TimerIsBound BY DEF Typed
  <1>1. CASE Open
    <2>1. PICK a \in Deferred : Guarded(a) BY <1>0, <1>1, ActionsFacts DEF Open
    <2>2. calls' = calls BY <1>1 DEF Open
    <2>3. CASE NeedsDiscardConfirm
      BY <1>0, <2>1, <2>2, <2>3, GuardedFacts DEF Rests, Submitting
    <2>4. CASE ~NeedsDiscardConfirm
      <3>1. /\ SetDraft(a.content, OriginOf(a), gate) /\ saving' = saving
            /\ a.content \in Contents /\ OriginOf(a) \in Requests \cup {None}
        BY <1>0, <2>1, <2>4, GuardedFacts
      <3>2. Submitting BY <3>1 DEF Submitting
      <3>3. MayReplace BY <2>4 DEF MayReplace, NeedsDiscardConfirm
      <3>4. QED BY <2>2, <3>1, <3>2, <3>3, ReopensWith
    <2>5. QED BY <2>3, <2>4
  <1>2. CASE Discard
    <2>1. calls' = calls /\ saving' = saving /\ discardOpen /\ discardOpen' = FALSE
      BY <1>2 DEF Discard
    <2>2. CASE pending = None
      BY <1>2, <2>1, <2>2 DEF Discard, Rests, Submitting
    <2>3. CASE pending # None
      <3>1. pending \in Deferred BY <1>0, <2>3 DEF TypeOK
      <3>2. /\ SetDraft(pending.content, OriginOf(pending), gate)
            /\ pending.content \in Contents /\ OriginOf(pending) \in Requests \cup {None}
        BY <1>2, <2>3, <3>1 DEF Discard, Run, OriginOf, Deferred
      <3>3. MayReplace BY <2>1, <2>3 DEF MayReplace
      <3>4. Submitting BY <2>1 DEF Submitting
      <3>5. QED BY <2>1, <3>2, <3>3, <3>4, ReopensWith
    <2>4. QED BY <2>2, <2>3
  <1>3. CASE CancelDiscard \/ SaveFirst
    BY <1>3 DEF CancelDiscard, SaveFirst, Rests, Submitting
  <1>4. QED BY <1>1, <1>2, <1>3

LEMMA EditChange ==
  ASSUME Typed, Edit \/ ShowsAnswer \/ Autosave \/ Autosaved \/ DeleteSaved
  PROVE  Rests
  <1> USE DEF focus, catalog, dialogs, change, history
  <1>0. TypeOK BY DEF Typed
  <1>1. CASE Edit
    <2>1. /\ HasDraft /\ Patch(draft.method, left.edit)
          /\ UNCHANGED <<calls, saving, gate, reads>>
      BY <1>1 DEF Edit
    <2>2. draft.method \in Methods \cup {Http, NoMethod} /\ left.edit \in Nat
      BY <1>0, <2>1 DEF TypeOK, DraftSlots, HasDraft, Spendings
    <2>3. /\ draft'.id = draft.id /\ draft'.method = draft.method
          /\ origin' = origin /\ overtaken' = overtaken
      BY <1>0, <2>1, <2>2, PatchFacts
    <2>4. QED BY <2>1, <2>3 DEF Rests, Submitting
  <1>2. CASE ShowsAnswer
    BY <1>2 DEF ShowsAnswer, Rests, Submitting
  <1>3. CASE Autosave
    <2>1. UNCHANGED <<draft, origin, saving, gate, reads, overtaken>> BY <1>3 DEF Autosave
    <2>2. \A c \in calls' \ calls : c.do = "autosave" BY <1>3 DEF Autosave, Call
    <2>3. QED BY <2>1, <2>2 DEF Rests, Submitting
  <1>4. CASE Autosaved
    <2>1. UNCHANGED <<draft, origin, saving, gate, reads, overtaken>> BY <1>4 DEF Autosaved
    <2>2. calls' \subseteq calls BY <1>4 DEF Autosaved, Done, Fails
    <2>3. QED BY <2>1, <2>2 DEF Rests, Submitting
  <1>5. CASE DeleteSaved
    BY <1>5 DEF DeleteSaved, Rests, Submitting
  <1>6. QED BY <1>1, <1>2, <1>3, <1>4, <1>5

LEMMA SaveChange ==
  ASSUME Typed, OpenSave \/ CloseSave \/ Reloaded
  PROVE  Rests \/ Reopens
  <1> USE DEF focus, catalog, dialogs, change, history
  <1>0. TypeOK BY DEF Typed
  <1>1. CASE OpenSave \/ CloseSave
    BY <1>1 DEF OpenSave, CloseSave, Rests, Submitting
  <1>2. CASE Reloaded
    <2>1. saving # None /\ saving.stage = "reload" /\ saving' = None /\ calls' = calls
      BY <1>2 DEF Reloaded
    <2>2. Submitting BY <2>1 DEF Submitting
    <2>3. CASE pending = None
      BY <1>2, <2>1, <2>2, <2>3 DEF Reloaded, Rests
    <2>4. CASE pending # None
      <3>1. pending \in Deferred BY <1>0, <2>4 DEF TypeOK
      <3>2. /\ SetDraft(pending.content, OriginOf(pending), gate)
            /\ pending.content \in Contents /\ OriginOf(pending) \in Requests \cup {None}
        BY <1>2, <2>4, <3>1 DEF Reloaded, OriginOf, Deferred
      <3>3. MayReplace BY <2>1 DEF Typed, SubmitsApart, MayReplace
      <3>4. QED BY <2>1, <2>2, <3>2, <3>3, ReopensWith
    <2>5. QED BY <2>3, <2>4
  <1>3. QED BY <1>1, <1>2

LEMMA AddChange ==
  ASSUME Typed, QuickAdd \/ QuickAnswers \/ Duplicate \/ Duplicated
  PROVE  Rests \/ Reopens
  <1> USE DEF focus, catalog, dialogs, change, history
  <1>0. TypeOK /\ TimerIsBound BY DEF Typed
  <1>1. CASE QuickAdd
    <2>1. UNCHANGED <<draft, origin, saving, gate, reads, overtaken>> BY <1>1 DEF QuickAdd
    <2>2. \A c \in calls' \ calls : c.do = "quick" BY <1>1 DEF QuickAdd, Call
    <2>3. QED BY <2>1, <2>2 DEF Rests, Submitting
  <1>2. CASE QuickAnswers
    <2>1. PICK c \in calls :
            /\ c.do = "quick"
            /\ \/ Done(c) /\ Guarded([do |-> "open", r |-> c.r, content |-> c.content])
               \/ Fails(c) /\ UNCHANGED <<focus, dialogs, change, overtaken>>
      BY <1>2 DEF QuickAnswers
    <2>2. CASE Fails(c) /\ UNCHANGED <<focus, dialogs, change, overtaken>>
      BY <2>2 DEF Fails, Rests, Submitting
    <2>3. CASE Done(c) /\ Guarded([do |-> "open", r |-> c.r, content |-> c.content])
      <3>1. c.r \in Requests /\ c.content \in Contents /\ calls' \subseteq calls
        BY <1>0, <2>1, <2>3, DoneFacts
      <3>2. PICK a \in Deferred : Guarded(a) BY <2>3, <3>1 DEF Deferred
      <3>3. CASE NeedsDiscardConfirm
        BY <1>0, <3>1, <3>2, <3>3, GuardedFacts DEF Rests, Submitting
      <3>4. CASE ~NeedsDiscardConfirm
        <4>1. /\ SetDraft(a.content, OriginOf(a), gate) /\ saving' = saving
              /\ a.content \in Contents /\ OriginOf(a) \in Requests \cup {None}
          BY <1>0, <3>2, <3>4, GuardedFacts
        <4>2. Submitting BY <4>1 DEF Submitting
        <4>3. MayReplace BY <3>4 DEF MayReplace, NeedsDiscardConfirm
        <4>4. QED BY <3>1, <4>1, <4>2, <4>3, ReopensWith
      <3>5. QED BY <3>3, <3>4
    <2>4. QED BY <2>1, <2>2, <2>3
  <1>3. CASE Duplicate
    <2>1. UNCHANGED <<draft, origin, saving, gate, reads, overtaken>> /\ origin # None
      BY <1>3 DEF Duplicate
    <2>2. \A c \in calls' \ calls : c.do = "duplicate" BY <1>3 DEF Duplicate, Call
    <2>3. QED BY <2>1, <2>2 DEF Rests, Submitting
  <1>4. CASE Duplicated
    <2>1. PICK c \in calls :
            /\ c.do = "duplicate" /\ calls' = calls \ {c} /\ UNCHANGED dialogs
            /\ \/ /\ stored[c.r] # None /\ born + 1 \in Requests /\ born' = born + 1
                  /\ SetDraft(stored[c.r], born', gate)
               \/ UNCHANGED <<focus, change, history>>
      BY <1>4 DEF Duplicated
    <2>2. Submitting BY <2>1 DEF Submitting
    <2>3. CASE UNCHANGED <<focus, change, history>>
      BY <2>1, <2>2, <2>3 DEF Rests
    <2>4. CASE /\ stored[c.r] # None /\ born + 1 \in Requests /\ born' = born + 1
               /\ SetDraft(stored[c.r], born', gate)
      <3>1. PICK b \in Requests : b = born' BY <2>4
      <3>2. stored[c.r] \in Contents BY <1>0, <2>4 DEF TypeOK, Trees, Calls
      <3>3. SetDraft(stored[c.r], b, gate) BY <2>4, <3>1
      <3>4. MayReplace BY <2>1 DEF Typed, SubmitsApart, Under, MayReplace
      <3>5. QED BY <2>1, <2>2, <3>2, <3>3, <3>4, ReopensWith
    <2>5. QED BY <2>1, <2>3, <2>4
  <1>5. QED BY <1>1, <1>2, <1>3, <1>4

\* What is neither: a submit's steps, and those of a change of method.
LEMMA ChangeCases ==
  ASSUME Typed, [Next]_vars
  PROVE  \/ Rests \/ Reopens \/ Submit \/ Prepared \/ SaveAnswers \/ PickMethod \/ ResetBody
         \/ CancelAsking \/ CommitChange \/ ReadAnswers \/ CommitCreate \/ SiblingAnswers
  <1>1. CASE Next
    BY <1>1, OpenChange, EditChange, SaveChange, AddChange DEF Next
  <1>2. CASE UNCHANGED vars
    BY <1>2 DEF vars, focus, catalog, dialogs, change, history, Rests, Submitting
  <1>3. QED BY <1>1, <1>2

\* What SetDraft does for whoever waits: it says so, and keeps a gate that is closing.
LEMMA ReopensFacts ==
  ASSUME Typed, Reopens
  PROVE  /\ draft'.id # draft.id
         /\ Awaited => overtaken'
         /\ overtaken => overtaken'
         /\ gate.phase = "committing" => gate' = gate
         /\ \A j \in reads' : ~j.live /\ \E k \in reads : j = [k EXCEPT !.live = FALSE]
  <1>0. TypeOK /\ TimerIsBound BY DEF Typed
  <1>1. PICK c \in Contents, o \in Requests \cup {None} : SetDraft(c, o, gate) BY DEF Reopens
  <1>2. gate = Idle \/ gate \in Gates BY <1>0 DEF TypeOK
  <1>3. draft'.id # draft.id /\ \A j \in reads' : ~j.live BY <1>0, <1>1, <1>2, SetDraftFacts
  <1>4. (Awaited => overtaken') /\ (overtaken => overtaken') BY <1>0, <1>1, SetDraftOvertakes, Zenon
  <1>5. gate.phase = "committing" => gate' = gate BY <1>1 DEF SetDraft, GateAt
  <1>6. \A j \in reads' : \E k \in reads : j = [k EXCEPT !.live = FALSE] BY <1>1 DEF SetDraft
  <1>7. QED BY <1>3, <1>4, <1>5, <1>6

LEMMA SubmitsApartStep ==
  ASSUME Typed, [Next]_vars
  PROVE  SubmitsApart'
  <1>0. TypeOK BY DEF Typed
  <1>a. /\ \A c, d \in calls : c.do = "save" /\ d.do = "save" => c = d
        /\ \A c \in calls : c.do = "save" =>
             saving # None /\ saving.stage = "add" /\ (origin # None => overtaken)
        /\ saving # None /\ saving.stage = "reload" /\ origin = None => overtaken
        /\ \A c \in calls : c.do = "duplicate" /\ origin = None => overtaken
    BY DEF Typed, SubmitsApart, Under
  <1> SUFFICES /\ \A c, d \in calls' : c.do = "save" /\ d.do = "save" => c = d
               /\ \A c \in calls' : c.do = "save" =>
                    saving' # None /\ saving'.stage = "add" /\ (origin' # None => overtaken')
               /\ saving' # None /\ saving'.stage = "reload" /\ origin' = None => overtaken'
               /\ \A c \in calls' : c.do = "duplicate" /\ origin' = None => overtaken'
    BY DEF SubmitsApart, Under
  <1>1. CASE Rests
    <2>1. /\ origin' = origin /\ overtaken' = overtaken
          /\ saving' = saving \/ (saving # None /\ saving.stage = "reload" /\ saving' = None)
          /\ \A c \in calls' : c.do = "save" => c \in calls
          /\ \A c \in calls' : c.do = "duplicate" /\ origin = None => c \in calls
      BY <1>1 DEF Rests, Submitting
    <2>2. CASE saving' = saving BY <1>a, <2>1, <2>2
    <2>3. CASE saving # None /\ saving.stage = "reload" /\ saving' = None
      <3>1. \A c \in calls : c.do # "save" BY <1>a, <2>3
      <3>2. QED BY <1>a, <2>1, <2>3, <3>1
    <2>4. QED BY <2>1, <2>2, <2>3
  <1>2. CASE Reopens
    <2>1. /\ calls' \subseteq calls
          /\ saving' = saving \/ (saving # None /\ saving.stage = "reload" /\ saving' = None)
      BY <1>2 DEF Reopens, Submitting
    <2>2. /\ saving' # None => overtaken'
          /\ \A c \in calls' : c.do = "duplicate" => overtaken'
      BY <1>2, ReopensFacts DEF Awaited
    <2>3. CASE saving' = saving BY <1>a, <2>1, <2>2, <2>3
    <2>4. CASE saving # None /\ saving.stage = "reload" /\ saving' = None
      <3>1. \A c \in calls : c.do # "save" BY <1>a, <2>4
      <3>2. QED BY <1>a, <2>1, <2>2, <2>4, <3>1
    <2>5. QED BY <2>1, <2>3, <2>4
  <1>3. ASSUME HandleSave, origin' = origin, \A c \in calls : c.do # "save"
        PROVE  SubmitsApart'
    <2>1. PICK n : n.do = "save" /\ calls' = calls \cup {n}
      BY <1>3 DEF HandleSave, Call
    <2>2. saving' = [stage |-> "add", r |-> born + 1] BY <1>3 DEF HandleSave
    <2>3. overtaken' = (overtaken \/ origin # None) BY <1>3, Zenon DEF HandleSave
    <2>4. (origin # None => overtaken') /\ (overtaken => overtaken') BY <2>3, Zenon
    <2>5. saving' # None /\ saving'.stage = "add"
      <3>1. saving' \in Savings BY <1>3, <2>2 DEF Savings, HandleSave
      <3>2. QED BY <2>2, <3>1, NoneAssumption
    <2>6. \A c \in calls' : c.do = "save" => c = n BY <1>3, <2>1
    <2>7. \A c \in calls' : c.do = "duplicate" => c \in calls BY <2>1
    <2>8. QED BY <1>a, <1>3, <2>4, <2>5, <2>6, <2>7 DEF SubmitsApart, Under
  <1>4. CASE Submit
    <2>1. saving = None /\ origin' = origin BY <1>4 DEF Submit, focus
    <2>2. \A c \in calls : c.do # "save" BY <1>a, <2>1
    <2>3. CASE HandleSave BY <1>3, <2>1, <2>2, <2>3 DEF SubmitsApart, Under
    <2>4. CASE saving' = [stage |-> "prepare", r |-> None] /\ UNCHANGED <<calls, overtaken>>
      BY <1>a, <2>1, <2>2, <2>4
    <2>5. QED BY <1>4, <2>3, <2>4 DEF Submit
  <1>5. CASE Prepared
    <2>1. saving.stage = "prepare" /\ origin' = origin BY <1>5 DEF Prepared, focus
    <2>2. \A c \in calls : c.do # "save" BY <1>a, <2>1
    <2>3. CASE HandleSave BY <1>3, <2>1, <2>2, <2>3 DEF SubmitsApart, Under
    <2>4. CASE saving' = None /\ UNCHANGED <<calls, overtaken>>
      BY <1>a, <2>1, <2>2, <2>4
    <2>5. QED BY <1>5, <2>3, <2>4 DEF Prepared
  <1>6. CASE SaveAnswers
    <2>1. PICK c \in calls :
            /\ c.do = "save" /\ calls' = calls \ {c}
            /\ \/ origin' = c.r /\ saving' = [saving EXCEPT !.stage = "reload"]
               \/ origin' = origin /\ saving' = None
      BY <1>6 DEF SaveAnswers, Done, Fails
    <2>2. overtaken' = overtaken BY <1>6 DEF SaveAnswers
    <2>3. \A d \in calls' : d \in calls /\ d.do # "save" BY <1>a, <2>1
    <2>4. c.r # None BY <1>0, NoneAssumption DEF TypeOK, Calls
    <2>5. QED BY <1>a, <2>1, <2>2, <2>3, <2>4
  <1>7. ASSUME UNCHANGED <<origin, saving, overtaken>>,
               \A c \in calls' \ calls : c.do \notin {"save", "duplicate"}
        PROVE  SubmitsApart'
    BY <1>a, <1>7 DEF SubmitsApart, Under
  <1>8. CASE PickMethod \/ ResetBody \/ CancelAsking \/ CommitChange
    <2>1. UNCHANGED <<origin, saving, overtaken, calls>>
      BY <1>8 DEF PickMethod, ResetBody, CancelAsking, CommitChange, focus, catalog, dialogs, history
    <2>2. SubmitsApart' BY <1>7, <2>1
    <2>3. QED BY <2>2 DEF SubmitsApart, Under
  <1>9. CASE ReadAnswers
    <2>1. UNCHANGED <<origin, saving, overtaken, calls>>
      BY <1>9 DEF ReadAnswers, Patch, focus, catalog, dialogs, history
    <2>2. SubmitsApart' BY <1>7, <2>1
    <2>3. QED BY <2>2 DEF SubmitsApart, Under
  <1>10. CASE CommitCreate
    <2>1. UNCHANGED <<origin, saving, overtaken>> BY <1>10 DEF CommitCreate, focus, dialogs
    <2>2. \A c \in calls' \ calls : c.do = "sibling" BY <1>10 DEF CommitCreate, Call
    <2>3. SubmitsApart' BY <1>7, <2>1, <2>2
    <2>4. QED BY <2>3 DEF SubmitsApart, Under
  <1>11. CASE SiblingAnswers
    <2>1. PICK c \in calls :
            /\ calls' = calls \ {c}
            /\ \/ UNCHANGED dialogs /\ SetDraft(c.content, c.r, Idle)
               \/ UNCHANGED <<origin, overtaken, dialogs>>
      BY <1>11 DEF SiblingAnswers, Done, Fails, focus
    <2>2. saving' = saving BY <2>1 DEF dialogs
    <2>3. CASE UNCHANGED <<origin, overtaken, dialogs>>
      <3>1. SubmitsApart' BY <1>7, <2>1, <2>2, <2>3
      <3>2. QED BY <3>1 DEF SubmitsApart, Under
    <2>4. CASE SetDraft(c.content, c.r, Idle)
      <3>1. Awaited => overtaken' BY <1>0, <2>4, SetDraftOvertakes, Zenon
      <3>2. /\ saving' # None => overtaken'
            /\ \A d \in calls' : d.do = "duplicate" => overtaken'
        BY <3>1 DEF Awaited
      <3>3. QED BY <1>a, <2>1, <2>2, <3>2
    <2>5. QED BY <2>1, <2>3, <2>4
  <1>12. QED BY <1>1, <1>2, <1>4, <1>5, <1>6, <1>8, <1>9, <1>10, <1>11, ChangeCases

LEMMA GateStep ==
  ASSUME Typed, [Next]_vars
  PROVE  GateIsHeld'
  <1>0. TypeOK BY DEF Typed
  <1>a. /\ \A c, d \in calls : c.do = "sibling" /\ d.do = "sibling" => c = d
        /\ \A j, k \in reads : j.gated /\ k.gated => j = k
        /\ \A c \in calls, j \in reads : ~(c.do = "sibling" /\ j.gated)
        /\ \A c \in calls : c.do = "sibling" => gate.phase = "committing"
        /\ \A j \in reads : j.gated => gate.phase = "committing"
    BY DEF Typed, GateIsHeld, Under, Gated
  <1>b. \A j \in reads : j \in Reads BY <1>0 DEF TypeOK
  <1> SUFFICES /\ \A c, d \in calls' : c.do = "sibling" /\ d.do = "sibling" => c = d
               /\ \A j, k \in reads' : j.gated /\ k.gated => j = k
               /\ \A c \in calls', j \in reads' : ~(c.do = "sibling" /\ j.gated)
               /\ \A c \in calls' : c.do = "sibling" => gate'.phase = "committing"
               /\ \A j \in reads' : j.gated => gate'.phase = "committing"
    BY DEF GateIsHeld, Under, Gated
  <1>1. CASE /\ \A c \in calls' \ calls : c.do # "sibling"
             /\ \A j \in reads' \ reads : ~j.gated
             /\ gate.phase = "committing" => gate'.phase = "committing"
    BY <1>a, <1>1
  <1>2. CASE Rests BY <1>1, <1>2 DEF Rests
  <1>3. CASE Reopens
    <2>1. /\ gate.phase = "committing" => gate' = gate
          /\ \A j \in reads' : \E k \in reads : j = [k EXCEPT !.live = FALSE]
      BY <1>3, ReopensFacts
    <2>2. \A j \in reads' : j.gated => \E k \in reads : k.gated /\ j = [k EXCEPT !.live = FALSE]
      BY <1>b, <2>1 DEF Reads
    <2>3. calls' \subseteq calls BY <1>3 DEF Reopens
    <2>4. \A j, k \in reads' : j.gated /\ k.gated => j = k BY <1>a, <2>2
    <2>5. QED BY <1>a, <2>1, <2>2, <2>3, <2>4
  <1>4. CASE Submit \/ Prepared
    <2>1. \A c \in calls' \ calls : c.do = "save" BY <1>4 DEF Submit, Prepared, HandleSave, Call
    <2>2. UNCHANGED <<gate, reads>> BY <1>4 DEF Submit, Prepared, change
    <2>3. QED BY <1>1, <2>1, <2>2
  <1>5. CASE SaveAnswers
    <2>1. calls' \subseteq calls /\ reads' = reads BY <1>5 DEF SaveAnswers, Done, Fails
    <2>2. gate.phase = "committing" => gate' = gate BY <1>5 DEF SaveAnswers, GateAt
    <2>3. QED BY <1>1, <2>1, <2>2
  <1>6. CASE PickMethod
    <2>1. gate = Idle /\ calls' = calls BY <1>6 DEF PickMethod, catalog
    <2>2. \A j \in reads' \ reads : ~j.gated BY <1>6 DEF PickMethod, Read
    <2>3. gate.phase # "committing" BY <2>1 DEF Idle
    <2>4. QED BY <1>1, <2>1, <2>2, <2>3
  <1>7. CASE ResetBody
    <2>1. calls' = calls /\ gate' = gate BY <1>7 DEF ResetBody, catalog
    <2>2. \A j \in reads' \ reads : ~j.gated BY <1>7 DEF ResetBody, Read
    <2>3. QED BY <1>1, <2>1, <2>2
  <1>8. CASE CancelAsking
    BY <1>1, <1>8 DEF CancelAsking, catalog
  <1>9. CASE CommitChange
    <2>1. gate.phase = "asking" /\ gate'.phase = "committing" /\ calls' = calls
      BY <1>9 DEF CommitChange, catalog
    <2>2. PICK n : reads' = reads \cup {n} BY <1>9 DEF CommitChange, Read
    <2>3. (\A c \in calls : c.do # "sibling") /\ (\A j \in reads : ~j.gated) BY <1>a, <2>1
    <2>4. \A j \in reads' : j.gated => j = n BY <2>2, <2>3
    <2>5. QED BY <2>1, <2>3, <2>4
  <1>10. CASE ReadAnswers
    <2>1. PICK j \in reads :
            reads' = reads \ {j} /\ gate' = IF j.gated THEN Idle ELSE GateAt(gate, draft'.method, origin)
      BY <1>10 DEF ReadAnswers
    <2>2. calls' = calls BY <1>10 DEF ReadAnswers, catalog
    <2>3. CASE j.gated
      <3>1. (\A c \in calls : c.do # "sibling") /\ (\A k \in reads' : ~k.gated) BY <1>a, <2>1, <2>3
      <3>2. QED BY <2>2, <3>1
    <2>4. CASE ~j.gated
      <3>1. gate.phase = "committing" => gate' = gate BY <2>1, <2>4 DEF GateAt
      <3>2. QED BY <1>1, <2>1, <2>2, <3>1
    <2>5. QED BY <2>3, <2>4
  <1>11. CASE CommitCreate
    <2>1. gate.phase = "asking" /\ reads' = reads BY <1>11 DEF CommitCreate
    <2>2. (\A c \in calls : c.do # "sibling") /\ (\A j \in reads : ~j.gated) BY <1>a, <2>1
    <2>3. CASE calls' = calls BY <1>1, <2>1, <2>3
    <2>4. CASE gate'.phase = "committing" /\ \E n : calls' = calls \cup {n}
      <3>1. PICK n : calls' = calls \cup {n} BY <2>4
      <3>2. \A c \in calls' : c.do = "sibling" => c = n BY <2>2, <3>1
      <3>3. QED BY <2>1, <2>2, <2>4, <3>2
    <2>5. CASE calls' # calls
      <3>1. /\ gate' = [phase |-> "committing", r |-> gate.r]
            /\ Call("sibling", born + 1, [method |-> gate.to, body |-> gate.body],
                    [tree EXCEPT ![born + 1] = [method |-> gate.to, body |-> gate.body]])
        BY <1>11, <2>5 DEF CommitCreate
      <3>2. \E n : calls' = calls \cup {n} BY <3>1 DEF Call
      <3>3. QED BY <2>4, <3>1, <3>2
    <2>6. QED BY <2>3, <2>5
  <1>12. CASE SiblingAnswers
    <2>1. PICK c \in calls :
            /\ c.do = "sibling" /\ calls' = calls \ {c}
            /\ reads' = reads \/ reads' = {[j EXCEPT !.live = FALSE] : j \in reads}
      BY <1>12 DEF SiblingAnswers, Done, Fails, SetDraft
    <2>2. (\A d \in calls' : d.do # "sibling") /\ (\A j \in reads : ~j.gated) BY <1>a, <2>1
    <2>3. \A j \in reads' : ~j.gated BY <1>b, <2>1, <2>2 DEF Reads
    <2>4. QED BY <2>2, <2>3
  <1>13. QED
    BY <1>2, <1>3, <1>4, <1>5, <1>6, <1>7, <1>8, <1>9, <1>10, <1>11, <1>12, ChangeCases

LEMMA ReadsStep ==
  ASSUME Typed, ReadsKnowTheirDraft, [Next]_vars
  PROVE  ReadsKnowTheirDraft'
  <1>0. TypeOK /\ TimerIsBound BY DEF Typed
  <1>a. \A j \in reads : j.live => j.asked \in {origin, None} \/ overtaken
    BY DEF ReadsKnowTheirDraft
  <1> SUFFICES \A j \in reads' : j.live => j.asked \in {origin', None} \/ overtaken'
    BY DEF ReadsKnowTheirDraft
  <1>1. CASE /\ origin' = origin /\ (overtaken => overtaken')
             /\ \A j \in reads' \ reads : j.asked = origin
    BY <1>a, <1>1
  <1>2. CASE Rests BY <1>1, <1>2 DEF Rests
  <1>3. CASE Reopens BY <1>3, ReopensFacts
  <1>4. CASE Submit \/ Prepared
    <2>1. origin' = origin /\ reads' = reads BY <1>4 DEF Submit, Prepared, focus, change
    <2>2. CASE HandleSave
      <3>1. overtaken => overtaken' BY <2>2, Zenon DEF HandleSave
      <3>2. QED BY <1>1, <2>1, <3>1
    <2>3. CASE overtaken' = overtaken BY <1>1, <2>1, <2>3
    <2>4. QED BY <1>4, <2>2, <2>3 DEF Submit, Prepared
  <1>5. CASE SaveAnswers
    <2>1. UNCHANGED <<reads, overtaken>> /\ Under("save") # {} BY <1>5 DEF SaveAnswers, Under
    <2>2. origin # None => overtaken BY <2>1 DEF Typed, SubmitsApart
    <2>3. QED BY <1>a, <2>1, <2>2
  <1>6. CASE PickMethod \/ ResetBody \/ CommitChange
    <2>1. UNCHANGED <<origin, overtaken>>
      BY <1>6 DEF PickMethod, ResetBody, CommitChange, focus, history
    <2>2. \A j \in reads' \ reads : j.asked = origin
      BY <1>6 DEF PickMethod, ResetBody, CommitChange, Read
    <2>3. QED BY <1>1, <2>1, <2>2
  <1>7. CASE CancelAsking \/ CommitCreate
    BY <1>1, <1>7 DEF CancelAsking, CommitCreate, focus, history
  <1>8. CASE ReadAnswers
    <2>1. reads' \subseteq reads BY <1>8 DEF ReadAnswers
    <2>2. UNCHANGED <<origin, overtaken>> BY <1>8 DEF ReadAnswers, Patch, focus, history
    <2>3. QED BY <1>1, <2>1, <2>2
  <1>9. CASE SiblingAnswers
    <2>1. PICK c \in calls :
            \/ SetDraft(c.content, c.r, Idle)
            \/ UNCHANGED <<focus, reads, overtaken>>
      BY <1>9 DEF SiblingAnswers
    <2>2. CASE SetDraft(c.content, c.r, Idle)
      <3>1. reads' = {[j EXCEPT !.live = FALSE] : j \in reads} BY <2>2 DEF SetDraft
      <3>2. \A j \in reads' : ~j.live BY <1>0, <3>1 DEF TypeOK, Reads
      <3>3. QED BY <3>2
    <2>3. CASE UNCHANGED <<focus, reads, overtaken>>
      BY <1>1, <2>3 DEF focus
    <2>4. QED BY <2>1, <2>2, <2>3
  <1>10. QED BY <1>2, <1>3, <1>4, <1>5, <1>6, <1>7, <1>8, <1>9, ChangeCases

-----------------------------------------------------------------------------
(* The theorems. *)

LEMMA InitInv ==
  ASSUME Init
  PROVE  DraftInv
  <1>1. /\ Len(Stored) \in Nat /\ Len(Stored) \in Requests /\ Requests \subseteq Nat
        /\ \A r \in DOMAIN Stored : Stored[r] \in Contents /\ r <= Len(Stored)
    BY RequestsAssumption, LaunchAssumption DEF Requests
  <1>2. tree = [r \in Requests |-> IF r \in DOMAIN Stored THEN Stored[r] ELSE None]
    BY DEF Init
  <1>3. tree \in Trees BY <1>1, <1>2 DEF Trees
  <1>4. stored = tree /\ wanted = tree /\ calls = {} /\ rough = {} /\ dropped = {} BY DEF Init
  <1>5. /\ draft = [id |-> 0, method |-> None, body |-> Pristine]
        /\ origin = None /\ dirty = FALSE /\ armed = FALSE /\ born = Len(Stored)
        /\ saving = None /\ saveOpen = FALSE /\ discardOpen = FALSE /\ pending = None
        /\ gate = Idle /\ reads = {} /\ overtaken = FALSE /\ left \in Budgets
    BY DEF Init
  <1>6. draft \in DraftSlots BY <1>5 DEF DraftSlots, Pristine
  <1>7. left \in [Spendings -> Nat] BY <1>5, LaunchAssumption
  <1>8. born \in Len(Stored) .. MaxRequests BY <1>1, <1>5, RequestsAssumption DEF Requests
  <1>9. TypeOK BY <1>3, <1>4, <1>5, <1>6, <1>7, <1>8 DEF TypeOK
  <1>10. NoDraftYet BY <1>4, <1>5 DEF NoDraftYet
  <1>11. TimerIsBound BY <1>5 DEF TimerIsBound
  <1>12. Unborn
    <2>1. ASSUME NEW r \in Requests, r > born PROVE tree[r] = None
      <3>1. r \notin DOMAIN Stored BY <1>1, <1>5, <2>1
      <3>2. QED BY <1>2, <3>1
    <2>2. \A r \in Requests : origin # r BY <1>5, NoneAssumption
    <2>3. QED BY <1>4, <1>5, <2>1, <2>2 DEF Unborn
  <1>13. OneCommand BY <1>4 DEF OneCommand
  <1>14. WantedIsHeld BY <1>4, <1>5, NoneAssumption DEF WantedIsHeld
  <1>15. SubmitsApart BY <1>4, <1>5 DEF SubmitsApart, Under
  <1>16. GateIsHeld BY <1>4, <1>5 DEF GateIsHeld, Under, Gated
  <1>17. ReadsKnowTheirDraft BY <1>5 DEF ReadsKnowTheirDraft
  <1>18. QED
    BY <1>9, <1>10, <1>11, <1>12, <1>13, <1>14, <1>15, <1>16, <1>17 DEF DraftInv

LEMMA NextInv ==
  ASSUME DraftInv, [Next]_vars
  PROVE  DraftInv'
  <1>1. Typed BY DEF DraftInv, Typed
  <1>2. TypeOK' BY TypeStep DEF DraftInv
  <1>3. NoDraftYet' /\ TimerIsBound' BY <1>1, NoDraftStep, TimerStep DEF DraftInv
  <1>4. Unborn' BY <1>1, <1>2, UnbornStep DEF DraftInv
  <1>5. OneCommand' BY <1>1, <1>2, OneCommandStep DEF DraftInv
  <1>6. WantedIsHeld' BY <1>1, <1>2, WantedIsHeldStep DEF DraftInv
  <1>7. SubmitsApart' /\ GateIsHeld' BY <1>1, SubmitsApartStep, GateStep
  <1>8. ReadsKnowTheirDraft' BY <1>1, ReadsStep DEF DraftInv
  <1>9. QED BY <1>2, <1>3, <1>4, <1>5, <1>6, <1>7, <1>8 DEF DraftInv

\* The dialogs, the timer and the commands under way stay in step with the draft, whatever
\* the user does between them.
THEOREM Invariance == Spec => []DraftInv
  <1>1. Init => DraftInv BY InitInv
  <1>2. DraftInv /\ [Next]_vars => DraftInv' BY NextInv
  <1>3. QED BY <1>1, <1>2, PTL DEF Spec

\* What is neither dropped nor rough nor under way is in core as the user last made it, is
\* shown in the tree and in the draft bound to it: autosave, the Save dialog, the picker's
\* quick add, Duplicate and a sibling of a method change lose nothing else.
THEOREM EditsReachCore == Spec => []EditsArrive
  <1>1. ASSUME DraftInv, NEW r \in Requests \ (rough \cup dropped), Quiet(r), tree[r] # None
        PROVE  stored[r] = wanted[r] /\ tree[r] = wanted[r] /\ (origin = r => Content(draft) = wanted[r])
    <2>1. wanted[r] = tree[r] /\ (origin = r => Content(draft) = wanted[r])
      BY <1>1 DEF DraftInv, WantedIsHeld, Quiet
    <2>2. stored[r] = tree[r] BY <1>1 DEF DraftInv, OneCommand, Quiet
    <2>3. QED BY <2>1, <2>2
  <1>2. DraftInv => EditsArrive BY <1>1 DEF EditsArrive, DraftInv
  <1>3. QED BY <1>2, Invariance, PTL

\* The confirmation is asked for every unbound draft with edits that is replaced, however
\* late the answer that replaces it.
THEOREM UnsavedStays == Spec => UnsavedIsKept
  <1>1. ASSUME DraftInv, [Next]_vars, dirty, origin = None, draft'.id # draft.id
        PROVE  (discardOpen /\ pending # None /\ ~discardOpen') \/ overtaken
    <2>1. Typed BY <1>1 DEF DraftInv, Typed
    <2>2. CASE Rests BY <1>1, <2>2 DEF Rests
    <2>3. CASE Reopens BY <1>1, <2>3 DEF Reopens, MayReplace
    <2>4. CASE Submit \/ Prepared \/ SaveAnswers
      BY <1>1, <2>4 DEF Submit, Prepared, SaveAnswers, focus
    <2>5. CASE PickMethod \/ ResetBody \/ CancelAsking \/ CommitChange \/ CommitCreate
      BY <1>1, <2>5 DEF PickMethod, ResetBody, CancelAsking, CommitChange, CommitCreate, focus
    <2>6. CASE ReadAnswers
      <3>1. UNCHANGED focus \/ \E m, b : Patch(m, b) BY <2>6 DEF ReadAnswers
      <3>2. draft'.id = draft.id BY <2>1, <3>1 DEF Patch, focus, Typed, TypeOK, DraftSlots
      <3>3. QED BY <1>1, <3>2
    <2>7. CASE SiblingAnswers
      <3>1. /\ \E c \in calls : c.do = "sibling"
            /\ Stays \/ UNCHANGED focus
        BY <2>7 DEF SiblingAnswers
      <3>2. gate.phase = "committing" BY <1>1, <3>1 DEF DraftInv, GateIsHeld, Under
      <3>3. gate \in Gates BY <2>1, <3>2 DEF Typed, TypeOK, Idle
      <3>4. gate.r # None BY <3>3, NoneAssumption DEF Gates
      <3>5. ~Stays BY <1>1, <3>4 DEF Stays
      <3>6. QED BY <1>1, <3>1, <3>5 DEF focus
    <2>8. QED BY <1>1, <2>1, <2>2, <2>3, <2>4, <2>5, <2>6, <2>7, ChangeCases
  <1>2. DraftInv /\ [Next]_vars =>
          [dirty /\ origin = None /\ draft'.id # draft.id
             => (discardOpen /\ pending # None /\ ~discardOpen') \/ overtaken]_vars
    BY <1>1
  <1>3. QED BY <1>2, Invariance, PTL DEF Spec, UnsavedIsKept

\* A draft gets a new method only from a pick that was made for it, for the request it is
\* bound to or before it was bound: never from one that the user made of another draft.
THEOREM MethodLands == Spec => MethodFindsItsDraft
  <1>1. ASSUME DraftInv, [Next]_vars, draft'.id = draft.id, draft'.method # draft.method
        PROVE  \E j \in reads \ reads' :
                 j.live /\ j.to = draft'.method /\ (j.asked \in {origin, None} \/ overtaken)
    <2>1. Typed BY <1>1 DEF DraftInv, Typed
    <2>2. CASE Rests BY <1>1, <2>2 DEF Rests
    <2>3. CASE Reopens BY <1>1, <2>1, <2>3, ReopensFacts
    <2>4. CASE Submit \/ Prepared \/ SaveAnswers
      BY <1>1, <2>4 DEF Submit, Prepared, SaveAnswers, focus
    <2>5. CASE PickMethod \/ ResetBody \/ CancelAsking \/ CommitChange \/ CommitCreate
      BY <1>1, <2>5 DEF PickMethod, ResetBody, CancelAsking, CommitChange, CommitCreate, focus
    <2>6. CASE ReadAnswers
      <3>1. PICK j \in reads :
              /\ IF Finds(j) /\ IsGrpc
                 THEN Patch(IF j.to = None THEN draft.method ELSE j.to, IF Reset(j) THEN Pristine ELSE draft.body)
                 ELSE UNCHANGED <<focus, history>>
              /\ reads' = reads \ {j}
        BY <2>6 DEF ReadAnswers
      <3>2. /\ j.live
            /\ Patch(IF j.to = None THEN draft.method ELSE j.to, IF Reset(j) THEN Pristine ELSE draft.body)
        BY <1>1, <3>1 DEF focus, Finds
      <3>3. draft'.method = IF j.to = None THEN draft.method ELSE j.to
        BY <2>1, <3>2 DEF Patch, Typed, TypeOK, DraftSlots
      <3>4. j.to = draft'.method BY <1>1, <3>3
      <3>5. j.asked \in {origin, None} \/ overtaken BY <1>1, <3>2 DEF DraftInv, ReadsKnowTheirDraft
      <3>6. j \in reads \ reads' BY <3>1
      <3>7. QED BY <3>2, <3>4, <3>5, <3>6
    <2>7. CASE SiblingAnswers
      <3>1. PICK c \in calls : c.do = "sibling" /\ (UNCHANGED focus \/ (Done(c) /\ SetDraft(c.content, c.r, Idle)))
        BY <2>7 DEF SiblingAnswers
      <3>2. CASE UNCHANGED focus BY <1>1, <3>2 DEF focus
      <3>3. CASE Done(c) /\ SetDraft(c.content, c.r, Idle)
        <4>1. draft'.id = 1 - draft.id BY <3>3 DEF SetDraft
        <4>2. QED BY <1>1, <2>1, <4>1 DEF Typed, TypeOK, DraftSlots
      <3>4. QED BY <3>1, <3>2, <3>3
    <2>8. QED BY <1>1, <2>1, <2>2, <2>3, <2>4, <2>5, <2>6, <2>7, ChangeCases
  <1>2. DraftInv /\ [Next]_vars =>
          [draft'.id = draft.id /\ draft'.method # draft.method
             => \E j \in reads \ reads' :
                  j.live /\ j.to = draft'.method /\ (j.asked \in {origin, None} \/ overtaken)]_vars
    BY <1>1
  <1>3. QED BY <1>2, Invariance, PTL DEF Spec, MethodFindsItsDraft

-----------------------------------------------------------------------------
(* VarTable: lists and sets. *)

\* A strict order in which any two members are comparable.
Orders(order, S) ==
    /\ order \subseteq S \X S
    /\ \A x \in S : <<x, x>> \notin order
    /\ \A x, y, z \in S : <<x, y>> \in order /\ <<y, z>> \in order => <<x, z>> \in order
    /\ \A x, y \in S : x = y \/ <<x, y>> \in order \/ <<y, x>> \in order

\* A finite set is listed by such an order without repetition: the place of a member is the
\* number of those before it.
LEMMA InOrderLists ==
    ASSUME NEW S, IsFiniteSet(S), NEW order, Orders(order, S)
    PROVE  /\ Cardinality(S) \in Nat
           /\ InOrder(S, order) \in [1 .. Cardinality(S) -> S]
           /\ \A i, j \in 1 .. Cardinality(S) : InOrder(S, order)[i] = InOrder(S, order)[j] => i = j
           /\ \A x \in S : \E i \in 1 .. Cardinality(S) : InOrder(S, order)[i] = x
  <1> DEFINE n == Cardinality(S)
             below(x) == {y \in S : <<y, x>> \in order}
             rank == [x \in S |-> Cardinality(below(x)) + 1]
             o == InOrder(S, order)
  <1>1. n \in Nat
    BY FS_CardinalityType
  <1>2. \A x \in S : IsFiniteSet(below(x)) /\ Cardinality(below(x)) \in Nat /\ Cardinality(below(x)) < n
    <2> TAKE x \in S
    <2>1. below(x) \in SUBSET S /\ x \notin below(x)
      BY DEF Orders
    <2> HIDE DEF below
    <2>2. IsFiniteSet(below(x)) /\ Cardinality(below(x)) <= Cardinality(S) /\ Cardinality(below(x)) # Cardinality(S)
      BY <2>1, FS_Subset
    <2>3. Cardinality(below(x)) \in Nat
      BY <2>2, FS_CardinalityType
    <2>4. QED BY <1>1, <2>2, <2>3
  <1>3. \A x, y \in S : <<x, y>> \in order => Cardinality(below(x)) < Cardinality(below(y))
    <2> TAKE x, y \in S
    <2> HAVE <<x, y>> \in order
    <2>1. below(x) \in SUBSET below(y) /\ x \in below(y) /\ x \notin below(x)
      BY DEF Orders
    <2>2. IsFiniteSet(below(y)) /\ Cardinality(below(y)) \in Nat /\ Cardinality(below(x)) \in Nat
      BY <1>2
    <2> HIDE DEF below
    <2>3. Cardinality(below(x)) <= Cardinality(below(y)) /\ Cardinality(below(x)) # Cardinality(below(y))
      BY <2>1, <2>2, FS_Subset
    <2>4. QED BY <2>2, <2>3
  <1>4. rank \in [S -> 1 .. n]
    <2> HIDE DEF below, n
    <2>1. QED BY <1>1, <1>2
  <1>5. rank \in Injection(S, 1 .. n)
    <2>1. ASSUME NEW x \in S, NEW y \in S, rank[x] = rank[y] PROVE x = y
      <3> DEFINE low == Cardinality(below(x))
                 high == Cardinality(below(y))
      <3>1. low = high /\ low \in Nat /\ high \in Nat
        <4>1. Cardinality(below(x)) + 1 = Cardinality(below(y)) + 1
          BY <2>1
        <4> HIDE DEF below
        <4>2. QED BY <1>2, <4>1
      <3>2. <<x, y>> \in order => low < high
        BY <1>3
      <3>3. <<y, x>> \in order => high < low
        BY <1>3
      <3> HIDE DEF low, high
      <3>4. QED BY <3>1, <3>2, <3>3 DEF Orders
    <2> HIDE DEF rank
    <2>2. QED BY <1>4, <2>1 DEF Injection, IsInjective
  <1>6. rank \in Surjection(S, 1 .. n)
    <2>1. IsFiniteSet(1 .. n) /\ Cardinality(1 .. n) = n
      <3> HIDE DEF n
      <3>1. QED BY <1>1, FS_Interval
    <2> HIDE DEF rank
    <2>2. QED BY <1>5, <2>1, FS_Injection
  <1>7. o = [i \in 1 .. n |-> CHOOSE x \in S : Cardinality(below(x)) = i - 1]
    BY DEF InOrder
  <1>8. \A i \in 1 .. n : o[i] \in S /\ Cardinality(below(o[i])) = i - 1
    <2> TAKE i \in 1 .. n
    <2>1. PICK x \in S : rank[x] = i
      <3> HIDE DEF rank, n
      <3>1. QED BY <1>6 DEF Surjection
    <2>2. Cardinality(below(x)) = i - 1
      <3> HIDE DEF below
      <3>1. QED BY <1>2, <2>1
    <2>3. o[i] = CHOOSE y \in S : Cardinality(below(y)) = i - 1
      <3> HIDE DEF o, below, n
      <3>1. QED BY <1>7
    <2> HIDE DEF below, o
    <2>4. QED BY <2>2, <2>3
  <1>9. o \in [1 .. n -> S]
    <2> HIDE DEF below, n
    <2>1. QED BY <1>7, <1>8
  <1>10. \A i, j \in 1 .. n : o[i] = o[j] => i = j
    <2> HIDE DEF o, below, n
    <2>1. QED BY <1>1, <1>8
  <1>11. \A x \in S : \E i \in 1 .. n : o[i] = x
    <2> TAKE x \in S
    <2>1. rank[x] \in 1 .. n
      <3> HIDE DEF rank, n
      <3>1. QED BY <1>4
    <2>2. rank[o[rank[x]]] = rank[x]
      <3>1. o[rank[x]] \in S /\ Cardinality(below(o[rank[x]])) = rank[x] - 1
        <4> HIDE DEF rank, o, below, n
        <4>1. QED BY <1>8, <2>1
      <3> HIDE DEF below, o, n
      <3>2. QED BY <1>2, <3>1
    <2>3. o[rank[x]] = x
      <3>1. o[rank[x]] \in S
        <4> HIDE DEF rank, o, n
        <4>1. QED BY <1>9, <2>1
      <3> HIDE DEF rank, o, n
      <3>2. QED BY <1>5, <2>2, <3>1 DEF Injection, IsInjective
    <2>4. QED BY <2>1, <2>3
  <1>12. QED BY <1>1, <1>9, <1>10, <1>11

\* The places of a sequence that are in a set, by number.
LEMMA PlacesInOrder ==
    ASSUME NEW n \in Nat, NEW S \in SUBSET (1 .. n)
    PROVE  IsFiniteSet(S) /\ Orders({p \in S \X S : p[1] < p[2]}, S)
  <1>1. IsFiniteSet(S)
    <2>1. IsFiniteSet(1 .. n)
      BY FS_Interval
    <2>2. QED BY <2>1, FS_Subset
  <1>2. \A x \in S : x \in Nat
    OBVIOUS
  <1>3. QED BY <1>1, <1>2 DEF Orders

\* What is kept of a sequence is what it has in common with the set, nothing twice that it
\* does not have twice.
LEMMA FilteredParts ==
    ASSUME NEW A, NEW seq \in Seq(A), NEW S
    PROVE  /\ Filtered(seq, S) \in Seq(A)
           /\ ToSet(Filtered(seq, S)) = ToSet(seq) \cap S
           /\ (\A i, j \in DOMAIN seq : seq[i] = seq[j] => i = j) =>
                \A i, j \in DOMAIN Filtered(seq, S) : Filtered(seq, S)[i] = Filtered(seq, S)[j] => i = j
  <1> DEFINE places == {i \in DOMAIN seq : seq[i] \in S}
             order == {p \in places \X places : p[1] < p[2]}
             listed == InOrder(places, order)
             n == Cardinality(places)
             kept == Filtered(seq, S)
  <1>1. Len(seq) \in Nat /\ DOMAIN seq = 1 .. Len(seq) /\ places \in SUBSET (1 .. Len(seq))
    OBVIOUS
  <1>2. IsFiniteSet(places) /\ Orders(order, places)
    <2> HIDE DEF places
    <2>1. QED BY <1>1, PlacesInOrder
  <1>3. /\ n \in Nat
        /\ listed \in [1 .. n -> places]
        /\ \A i, j \in 1 .. n : listed[i] = listed[j] => i = j
        /\ \A x \in places : \E i \in 1 .. n : listed[i] = x
    <2> HIDE DEF places, order
    <2>1. QED BY <1>2, InOrderLists
  <1>4. kept = [i \in DOMAIN listed |-> seq[listed[i]]]
    BY DEF Filtered
  <1> HIDE DEF listed, n, order, kept
  <1>5. DOMAIN kept = 1 .. n /\ \A i \in 1 .. n : kept[i] = seq[listed[i]] /\ listed[i] \in DOMAIN seq /\ seq[listed[i]] \in S
    BY <1>3, <1>4
  <1>6. kept \in Seq(A)
    <2>1. \A i \in 1 .. n : kept[i] \in A
      BY <1>1, <1>5
    <2>2. kept = [i \in 1 .. n |-> kept[i]]
      BY <1>4, <1>5
    <2>3. kept \in [1 .. n -> A]
      BY ONLY <2>1, <2>2
    <2>4. QED BY <1>3, <2>3, SeqDef
  <1>7. ToSet(kept) = ToSet(seq) \cap S
    <2>1. ToSet(kept) = {kept[i] : i \in 1 .. n} /\ ToSet(seq) = {seq[i] : i \in DOMAIN seq}
      BY <1>5 DEF ToSet
    <2>2. ASSUME NEW x \in ToSet(kept) PROVE x \in ToSet(seq) \cap S
      BY <1>5, <2>1, <2>2
    <2>3. ASSUME NEW x \in ToSet(seq) \cap S PROVE x \in ToSet(kept)
      <3>1. PICK i \in places : seq[i] = x
        BY <2>1, <2>3
      <3>2. PICK k \in 1 .. n : listed[k] = i
        BY <1>3
      <3>3. QED BY <1>5, <2>1, <3>1, <3>2
    <2>4. QED BY <2>2, <2>3
  <1>8. (\A i, j \in DOMAIN seq : seq[i] = seq[j] => i = j) => \A i, j \in DOMAIN kept : kept[i] = kept[j] => i = j
    BY <1>3, <1>5
  <1>9. QED BY <1>6, <1>7, <1>8 DEF kept

LEMMA BetweenParts ==
    ASSUME NEW A, NEW a \in Seq(A), NEW e \in A, NEW b \in Seq(A)
    PROVE  LET u == (a \o <<e>>) \o b
           IN  /\ u \in Seq(A) /\ DOMAIN u = 1 .. Len(a) + 1 + Len(b)
               /\ \A i \in 1 .. Len(a) : u[i] = a[i]
               /\ u[Len(a) + 1] = e
               /\ \A i \in Len(a) + 2 .. Len(a) + 1 + Len(b) : u[i] = b[i - Len(a) - 1]
  OBVIOUS

LEMMA JoinedParts ==
    ASSUME NEW A, NEW a \in Seq(A), NEW b \in Seq(A)
    PROVE  a \o b \in Seq(A) /\ ToSet(a \o b) = ToSet(a) \cup ToSet(b)
  <1> DEFINE z == a \o b
  <1>1. /\ z \in Seq(A) /\ Len(a) \in Nat /\ Len(b) \in Nat /\ Len(z) = Len(a) + Len(b)
        /\ DOMAIN a = 1 .. Len(a) /\ DOMAIN b = 1 .. Len(b) /\ DOMAIN z = 1 .. Len(z)
        /\ \A i \in 1 .. Len(a) : z[i] = a[i]
        /\ \A i \in 1 .. Len(b) : z[Len(a) + i] = b[i]
        /\ \A i \in Len(a) + 1 .. Len(z) : z[i] = b[i - Len(a)]
    OBVIOUS
  <1> HIDE DEF z
  <1>2. ASSUME NEW x \in ToSet(z) PROVE x \in ToSet(a) \cup ToSet(b)
    <2>1. PICK i \in 1 .. Len(z) : x = z[i]
      BY <1>1, <1>2 DEF ToSet
    <2>2. i \in 1 .. Len(a) \/ (i \in Len(a) + 1 .. Len(z) /\ i - Len(a) \in 1 .. Len(b))
      BY <1>1
    <2>3. QED BY <1>1, <2>1, <2>2 DEF ToSet
  <1>3. ASSUME NEW x \in ToSet(a) \cup ToSet(b) PROVE x \in ToSet(z)
    <2>1. CASE x \in ToSet(a)
      <3>1. PICK i \in 1 .. Len(a) : x = a[i]
        BY <1>1, <2>1 DEF ToSet
      <3>2. i \in DOMAIN z /\ z[i] = x
        BY <1>1, <3>1
      <3>3. QED BY <3>2 DEF ToSet
    <2>2. CASE x \in ToSet(b)
      <3>1. PICK i \in 1 .. Len(b) : x = b[i]
        BY <1>1, <2>2 DEF ToSet
      <3>2. Len(a) + i \in DOMAIN z /\ z[Len(a) + i] = x
        BY <1>1, <3>1
      <3>3. QED BY <3>2 DEF ToSet
    <2>3. QED BY <1>3, <2>1, <2>2
  <1>4. QED BY <1>1, <1>2, <1>3 DEF z

Modes == {"oldest", "newest", "name-asc", "name-desc"}

\* What is known of the parts of a table.
LEMMA TableParts ==
    ASSUME NEW t \in TableType
    PROVE  /\ t.rows \in Seq(RowType) /\ t.seq \in Nat
           /\ DOMAIN t.rows = 1 .. Len(t.rows) /\ Len(t.rows) \in Nat
           /\ \A i \in DOMAIN t.rows : t.rows[i] \in RowType /\ t.rows[i].id \in Nat /\ t.rows[i].key \in Everything
           /\ Ids(t.rows) = {t.rows[i].id : i \in DOMAIN t.rows}
           /\ Ids(t.rows) \subseteq Nat
           /\ t.query \in SUBSET Everything /\ t.anyway \in SUBSET Nat
           /\ t.hold.shown \in Seq(Nat) /\ t.hold.hidden \in SUBSET Nat
           /\ t.hold.sort \in SortModes \cup {"none"}
           /\ t.adding.id \in Int /\ t.adding.key \in Everything /\ t.adding.val \in Values
           /\ t.undo.row.id \in Int /\ t.undo.row.key \in Everything /\ t.undo.row.val \in Values
           /\ t.undo.index \in Nat
           /\ t.field.kind \in {"none", "key", "val"} /\ t.field.id \in Int
  <1>1. t.rows \in Seq(RowType) /\ t.seq \in Nat /\ t.query \in SUBSET Everything /\ t.anyway \in SUBSET Nat
    BY DEF TableType
  <1>2. t.hold.shown \in Seq(Nat) /\ t.hold.hidden \in SUBSET Nat /\ t.hold.sort \in SortModes \cup {"none"}
    BY DEF TableType
  <1>3. /\ t.adding.id \in Int /\ t.adding.key \in Everything /\ t.adding.val \in Values
        /\ t.undo.row.id \in Int /\ t.undo.row.key \in Everything /\ t.undo.row.val \in Values
        /\ t.undo.index \in Nat
        /\ t.field.kind \in {"none", "key", "val"} /\ t.field.id \in Int
    BY DEF TableType
  <1>4. DOMAIN t.rows = 1 .. Len(t.rows) /\ Len(t.rows) \in Nat /\ \A i \in DOMAIN t.rows : t.rows[i] \in RowType
    BY <1>1
  <1>5. \A i \in DOMAIN t.rows : t.rows[i].id \in Nat /\ t.rows[i].key \in Everything
    BY <1>4 DEF RowType
  <1>6. Ids(t.rows) = {t.rows[i].id : i \in DOMAIN t.rows}
    BY DEF Ids, ToSet
  <1>7. QED BY <1>1, <1>2, <1>3, <1>4, <1>5, <1>6

LEMMA EverythingIsNumbers == Everything \subseteq Nat
  BY TableAssumption DEF Everything, Blank

LEMMA ProjectedKeys ==
    ASSUME NEW t \in TableType, FieldFits(t)
    PROVE  \A i \in DOMAIN t.rows : Projected(t)[i].key \in Everything
  <1> TAKE i \in DOMAIN t.rows
  <1>1. t.rows[i] \in RowType
    BY TableParts
  <1>2. Projected(t)[i] = IF t.field.kind = "key" /\ t.field.id = t.rows[i].id
                          THEN [t.rows[i] EXCEPT !.key = t.field.text] ELSE t.rows[i]
    BY DEF Projected
  <1>3. t.field.kind = "key" => t.field.text \in Everything
    BY DEF FieldFits, NoField
  <1>4. QED BY <1>1, <1>2, <1>3 DEF RowType

\* Whatever the mode, the rows are arranged by a strict order.
LEMMA PrecedesOrders ==
    ASSUME NEW t \in TableType, FieldFits(t), NEW mode \in Modes
    PROVE  Orders(Precedes(t, mode), Matches(t))
  <1> DEFINE M == Matches(t)
             key(i) == Projected(t)[i].key
             R == Precedes(t, mode)
  <1>1. \A i \in M : i \in Nat /\ key(i) \in Nat
    <2>1. \A i \in M : i \in DOMAIN t.rows
      BY DEF Matches
    <2> HIDE DEF M
    <2>2. \A i \in M : i \in Nat
      BY <2>1, TableParts
    <2>3. QED BY <2>1, <2>2, ProjectedKeys, EverythingIsNumbers
  <1>2. R \subseteq M \X M
    BY DEF Precedes
  <1>a. CASE mode = "oldest"
    <2>1. \A i, j \in M : <<i, j>> \in R <=> i < j
      <3> HIDE DEF M
      <3>1. R = {p \in M \X M : p[1] < p[2]}
        BY <1>a DEF Precedes, M
      <3> HIDE DEF R
      <3>2. QED BY <3>1
    <2> HIDE DEF R, M
    <2>2. QED BY <1>1, <1>2, <2>1 DEF Orders, R, M
  <1>b. CASE mode = "newest"
    <2>1. \A i, j \in M : <<i, j>> \in R <=> i > j
      <3> HIDE DEF M
      <3>1. R = {p \in M \X M : p[1] > p[2]}
        BY <1>b DEF Precedes, M
      <3> HIDE DEF R
      <3>2. QED BY <3>1
    <2> HIDE DEF R, M
    <2>2. QED BY <1>1, <1>2, <2>1 DEF Orders, R, M
  <1>c. CASE mode = "name-asc"
    <2>1. \A i, j \in M : <<i, j>> \in R <=> key(i) < key(j) \/ (key(i) = key(j) /\ i < j)
      <3> HIDE DEF M
      <3>1. R = {p \in M \X M : key(p[1]) < key(p[2]) \/ (key(p[1]) = key(p[2]) /\ p[1] < p[2])}
        BY <1>c DEF Precedes, M
      <3> HIDE DEF R, key
      <3>2. QED BY <3>1
    <2> HIDE DEF R, M, key
    <2>2. QED BY <1>1, <1>2, <2>1 DEF Orders, R, M
  <1>d. CASE mode = "name-desc"
    <2>1. \A i, j \in M : <<i, j>> \in R <=> key(i) > key(j) \/ (key(i) = key(j) /\ i < j)
      <3> HIDE DEF M
      <3>1. R = {p \in M \X M : key(p[1]) > key(p[2]) \/ (key(p[1]) = key(p[2]) /\ p[1] < p[2])}
        BY <1>d DEF Precedes, M
      <3> HIDE DEF R, key
      <3>2. QED BY <3>1
    <2> HIDE DEF R, M, key
    <2>2. QED BY <1>1, <1>2, <2>1 DEF Orders, R, M
  <1>3. QED BY <1>a, <1>b, <1>c, <1>d DEF Modes

\* What is arranged is each row that matches.
LEMMA ArrangedShows ==
    ASSUME NEW t \in TableType, FieldFits(t), NEW mode \in Modes
    PROVE  /\ Arranged(t, mode) \in Seq(Nat)
           /\ ToSet(Arranged(t, mode)) = {t.rows[i].id : i \in Matches(t)}
           /\ Matches(t) \subseteq DOMAIN t.rows
  <1> DEFINE M == Matches(t)
             n == Cardinality(M)
             order == InOrder(M, Precedes(t, mode))
             shown == Arranged(t, mode)
  <1>1. M \subseteq DOMAIN t.rows
    BY DEF Matches
  <1>2. IsFiniteSet(M)
    <2> HIDE DEF M
    <2>1. IsFiniteSet(1 .. Len(t.rows))
      BY TableParts, FS_Interval
    <2>2. QED BY <1>1, <2>1, TableParts, FS_Subset
  <1>3. /\ n \in Nat /\ order \in [1 .. n -> M]
        /\ \A x \in M : \E i \in 1 .. n : order[i] = x
    BY <1>2, PrecedesOrders, InOrderLists
  <1>4. shown = [i \in DOMAIN order |-> t.rows[order[i]].id]
    BY DEF Arranged
  <1> HIDE DEF M, n, order, shown
  <1>5. \A i \in 1 .. n : shown[i] = t.rows[order[i]].id /\ order[i] \in M /\ t.rows[order[i]].id \in Nat
    BY <1>1, <1>3, <1>4, TableParts
  <1>6. DOMAIN shown = 1 .. n /\ shown = [i \in 1 .. n |-> shown[i]]
    BY <1>3, <1>4
  <1>7. shown \in Seq(Nat)
    <2>1. shown \in [1 .. n -> Nat]
      BY ONLY <1>5, <1>6
    <2>2. QED BY <1>3, <2>1, SeqDef
  <1>8. ToSet(shown) = {shown[i] : i \in 1 .. n}
    BY <1>6 DEF ToSet
  <1>9. ToSet(shown) = {t.rows[i].id : i \in M}
    <2>1. \A k \in 1 .. n : shown[k] \in {t.rows[i].id : i \in M}
      BY <1>5
    <2>2. ASSUME NEW i \in M PROVE \E k \in 1 .. n : shown[k] = t.rows[i].id
      BY <1>3, <1>5
    <2>3. QED BY ONLY <1>8, <2>1, <2>2
  <1>10. QED BY <1>1, <1>7, <1>9 DEF M, shown

\* Nothing filters a row that is shown anyway, or any row when nothing is searched for.
LEMMA AnywayMatches ==
    ASSUME NEW t \in TableType, FieldFits(t), NEW i \in DOMAIN t.rows,
           t.query = Everything \/ t.rows[i].id \in t.anyway
    PROVE  i \in Matches(t)
  BY ProjectedKeys DEF Matches

\* A held layout shows what it has not hidden.
LEMMA HeldShows ==
    ASSUME NEW t \in TableType, t.hold.hidden \cap ToSet(t.hold.shown) = {}
    PROVE  ToSet(HeldRows(t)) = Ids(t.rows) \ t.hold.hidden
  <1> DEFINE held == ToSet(t.hold.shown) \cup t.hold.hidden
             ids == [i \in DOMAIN t.rows |-> t.rows[i].id]
             a == Filtered(t.hold.shown, Ids(t.rows))
             b == Filtered(ids, Ids(t.rows) \ held)
  <1>1. ids \in Seq(Nat) /\ ToSet(ids) = Ids(t.rows)
    <2>1. DOMAIN ids = 1 .. Len(t.rows) /\ \A i \in DOMAIN t.rows : ids[i] = t.rows[i].id
      BY TableParts
    <2>2. ids \in Seq(Nat)
      BY <2>1, TableParts
    <2>3. ToSet(ids) = {ids[i] : i \in DOMAIN t.rows}
      BY <2>1, TableParts DEF ToSet
    <2> HIDE DEF ids
    <2>4. {ids[i] : i \in DOMAIN t.rows} = {t.rows[i].id : i \in DOMAIN t.rows}
      BY ONLY <2>1
    <2>5. Ids(t.rows) = {t.rows[i].id : i \in DOMAIN t.rows}
      BY TableParts
    <2>6. QED BY ONLY <2>2, <2>3, <2>4, <2>5
  <1>2. a \in Seq(Nat) /\ ToSet(a) = ToSet(t.hold.shown) \cap Ids(t.rows)
    BY TableParts, FilteredParts
  <1>3. b \in Seq(Nat) /\ ToSet(b) = Ids(t.rows) \cap (Ids(t.rows) \ held)
    <2> HIDE DEF ids, held
    <2>1. QED BY <1>1, FilteredParts
  <1>4. HeldRows(t) = a \o b
    BY DEF HeldRows
  <1>5. ToSet(HeldRows(t)) = ToSet(a) \cup ToSet(b)
    <2> HIDE DEF a, b
    <2>1. QED BY <1>2, <1>3, <1>4, JoinedParts
  <1> HIDE DEF a, b
  <1>6. QED BY <1>2, <1>3, <1>5

-----------------------------------------------------------------------------
(* What the handlers are made of. *)

SameButSave(t, u) ==
    /\ u.rows = t.rows /\ u.seq = t.seq /\ u.field = t.field /\ u.adding = t.adding /\ u.undo = t.undo
    /\ u.query = t.query /\ u.hold = t.hold /\ u.anyway = t.anyway

QueueType == [head : WriteType, acked : WriteType, flight : WriteType, timer : BOOLEAN, sendOnSettle : BOOLEAN, failed : BOOLEAN]

LEMMA StorableType ==
    ASSUME NEW vs \in Seq(Keys \X Values)
    PROVE  [variables |-> vs] \in VariablesType
  <1>1. \A i \in 1 .. Len(vs) : vs[i] \in Everything \X Values
    <2>1. \A i \in 1 .. Len(vs) : vs[i] \in Keys \X Values
      OBVIOUS
    <2>2. QED BY <2>1 DEF Everything
  <1>2. vs \in Seq(Everything \X Values)
    BY <1>1
  <1>3. QED BY <1>2 DEF VariablesType

LEMMA NothingIsNotStorable ==
    /\ NoVariables \in VariablesType /\ Writes!NoFlight \in WriteType
    /\ ~IsStorable(NoVariables)
  <1>1. <<<<Blank, Blank>>>> \in Seq(Everything \X Values)
    BY TableAssumption DEF Everything
  <1>2. NoVariables \in VariablesType
    BY <1>1 DEF NoVariables, VariablesType
  <1>3. Writes!NoFlight \in WriteType
    BY <1>2 DEF Writes!NoFlight, WriteType
  <1>4. ~IsStorable(NoVariables)
    <2>1. SUFFICES ASSUME <<<<Blank, Blank>>>> \in Seq(Keys \X Values) PROVE FALSE
      BY DEF IsStorable, NoVariables
    <2>2. <<<<Blank, Blank>>>>[1] \in Keys \X Values
      BY <2>1
    <2>3. Blank \in Keys
      BY <2>2
    <2>4. QED BY <2>3, TableAssumption
  <1>5. QED BY <1>2, <1>3, <1>4

\* Sending what is owed changes neither what is acknowledged nor the head.
LEMMA TrySendSound ==
    ASSUME NEW q \in QueueType, GoalsAreSound(q)
    PROVE  LET u == Writes!TrySend(q)
           IN  u \in QueueType /\ GoalsAreSound(u) /\ u.head = q.head /\ u.acked = q.acked
  <1> DEFINE u == Writes!TrySend(q)
  <1>1. CASE ~Writes!Owed(q)
    <2>1. u = [q EXCEPT !.sendOnSettle = FALSE]
      BY <1>1 DEF Writes!TrySend
    <2>2. QED BY <2>1 DEF QueueType, GoalsAreSound
  <1>2. CASE Writes!Owed(q) /\ q.flight # Writes!NoFlight
    <2>1. u = [q EXCEPT !.sendOnSettle = q.flight.rev # q.head.rev]
      BY <1>2 DEF Writes!TrySend
    <2>2. QED BY <2>1 DEF QueueType, GoalsAreSound
  <1>3. CASE Writes!Owed(q) /\ q.flight = Writes!NoFlight
    <2>1. u = [q EXCEPT !.flight = q.head, !.sendOnSettle = FALSE, !.timer = FALSE]
      BY <1>3 DEF Writes!TrySend
    <2>2. q.head.goal # NoVariables
      BY <1>3 DEF Writes!Owed
    <2>3. QED BY <2>1, <2>2 DEF QueueType, GoalsAreSound
  <1>4. QED BY <1>1, <1>2, <1>3

LEMMA FlushSound ==
    ASSUME NEW q \in QueueType, GoalsAreSound(q)
    PROVE  LET u == Writes!Flush(q)
           IN  u \in QueueType /\ GoalsAreSound(u) /\ u.head = q.head /\ u.acked = q.acked
  <1> DEFINE p == [q EXCEPT !.timer = FALSE]
  <1>1. p \in QueueType /\ GoalsAreSound(p) /\ p.head = q.head /\ p.acked = q.acked
    BY DEF QueueType, GoalsAreSound
  <1>2. Writes!Flush(q) = Writes!TrySend(p)
    BY DEF Writes!Flush
  <1> HIDE DEF p
  <1>3. QED BY <1>1, <1>2, TrySendSound

LEMMA EditedSound ==
    ASSUME NEW q \in QueueType, GoalsAreSound(q), NEW goal \in VariablesType, IsStorable(goal)
    PROVE  LET u == Writes!Edited(q, goal, "now")
           IN  u \in QueueType /\ GoalsAreSound(u) /\ u.head.goal = goal /\ u.acked = q.acked
  <1> DEFINE p == [q EXCEPT !.head = [rev |-> @.rev + 1, goal |-> goal], !.timer = "now" = "debounce"]
  <1>1. p.head = [rev |-> q.head.rev + 1, goal |-> goal] /\ p.acked = q.acked /\ p.flight = q.flight
    BY DEF QueueType
  <1>2. p.head \in WriteType
    BY <1>1 DEF QueueType, WriteType
  <1>3. p \in QueueType /\ GoalsAreSound(p) /\ p.head.goal = goal /\ p.acked = q.acked
    BY <1>1, <1>2 DEF QueueType, GoalsAreSound
  <1>4. Writes!Edited(q, goal, "now") = Writes!TrySend(p)
    BY DEF Writes!Edited
  <1> HIDE DEF p
  <1>5. QED BY <1>3, <1>4, TrySendSound

LEMMA MarkInvalidSound ==
    ASSUME NEW q \in QueueType, GoalsAreSound(q)
    PROVE  LET u == Writes!MarkInvalid(q)
           IN  u \in QueueType /\ GoalsAreSound(u) /\ u.acked = q.acked
  <1> DEFINE p == [q EXCEPT !.head = [rev |-> @.rev + 1, goal |-> NoVariables], !.timer = FALSE, !.sendOnSettle = FALSE]
  <1>1. p.head = [rev |-> q.head.rev + 1, goal |-> NoVariables] /\ p.acked = q.acked /\ p.flight = q.flight
    BY DEF QueueType
  <1>2. p.head \in WriteType
    BY <1>1, NothingIsNotStorable DEF QueueType, WriteType
  <1>3. p \in QueueType /\ GoalsAreSound(p)
    BY <1>1, <1>2 DEF QueueType, GoalsAreSound
  <1>4. Writes!MarkInvalid(q) = p
    BY DEF Writes!MarkInvalid
  <1>5. QED BY <1>1, <1>3, <1>4

LEMMA SettledSound ==
    ASSUME NEW q \in QueueType, GoalsAreSound(q), q.flight # Writes!NoFlight, NEW ok \in BOOLEAN
    PROVE  Writes!Settled(q, ok) \in QueueType /\ GoalsAreSound(Writes!Settled(q, ok))
  <1> DEFINE p == IF ok THEN [q EXCEPT !.acked = q.flight, !.flight = Writes!NoFlight, !.failed = FALSE]
                  ELSE [q EXCEPT !.flight = Writes!NoFlight, !.failed = TRUE]
  <1>1. p \in QueueType /\ GoalsAreSound(p)
    <2>1. CASE ok
      <3>1. p = [q EXCEPT !.acked = q.flight, !.flight = Writes!NoFlight, !.failed = FALSE]
        BY <2>1
      <3>2. QED BY <3>1, NothingIsNotStorable DEF QueueType, GoalsAreSound
    <2>2. CASE ~ok
      <3>1. p = [q EXCEPT !.flight = Writes!NoFlight, !.failed = TRUE]
        BY <2>2
      <3>2. QED BY <3>1, NothingIsNotStorable DEF QueueType, GoalsAreSound
    <2>3. QED BY <2>1, <2>2
  <1>2. Writes!Settled(q, ok) = IF p.sendOnSettle THEN Writes!TrySend(p) ELSE p
    BY DEF Writes!Settled
  <1> HIDE DEF p
  <1>3. QED BY <1>1, <1>2, TrySendSound

\* Two rows are of one name, or one has none: what makes a draft unsound.
LEMMA SoundMeans ==
    ASSUME NEW rows \in Seq(RowType), \A i, j \in DOMAIN rows : rows[i].id = rows[j].id => i = j
    PROVE  IsSound(rows) <=> /\ \A i \in DOMAIN rows : rows[i].key # Blank
                            /\ \A i, j \in DOMAIN rows : rows[i].key = rows[j].key => i = j
  <1>1. ToSet(rows) = {rows[i] : i \in DOMAIN rows}
    BY DEF ToSet
  <1>2. BlankRows(rows) = {} <=> \A r \in ToSet(rows) : r.key # Blank
    BY DEF BlankRows
  <1>3. TwinRows(rows) = {} <=> \A r, o \in ToSet(rows) : ~(r.key # Blank /\ o.id # r.id /\ o.key = r.key)
    BY DEF TwinRows
  <1>4. IsSound(rows) <=> BlankRows(rows) = {} /\ TwinRows(rows) = {}
    BY DEF IsSound, IssuesOf
  <1>5. QED BY <1>1, <1>2, <1>3, <1>4

\* The variables of a sound draft can be stored.
LEMMA SoundIsStorable ==
    ASSUME NEW rows \in Seq(RowType), \A i, j \in DOMAIN rows : rows[i].id = rows[j].id => i = j, IsSound(rows)
    PROVE  VariablesOf(rows) \in VariablesType /\ IsStorable(VariablesOf(rows))
  <1> DEFINE vs == [i \in DOMAIN rows |-> <<rows[i].key, rows[i].val>>]
  <1>1. DOMAIN rows = 1 .. Len(rows) /\ Len(rows) \in Nat /\ \A i \in DOMAIN rows : rows[i] \in RowType
    OBVIOUS
  <1>2. \A i \in DOMAIN rows : rows[i].key \in Keys /\ rows[i].val \in Values
    BY <1>1, SoundMeans DEF RowType, Everything
  <1>3. vs \in Seq(Keys \X Values)
    BY <1>1, <1>2
  <1>4. \A i, j \in DOMAIN vs : vs[i][1] = vs[j][1] => i = j
    BY SoundMeans
  <1>5. VariablesOf(rows) = [variables |-> vs]
    BY DEF VariablesOf
  <1> HIDE DEF vs
  <1>6. QED BY <1>3, <1>4, <1>5, StorableType DEF IsStorable

\* stageSave: the save is told, and nothing else changes.
LEMMA StageParts ==
    ASSUME NEW t \in TableType, RowsAreApart(t), GoalsAreSound(t.save)
    PROVE  LET u == StageRows(t)
           IN  /\ u \in TableType /\ SameButSave(t, u) /\ GoalsAreSound(u.save)
               /\ u.save.acked = t.save.acked
               /\ IsSound(t.rows) => u.save.head.goal = VariablesOf(t.rows)
  <1> DEFINE u == StageRows(t)
             q == IF IsSound(t.rows) THEN Writes!Edited(t.save, VariablesOf(t.rows), "now") ELSE Writes!MarkInvalid(t.save)
  <1>1. u = [t EXCEPT !.save = q]
    BY DEF StageRows
  <1>2. t.save \in QueueType /\ t.rows \in Seq(RowType)
    BY DEF TableType, QueueType
  <1>3. /\ q \in QueueType /\ GoalsAreSound(q) /\ q.acked = t.save.acked
        /\ IsSound(t.rows) => q.head.goal = VariablesOf(t.rows)
    <2>1. CASE IsSound(t.rows)
      <3>1. VariablesOf(t.rows) \in VariablesType /\ IsStorable(VariablesOf(t.rows))
        BY <1>2, <2>1, SoundIsStorable DEF RowsAreApart
      <3>2. q = Writes!Edited(t.save, VariablesOf(t.rows), "now")
        BY <2>1
      <3> HIDE DEF q
      <3>3. QED BY <1>2, <3>1, <3>2, EditedSound
    <2>2. CASE ~IsSound(t.rows)
      <3>1. q = Writes!MarkInvalid(t.save)
        BY <2>2
      <3> HIDE DEF q
      <3>2. QED BY <1>2, <2>2, <3>1, MarkInvalidSound
    <2>3. QED BY <2>1, <2>2
  <1> HIDE DEF q
  <1>4. u.save = q /\ SameButSave(t, u) /\ u \in TableType
    <2> HIDE DEF u
    <2>1. u.save = q /\ SameButSave(t, u)
      BY <1>1, <1>3 DEF TableType, SameButSave
    <2>2. u \in TableType
      BY <1>1, <1>3 DEF TableType, QueueType
    <2>3. QED BY <2>1, <2>2
  <1>5. QED BY <1>3, <1>4

\* What an operator may do to a table: rows keep their ids, and what is hidden stays apart.
SameButRowsAndSave(t, u) ==
    /\ Ids(u.rows) = Ids(t.rows) /\ u.seq = t.seq /\ u.adding = t.adding /\ u.undo = t.undo
    /\ u.query = t.query /\ u.hold = t.hold /\ u.anyway = t.anyway

\* What becomes of a draft whose rows are replaced.
LEMMA StageKeeps ==
    ASSUME NEW t, TableOK(t)
    PROVE  LET u == StageRows(t)
           IN  /\ TableOK(u) /\ SameButSave(t, u) /\ u.save.acked = t.save.acked
               /\ IsSound(t.rows) => u.save.head.goal = VariablesOf(t.rows)
  <1> DEFINE u == StageRows(t)
  <1>1. /\ u \in TableType /\ SameButSave(t, u) /\ GoalsAreSound(u.save)
        /\ u.save.acked = t.save.acked
        /\ IsSound(t.rows) => u.save.head.goal = VariablesOf(t.rows)
    BY StageParts DEF TableOK
  <1> HIDE DEF u
  <1>2. RowsAreApart(u) /\ OthersAreApart(u) /\ FieldFits(u)
    BY <1>1 DEF TableOK, SameButSave, RowsAreApart, OthersAreApart, FieldFits, Adding
  <1>3. QED BY <1>1, <1>2 DEF TableOK, u

LEMMA NoFieldParts ==
    /\ NoField \in [kind : {"none", "key", "val"}, id : Int, text : Everything \cup Values]
    /\ NoField.kind = "none"
    /\ NoRow \in [id : Int, key : Everything, val : Values] /\ NoRow.id = -1 /\ NoRow.key = Blank
    /\ NoUndo \in [row : [id : Int, key : Everything, val : Values], index : Nat]
    /\ NoUndo.row.id = -1
  BY TableAssumption DEF NoField, NoRow, NoUndo, Blank, Everything

\* A row that an open cell is committed to.
LEMMA PatchedRow ==
    ASSUME NEW r \in RowType, NEW kind \in {"key", "val"}, NEW text,
           text \in IF kind = "key" THEN Everything ELSE Values
    PROVE  WithPart(r, kind, text) \in RowType /\ WithPart(r, kind, text).id = r.id
  BY DEF WithPart, RowType

\* A committed cell: its row has the text, nothing else of the draft has changed.
LEMMA CommitFieldKeeps ==
    ASSUME NEW t, TableOK(t)
    PROVE  LET u == CommitField(t)
           IN  /\ TableOK(u) /\ u.field = NoField /\ SameButRowsAndSave(t, u)
               /\ t.field = NoField => u = t
               /\ DOMAIN u.rows = DOMAIN t.rows
               /\ \A i \in DOMAIN t.rows : u.rows[i].id = t.rows[i].id
               /\ \A i \in DOMAIN t.rows : t.rows[i].id # t.field.id => u.rows[i] = t.rows[i]
               /\ u.save.acked = t.save.acked
               /\ u.rows = t.rows \/ (IsSound(u.rows) => u.save.head.goal = VariablesOf(u.rows))
               /\ u.rows = t.rows => u.save = t.save
  <1> DEFINE u == CommitField(t)
             f == t.field
             next == [t EXCEPT !.field = NoField]
             Patched(r) == IF r.id # f.id THEN r ELSE WithPart(r, f.kind, f.text)
             rows == [i \in DOMAIN t.rows |-> Patched(t.rows[i])]
             staged == [next EXCEPT !.rows = rows]
  <1>1. t \in TableType /\ RowsAreApart(t) /\ GoalsAreSound(t.save) /\ OthersAreApart(t) /\ FieldFits(t)
    BY DEF TableOK
  <1>2. next \in TableType /\ next.field = NoField
        /\ next.rows = t.rows /\ next.seq = t.seq /\ next.adding = t.adding /\ next.undo = t.undo
        /\ next.query = t.query /\ next.hold = t.hold /\ next.anyway = t.anyway /\ next.save = t.save
    BY <1>1, NoFieldParts DEF TableType
  <1>3. u = IF f = NoField \/ rows = t.rows THEN next ELSE StageRows(staged)
    BY DEF CommitField
  <1>4. CASE f = NoField \/ rows = t.rows
    <2>1. u = next
      BY <1>3, <1>4
    <2> HIDE DEF next, u
    <2>2. TableOK(u)
      BY <1>1, <1>2, <2>1 DEF TableOK, RowsAreApart, OthersAreApart, FieldFits, Adding
    <2>3. t.field = NoField => u = t
      <3>1. ASSUME t.field = NoField PROVE [t EXCEPT !.field = NoField] = t
        BY <1>1, <3>1 DEF TableType
      <3>2. QED BY <2>1, <3>1 DEF next
    <2>4. QED BY <1>2, <2>1, <2>2, <2>3 DEF SameButRowsAndSave, u
  <1>5. CASE ~(f = NoField \/ rows = t.rows)
    <2>1. f.kind \in {"key", "val"} /\ f.text \in IF f.kind = "key" THEN Everything ELSE Values
      BY <1>1, <1>5 DEF FieldFits
    <2>2. \A i \in DOMAIN t.rows : rows[i] \in RowType /\ rows[i].id = t.rows[i].id
      <3> TAKE i \in DOMAIN t.rows
      <3>1. t.rows[i] \in RowType
        BY <1>1, TableParts
      <3>2. rows[i] = Patched(t.rows[i])
        OBVIOUS
      <3> HIDE DEF rows
      <3>3. QED BY <2>1, <3>1, <3>2, PatchedRow
    <2>3. DOMAIN rows = DOMAIN t.rows /\ \A i \in DOMAIN t.rows : t.rows[i].id # f.id => rows[i] = t.rows[i]
      OBVIOUS
    <2>4. rows \in Seq(RowType)
      <3>1. rows = [i \in 1 .. Len(t.rows) |-> rows[i]]
        BY <1>1, TableParts
      <3> HIDE DEF rows
      <3>2. Len(t.rows) \in Nat /\ \A i \in 1 .. Len(t.rows) : rows[i] \in RowType
        BY <1>1, <2>2, TableParts
      <3>3. rows \in [1 .. Len(t.rows) -> RowType]
        BY <3>1, <3>2
      <3>4. QED BY <3>2, <3>3, SeqDef
    <2> HIDE DEF rows
    <2>5. staged \in TableType /\ staged.rows = rows /\ staged.field = NoField
          /\ staged.seq = t.seq /\ staged.adding = t.adding /\ staged.undo = t.undo
          /\ staged.query = t.query /\ staged.hold = t.hold /\ staged.anyway = t.anyway /\ staged.save = t.save
      <3> HIDE DEF next
      <3>1. QED BY <1>2, <2>4 DEF TableType
    <2>6. Ids(rows) = Ids(t.rows)
      <3>1. Ids(rows) = {rows[i].id : i \in DOMAIN rows} /\ Ids(t.rows) = {t.rows[i].id : i \in DOMAIN t.rows}
        BY DEF Ids, ToSet
      <3>2. QED BY <2>2, <2>3, <3>1
    <2>7. u = StageRows(staged)
      BY <1>3, <1>5
    <2> HIDE DEF staged, u
    <2>8. RowsAreApart(staged)
      BY <1>1, <2>2, <2>3, <2>5 DEF RowsAreApart
    <2>9. GoalsAreSound(staged.save) /\ OthersAreApart(staged) /\ FieldFits(staged)
      BY <1>1, <2>5, <2>6 DEF OthersAreApart, Adding, FieldFits
    <2>10. TableOK(staged)
      BY <2>5, <2>8, <2>9 DEF TableOK
    <2>11. /\ TableOK(u) /\ SameButSave(staged, u) /\ u.save.acked = t.save.acked
           /\ IsSound(staged.rows) => u.save.head.goal = VariablesOf(staged.rows)
      BY <2>5, <2>7, <2>10, StageKeeps
    <2>12. u.rows = rows /\ u.field = NoField /\ SameButRowsAndSave(t, u)
      BY <2>5, <2>6, <2>11 DEF SameButSave, SameButRowsAndSave
    <2>13. QED BY <1>5, <2>2, <2>3, <2>5, <2>11, <2>12 DEF u
  <1>6. QED BY <1>4, <1>5

\* Appended, inserted or left out: rows that stay apart.
LEMMA AppendedApart ==
    ASSUME NEW rows \in Seq(RowType), NEW r \in RowType, r.id \notin Ids(rows),
           \A i, j \in DOMAIN rows : rows[i].id = rows[j].id => i = j
    PROVE  LET u == Append(rows, r)
           IN  /\ u \in Seq(RowType) /\ ToSet(u) = ToSet(rows) \cup {r}
               /\ Ids(u) = Ids(rows) \cup {r.id}
               /\ \A i, j \in DOMAIN u : u[i].id = u[j].id => i = j
  <1> DEFINE u == Append(rows, r)
  <1>1. /\ u \in Seq(RowType) /\ Len(rows) \in Nat /\ DOMAIN rows = 1 .. Len(rows) /\ DOMAIN u = 1 .. Len(rows) + 1
        /\ \A i \in 1 .. Len(rows) : u[i] = rows[i]
        /\ u[Len(rows) + 1] = r
    OBVIOUS
  <1> HIDE DEF u
  <1>2. ToSet(u) = ToSet(rows) \cup {r}
    <2>1. ToSet(u) = {u[i] : i \in 1 .. Len(rows) + 1} /\ ToSet(rows) = {rows[i] : i \in 1 .. Len(rows)}
      BY <1>1 DEF ToSet
    <2>2. \A i \in 1 .. Len(rows) + 1 : i \in 1 .. Len(rows) \/ i = Len(rows) + 1
      BY <1>1
    <2>3. 1 .. Len(rows) \subseteq 1 .. Len(rows) + 1 /\ Len(rows) + 1 \in 1 .. Len(rows) + 1
      BY <1>1
    <2>4. QED BY <1>1, <2>1, <2>2, <2>3
  <1>3. Ids(u) = Ids(rows) \cup {r.id}
    BY <1>2 DEF Ids
  <1>4. \A i \in DOMAIN rows : rows[i].id # r.id
    BY DEF Ids, ToSet
  <1>5. ASSUME NEW i \in DOMAIN u, NEW j \in DOMAIN u, u[i].id = u[j].id PROVE i = j
    <2>1. (i \in 1 .. Len(rows) \/ i = Len(rows) + 1) /\ (j \in 1 .. Len(rows) \/ j = Len(rows) + 1)
      BY <1>1
    <2>2. CASE i \in 1 .. Len(rows) /\ j \in 1 .. Len(rows)
      BY <1>1, <1>5, <2>2
    <2>3. CASE i = Len(rows) + 1 /\ j = Len(rows) + 1
      BY <2>3
    <2>4. CASE i \in 1 .. Len(rows) /\ j = Len(rows) + 1
      BY <1>1, <1>4, <1>5, <2>4
    <2>5. CASE i = Len(rows) + 1 /\ j \in 1 .. Len(rows)
      BY <1>1, <1>4, <1>5, <2>5
    <2>6. QED BY <2>1, <2>2, <2>3, <2>4, <2>5
  <1>6. QED BY <1>1, <1>2, <1>3, <1>5 DEF u

LEMMA InsertedApart ==
    ASSUME NEW rows \in Seq(RowType), NEW at \in 1 .. Len(rows) + 1, NEW r \in RowType, r.id \notin Ids(rows),
           \A i, j \in DOMAIN rows : rows[i].id = rows[j].id => i = j
    PROVE  LET u == InsertAt(rows, at, r)
           IN  /\ u \in Seq(RowType) /\ Ids(u) = Ids(rows) \cup {r.id}
               /\ \A i, j \in DOMAIN u : u[i].id = u[j].id => i = j
  <1> DEFINE n == Len(rows)
             a == SubSeq(rows, 1, at - 1)
             b == SubSeq(rows, at, n)
             u == InsertAt(rows, at, r)
  <1>1. n \in Nat /\ DOMAIN rows = 1 .. n
    OBVIOUS
  <1>2. /\ a \in Seq(RowType) /\ Len(a) = at - 1 /\ b \in Seq(RowType) /\ Len(b) = n + 1 - at
        /\ \A i \in 1 .. at - 1 : a[i] = rows[i]
        /\ \A i \in 1 .. n + 1 - at : b[i] = rows[at + i - 1]
    OBVIOUS
  <1>3. u = (a \o <<r>>) \o b
    BY DEF InsertAt
  <1>p. at \in 1 .. n + 1 /\ at \in Nat
    BY <1>1
  <1> HIDE DEF a, b, n, u
  <1>4. /\ u \in Seq(RowType) /\ DOMAIN u = 1 .. n + 1
        /\ \A i \in 1 .. at - 1 : u[i] = rows[i]
        /\ u[at] = r
        /\ \A i \in at + 1 .. n + 1 : u[i] = rows[i - 1]
    <2>1. /\ u \in Seq(RowType) /\ DOMAIN u = 1 .. Len(a) + 1 + Len(b)
          /\ \A i \in 1 .. Len(a) : u[i] = a[i]
          /\ u[Len(a) + 1] = r
          /\ \A i \in Len(a) + 2 .. Len(a) + 1 + Len(b) : u[i] = b[i - Len(a) - 1]
      <3> DEFINE z == (a \o <<r>>) \o b
      <3>1. a \in Seq(RowType) /\ b \in Seq(RowType)
        BY <1>2
      <3>2. /\ z \in Seq(RowType) /\ DOMAIN z = 1 .. Len(a) + 1 + Len(b)
            /\ \A i \in 1 .. Len(a) : z[i] = a[i]
            /\ z[Len(a) + 1] = r
            /\ \A i \in Len(a) + 2 .. Len(a) + 1 + Len(b) : z[i] = b[i - Len(a) - 1]
        BY ONLY <3>1, BetweenParts
      <3> HIDE DEF z
      <3>3. QED BY <1>3, <3>2 DEF z
    <2>2. Len(a) + 1 = at /\ Len(a) + 1 + Len(b) = n + 1 /\ Len(a) + 2 = at + 1
      BY <1>1, <1>2, <1>p
    <2>3. \A i \in at + 1 .. n + 1 : i - Len(a) - 1 = i - at
      BY <1>1, <1>2, <1>p
    <2>4. \A i \in at + 1 .. n + 1 : i - at \in 1 .. n + 1 - at /\ at + (i - at) - 1 = i - 1
      BY <1>1
    <2>5. \A i \in at + 1 .. n + 1 : b[i - at] = rows[i - 1]
      BY <1>2, <2>4
    <2>6. DOMAIN u = 1 .. n + 1 /\ u[at] = r
      BY <2>1, <2>2
    <2>7. \A i \in 1 .. at - 1 : u[i] = rows[i]
      BY <1>2, <2>1
    <2>8. \A i \in at + 1 .. n + 1 : u[i] = rows[i - 1]
      <3> TAKE i \in at + 1 .. n + 1
      <3>1. u[i] = b[i - Len(a) - 1]
        BY <2>1, <2>2
      <3>2. QED BY <2>3, <2>5, <3>1
    <2>9. QED BY <2>1, <2>6, <2>7, <2>8
  <1>5. at \in 1 .. n + 1
    BY DEF n
  <1>6. \A i \in DOMAIN u : i \in 1 .. at - 1 \/ i = at \/ (i \in at + 1 .. n + 1 /\ i - 1 \in DOMAIN rows)
    BY <1>1, <1>4, <1>5
  <1>7. \A i \in DOMAIN rows : i \in 1 .. at - 1 \/ i + 1 \in at + 1 .. n + 1
    BY <1>1, <1>5
  <1>8. Ids(u) = {u[i].id : i \in DOMAIN u} /\ Ids(rows) = {rows[i].id : i \in DOMAIN rows}
    BY DEF Ids, ToSet
  <1>9. Ids(u) = Ids(rows) \cup {r.id}
    <2>1. ASSUME NEW x \in Ids(u) PROVE x \in Ids(rows) \cup {r.id}
      <3>1. PICK i \in DOMAIN u : x = u[i].id
        BY <1>8, <2>1
      <3>2. CASE i \in 1 .. at - 1
        <4>1. i \in DOMAIN rows /\ u[i] = rows[i]
          BY <1>1, <1>4, <1>5, <3>2
        <4>2. QED BY <1>8, <3>1, <4>1
      <3>3. CASE i = at
        BY <1>4, <3>1, <3>3
      <3>4. CASE i \in at + 1 .. n + 1 /\ i - 1 \in DOMAIN rows
        <4>1. u[i] = rows[i - 1]
          BY <1>4, <3>4
        <4>2. QED BY <1>8, <3>1, <3>4, <4>1
      <3>5. QED BY <1>6, <3>2, <3>3, <3>4
    <2>2. ASSUME NEW x \in Ids(rows) PROVE x \in Ids(u)
      <3>1. PICK i \in DOMAIN rows : x = rows[i].id
        BY <1>8, <2>2
      <3>2. CASE i \in 1 .. at - 1
        <4>1. i \in DOMAIN u /\ u[i] = rows[i]
          BY <1>1, <1>4, <1>5, <3>2
        <4>2. QED BY <1>8, <3>1, <4>1
      <3>3. CASE i + 1 \in at + 1 .. n + 1
        <4>1. i + 1 \in DOMAIN u /\ u[i + 1] = rows[(i + 1) - 1] /\ (i + 1) - 1 = i
          BY <1>1, <1>4, <1>5, <3>3
        <4>2. QED BY <1>8, <3>1, <4>1
      <3>4. QED BY <1>7, <3>2, <3>3
    <2>3. r.id \in Ids(u)
      BY <1>4, <1>5, <1>8
    <2>4. QED BY <2>1, <2>2, <2>3
  <1>10. ASSUME NEW i \in DOMAIN u, NEW j \in DOMAIN u, u[i].id = u[j].id PROVE i = j
    <2>1. \A k \in DOMAIN rows : rows[k].id # r.id
      BY <1>8
    <2>2. CASE i = at
      BY <1>1, <1>4, <1>5, <1>6, <1>10, <2>1, <2>2
    <2>3. CASE j = at
      BY <1>1, <1>4, <1>5, <1>6, <1>10, <2>1, <2>3
    <2>4. CASE i # at /\ j # at
      <3> DEFINE Old(k) == IF k < at THEN k ELSE k - 1
      <3>1. Old(i) \in DOMAIN rows /\ u[i] = rows[Old(i)] /\ Old(j) \in DOMAIN rows /\ u[j] = rows[Old(j)]
        BY <1>1, <1>4, <1>5, <2>4
      <3>2. Old(i) = Old(j)
        <4> HIDE DEF Old
        <4>1. QED BY <1>10, <3>1
      <3>3. QED BY <1>1, <1>4, <1>5, <2>4, <3>2
    <2>5. QED BY <2>2, <2>3, <2>4
  <1>11. QED BY <1>4, <1>9, <1>10 DEF u

LEMMA FilteredApart ==
    ASSUME NEW rows \in Seq(RowType), NEW S,
           \A i, j \in DOMAIN rows : rows[i].id = rows[j].id => i = j
    PROVE  LET u == Filtered(rows, S)
           IN  /\ u \in Seq(RowType) /\ ToSet(u) = ToSet(rows) \cap S
               /\ \A i, j \in DOMAIN u : u[i].id = u[j].id => i = j
  <1> DEFINE u == Filtered(rows, S)
  <1>p. u \in Seq(RowType) /\ ToSet(u) = ToSet(rows) \cap S
    BY FilteredParts
  <1>1. \A i, j \in DOMAIN rows : rows[i] = rows[j] => i = j
    OBVIOUS
  <1>2. \A i, j \in DOMAIN u : u[i] = u[j] => i = j
    BY <1>1, FilteredParts
  <1> HIDE DEF u
  <1>3. ASSUME NEW i \in DOMAIN u, NEW j \in DOMAIN u, u[i].id = u[j].id PROVE i = j
    <2>1. u[i] \in ToSet(rows) /\ u[j] \in ToSet(rows)
      BY <1>p DEF ToSet
    <2>2. u[i] = u[j]
      BY <1>3, <2>1 DEF ToSet
    <2>3. QED BY <1>2, <2>2
  <1>4. QED BY <1>p, <1>3 DEF u

\* commitAdding: the row being added is in the draft, and not filtered, if it has a name.
LEMMA CommitAddingKeeps ==
    ASSUME NEW t, TableOK(t)
    PROVE  LET u == CommitAdding(t)
           IN  /\ TableOK(u) /\ ~Adding(u)
               /\ u.field = t.field /\ u.undo = t.undo /\ u.query = t.query /\ u.hold = t.hold
               /\ t.anyway \subseteq u.anyway
               /\ ToSet(t.rows) \subseteq ToSet(u.rows)
               /\ Ids(u.rows) = Ids(t.rows) \cup (IF Adding(t) /\ t.adding.key # Blank THEN {t.adding.id} ELSE {})
               /\ t.query = Everything \/ Ids(u.rows) \ Ids(t.rows) \subseteq u.anyway
               /\ u.save.acked = t.save.acked
               /\ u.rows = t.rows \/ (IsSound(u.rows) => u.save.head.goal = VariablesOf(u.rows))
               /\ u.rows = t.rows => u.save = t.save
  <1> DEFINE u == CommitAdding(t)
  <1>1. t \in TableType /\ RowsAreApart(t) /\ GoalsAreSound(t.save) /\ OthersAreApart(t) /\ FieldFits(t)
    BY DEF TableOK
  <1>2. CASE ~Adding(t)
    <2>1. u = t
      BY <1>2 DEF CommitAdding
    <2>2. QED BY <1>2, <2>1
  <1>3. CASE Adding(t) /\ t.adding.key = Blank
    <2> DEFINE next == [t EXCEPT !.adding = NoRow]
    <2>1. u = next
      BY <1>3 DEF CommitAdding
    <2>2. /\ next \in TableType /\ next.adding = NoRow /\ next.field = t.field
          /\ next.rows = t.rows /\ next.seq = t.seq /\ next.undo = t.undo
          /\ next.query = t.query /\ next.hold = t.hold /\ next.anyway = t.anyway /\ next.save = t.save
      BY <1>1, NoFieldParts DEF TableType
    <2> HIDE DEF next, u
    <2>3. TableOK(u) /\ ~Adding(u)
      BY <1>1, <2>1, <2>2, NoFieldParts DEF TableOK, RowsAreApart, OthersAreApart, FieldFits, Adding
    <2>4. QED BY <1>3, <2>1, <2>2, <2>3 DEF u
  <1>4. CASE Adding(t) /\ t.adding.key # Blank
    <2> DEFINE r == t.adding
               rows == Append(t.rows, r)
               next == [t EXCEPT !.rows = rows, !.adding = NoRow]
               shown == ShowAnyway(next, r.id)
    <2>1. r \in RowType /\ r.id \notin Ids(t.rows) /\ r.id < t.seq /\ r.id \in Nat
      <3>1. r.id \in 0 .. t.seq - 1 /\ r.id \notin Ids(t.rows)
        BY <1>1, <1>4 DEF OthersAreApart
      <3>2. r \in [id : Int, key : Everything, val : Values] /\ t.seq \in Nat
        BY <1>1 DEF TableType
      <3> HIDE DEF r
      <3>3. QED BY <3>1, <3>2 DEF RowType
    <2>2. /\ rows \in Seq(RowType) /\ ToSet(rows) = ToSet(t.rows) \cup {r} /\ Ids(rows) = Ids(t.rows) \cup {r.id}
          /\ \A i, j \in DOMAIN rows : rows[i].id = rows[j].id => i = j
      <3> HIDE DEF r
      <3>1. QED BY <1>1, <2>1, TableParts, AppendedApart DEF RowsAreApart
    <2> HIDE DEF rows, r
    <2>3. /\ next \in TableType /\ next.adding = NoRow /\ next.field = t.field
          /\ next.rows = rows /\ next.seq = t.seq /\ next.undo = t.undo
          /\ next.query = t.query /\ next.hold = t.hold /\ next.anyway = t.anyway /\ next.save = t.save
      BY <1>1, <2>2, NoFieldParts DEF TableType
    <2> HIDE DEF next
    <2>4. /\ shown \in TableType /\ shown.adding = NoRow /\ shown.field = t.field
          /\ shown.rows = rows /\ shown.seq = t.seq /\ shown.undo = t.undo
          /\ shown.query = t.query /\ shown.hold = t.hold /\ shown.save = t.save
          /\ t.anyway \subseteq shown.anyway /\ (t.query = Everything \/ r.id \in shown.anyway)
      BY <2>1, <2>3 DEF ShowAnyway, TableType
    <2>5. u = StageRows(shown)
      BY <1>4 DEF CommitAdding, next, r, rows
    <2> HIDE DEF shown, u
    <2>6. RowsAreApart(shown)
      <3>1. \A i \in DOMAIN rows : rows[i].id < t.seq
        <4> TAKE i \in DOMAIN rows
        <4>1. rows[i] \in ToSet(t.rows) \cup {r}
          BY <2>2 DEF ToSet
        <4>2. QED BY <1>1, <2>1, <4>1 DEF ToSet, RowsAreApart
      <3>2. QED BY <2>2, <2>4, <3>1 DEF RowsAreApart
    <2>7. OthersAreApart(shown)
      <3>1. t.undo # NoUndo => /\ t.undo.row.id \in 0 .. t.seq - 1 /\ t.undo.row.id \notin Ids(t.rows) \cup t.hold.hidden
                               /\ t.undo.row.id # r.id /\ t.undo.index > 0
        BY <1>1 DEF OthersAreApart, r
      <3>2. t.seq \in Nat /\ \A i \in 0 .. t.seq - 1 : i # -1
        BY <1>1, TableParts
      <3>3. t.hold.hidden \subseteq 0 .. t.seq - 1 /\ t.hold.hidden \cap ToSet(t.hold.shown) = {}
        BY <1>1 DEF OthersAreApart
      <3>4. QED BY <2>2, <2>4, <3>1, <3>2, <3>3, NoFieldParts DEF OthersAreApart, Adding
    <2>8. TableOK(shown)
      BY <1>1, <2>4, <2>6, <2>7 DEF TableOK, FieldFits
    <2>9. /\ TableOK(u) /\ SameButSave(shown, u) /\ u.save.acked = t.save.acked
          /\ IsSound(rows) => u.save.head.goal = VariablesOf(rows)
      BY <2>4, <2>5, <2>8, StageKeeps
    <2>10. u.rows # t.rows
      <3>1. r \in ToSet(u.rows) /\ r \notin ToSet(t.rows)
        BY <2>1, <2>2, <2>4, <2>9 DEF SameButSave, Ids
      <3>2. QED BY <3>1
    <2>11. QED BY <1>4, <2>2, <2>4, <2>9, <2>10 DEF SameButSave, Adding, u, r
  <1>5. QED BY <1>2, <1>3, <1>4

\* What of a set of rows is in the draft is neither hidden nor filtered.
Shows(t, F) == \A id \in F \cap Ids(t.rows) : id \notin t.hold.hidden /\ (t.query = Everything \/ id \in t.anyway)

LEMMA ModesInUse == SortModes \subseteq Modes
  BY TableAssumption DEF Modes

\* holdLayout: what is on the screen is held, and what was not filtered.
LEMMA HoldKeeps ==
    ASSUME NEW t, TableOK(t), sort \in SortModes
    PROVE  LET u == HoldLayout(t)
           IN  /\ TableOK(u) /\ u.hold.sort = sort
               /\ u.rows = t.rows /\ u.seq = t.seq /\ u.field = t.field /\ u.adding = t.adding /\ u.undo = t.undo
               /\ u.query = t.query /\ u.anyway = t.anyway /\ u.save = t.save
               /\ t.hold.sort = sort => u = t
               /\ ToSet(OnScreen(t, sort)) = Ids(u.rows) \ u.hold.hidden
               /\ \A F : Shows(t, F) => Shows(u, F)
  <1> DEFINE u == HoldLayout(t)
             shown == Arranged(t, sort)
             hidden == Ids(t.rows) \ ToSet(shown)
  <1>1. t \in TableType /\ RowsAreApart(t) /\ GoalsAreSound(t.save) /\ OthersAreApart(t) /\ FieldFits(t)
    BY DEF TableOK
  <1>2. CASE t.hold.sort = sort
    <2>1. u = t
      BY <1>2 DEF HoldLayout
    <2>2. ToSet(OnScreen(t, sort)) = Ids(t.rows) \ t.hold.hidden
      BY <1>1, <1>2, HeldShows DEF OnScreen, OthersAreApart
    <2> HIDE DEF u
    <2>3. QED BY <1>2, <2>1, <2>2 DEF u
  <1>3. CASE t.hold.sort # sort
    <2>1. /\ shown \in Seq(Nat) /\ ToSet(shown) = {t.rows[i].id : i \in Matches(t)}
          /\ Matches(t) \subseteq DOMAIN t.rows
      BY <1>1, ModesInUse, ArrangedShows
    <2>2. u = [t EXCEPT !.hold = [sort |-> sort, shown |-> shown, hidden |-> hidden]]
      BY <1>3 DEF HoldLayout
    <2>3. hidden \in SUBSET Nat
      BY <1>1, TableParts
    <2> HIDE DEF shown, hidden
    <2> DEFINE hold == [sort |-> sort, shown |-> shown, hidden |-> hidden]
    <2>h. hold \in [sort : SortModes \cup {"none"}, shown : Seq(Nat), hidden : SUBSET Nat]
      BY <2>1, <2>3
    <2>4. /\ u \in TableType /\ u.hold = [sort |-> sort, shown |-> shown, hidden |-> hidden]
          /\ u.rows = t.rows /\ u.seq = t.seq /\ u.field = t.field /\ u.adding = t.adding /\ u.undo = t.undo
          /\ u.query = t.query /\ u.anyway = t.anyway /\ u.save = t.save
      <3>1. u = [t EXCEPT !.hold = hold]
        BY <2>2
      <3> HIDE DEF hold, u
      <3>2. /\ u \in TableType /\ u.hold = hold
            /\ u.rows = t.rows /\ u.seq = t.seq /\ u.field = t.field /\ u.adding = t.adding /\ u.undo = t.undo
            /\ u.query = t.query /\ u.anyway = t.anyway /\ u.save = t.save
        BY <1>1, <2>h, <3>1 DEF TableType
      <3>3. QED BY <3>2 DEF hold
    <2> HIDE DEF u
    <2>5. hidden \subseteq 0 .. t.seq - 1
      <3>1. \A id \in Ids(t.rows) : id \in 0 .. t.seq - 1
        <4> TAKE id \in Ids(t.rows)
        <4>1. PICK i \in DOMAIN t.rows : t.rows[i].id = id
          BY <1>1, TableParts
        <4>2. t.rows[i].id \in Nat /\ t.seq \in Nat /\ t.rows[i].id < t.seq
          BY <1>1, TableParts DEF RowsAreApart
        <4>3. QED BY <4>1, <4>2
      <3>2. QED BY <3>1 DEF hidden
    <2>6. hidden \subseteq Ids(t.rows) /\ hidden \cap ToSet(shown) = {}
      BY DEF hidden
    <2>7. OthersAreApart(u)
      BY <1>1, <2>4, <2>5, <2>6 DEF OthersAreApart, Adding
    <2>8. TableOK(u)
      BY <1>1, <2>4, <2>7 DEF TableOK, RowsAreApart, FieldFits
    <2>9. ToSet(OnScreen(t, sort)) = Ids(u.rows) \ u.hold.hidden
      <3>1. ToSet(shown) \subseteq Ids(t.rows)
        BY <1>1, <2>1, TableParts
      <3>2. OnScreen(t, sort) = shown
        BY <1>3 DEF OnScreen, shown
      <3>3. QED BY <2>4, <3>1, <3>2 DEF hidden
    <2>10. ASSUME NEW F, Shows(t, F) PROVE Shows(u, F)
      <3>1. SUFFICES ASSUME NEW id \in F \cap Ids(t.rows) PROVE id \notin hidden /\ (t.query = Everything \/ id \in t.anyway)
        BY <2>4 DEF Shows
      <3>2. t.query = Everything \/ id \in t.anyway
        BY <2>10 DEF Shows
      <3>3. PICK i \in DOMAIN t.rows : t.rows[i].id = id
        BY <1>1, TableParts
      <3>4. i \in Matches(t)
        BY <1>1, <3>2, <3>3, AnywayMatches
      <3>5. QED BY <2>1, <3>2, <3>3, <3>4 DEF hidden
    <2>11. QED BY <1>3, <2>4, <2>8, <2>9, <2>10 DEF u
  <1>4. QED BY <1>2, <1>3

\* releaseLayout: nothing is hidden by a layout any more.
LEMMA ReleaseKeeps ==
    ASSUME NEW t, TableOK(t)
    PROVE  LET u == ReleaseLayout(t)
           IN  /\ TableOK(u)
               /\ u.rows = t.rows /\ u.seq = t.seq /\ u.field = t.field /\ u.adding = t.adding /\ u.undo = t.undo
               /\ u.query = t.query /\ u.anyway = t.anyway /\ u.save = t.save
               /\ \A F : Shows(t, F) => Shows(u, F)
  <1> DEFINE u == ReleaseLayout(t)
  <1>1. t \in TableType /\ RowsAreApart(t) /\ GoalsAreSound(t.save) /\ OthersAreApart(t) /\ FieldFits(t)
    BY DEF TableOK
  <1>2. NoHold \in [sort : SortModes \cup {"none"}, shown : Seq(Nat), hidden : SUBSET Nat] /\ NoHold.hidden = {}
    BY DEF NoHold
  <1>3. /\ u \in TableType /\ u.hold = NoHold
        /\ u.rows = t.rows /\ u.seq = t.seq /\ u.field = t.field /\ u.adding = t.adding /\ u.undo = t.undo
        /\ u.query = t.query /\ u.anyway = t.anyway /\ u.save = t.save
    BY <1>1, <1>2 DEF ReleaseLayout, TableType
  <1> HIDE DEF u
  <1>4. OthersAreApart(u)
    BY <1>1, <1>2, <1>3 DEF OthersAreApart, Adding
  <1>5. TableOK(u)
    BY <1>1, <1>3, <1>4 DEF TableOK, RowsAreApart, FieldFits
  <1>6. \A F : Shows(t, F) => Shows(u, F)
    BY <1>2, <1>3 DEF Shows
  <1>7. QED BY <1>3, <1>5, <1>6 DEF u

-----------------------------------------------------------------------------
(* The actions. *)

LEMMA InvParts ==
    ASSUME TableInv
    PROVE  /\ TableOK(table) /\ table \in TableType /\ Shows(table, fresh)
           /\ sort \in SortModes /\ inside \in BOOLEAN /\ fresh \in SUBSET Nat /\ turns \in Nat
           /\ table.field # NoField => /\ inside /\ table.hold.sort = sort
                                       /\ table.field.id \in Ids(table.rows) \ table.hold.hidden
  BY DEF TableInv, TableTypeOK, TableOK, WorkIsHeld, FreshIsShown, Shows

\* What a step has to show of the table it leaves.
LEMMA LeavesInv ==
    ASSUME NEW u, TableOK(u), table' = u, sort' \in SortModes, inside' \in BOOLEAN, turns' \in Nat,
           fresh' \in SUBSET Nat, Shows(u, fresh'),
           u.field # NoField => inside' /\ u.hold.sort = sort' /\ u.field.id \in Ids(u.rows) \ u.hold.hidden
    PROVE  TableInv'
  BY DEF TableInv, TableTypeOK, TableOK, WorkIsHeld, FreshIsShown, Shows

LEMMA TurnsLeft == ASSUME TableInv, Begin PROVE turns' \in Nat
  <1>1. turns \in Nat /\ turns > 0 /\ turns' = turns - 1
    BY InvParts DEF Begin
  <1>2. QED BY <1>1

\* A press in the region: what is open is committed, and the layout held.
LEMMA PressedKeeps ==
    ASSUME TableInv
    PROVE  LET u == HoldLayout(CommitField(table))
           IN  /\ TableOK(u) /\ u.field = NoField /\ u.hold.sort = sort
               /\ Ids(u.rows) = Ids(table.rows) /\ u.seq = table.seq /\ u.adding = table.adding
               /\ Shows(u, fresh)
               /\ Visible = Ids(u.rows) \ u.hold.hidden
  <1> DEFINE c == CommitField(table)
             u == HoldLayout(c)
  <1>1. /\ TableOK(c) /\ c.field = NoField /\ SameButRowsAndSave(table, c)
        /\ table.field = NoField => c = table
    BY InvParts, CommitFieldKeeps
  <1> HIDE DEF c
  <1>2. /\ TableOK(u) /\ u.hold.sort = sort
        /\ u.rows = c.rows /\ u.seq = c.seq /\ u.field = c.field /\ u.adding = c.adding
        /\ c.hold.sort = sort => u = c
        /\ ToSet(OnScreen(c, sort)) = Ids(u.rows) \ u.hold.hidden
        /\ Shows(c, fresh) => Shows(u, fresh)
    BY <1>1, InvParts, HoldKeeps
  <1> HIDE DEF u
  <1>3. Shows(c, fresh)
    BY <1>1, InvParts DEF Shows, SameButRowsAndSave
  <1>4. CASE table.field = NoField
    BY <1>1, <1>2, <1>3, <1>4 DEF Visible, SameButRowsAndSave, u, c
  <1>5. CASE table.field # NoField
    <2>1. Visible = Ids(table.rows) \ table.hold.hidden
      BY <1>5, InvParts, HeldShows DEF Visible, OnScreen, TableOK, OthersAreApart
    <2>2. u = c
      BY <1>1, <1>2, <1>5, InvParts DEF SameButRowsAndSave
    <2>3. QED BY <1>1, <1>2, <1>3, <2>1, <2>2 DEF SameButRowsAndSave, u, c
  <1>6. QED BY <1>4, <1>5

\* What has the focus loses it.
LEMMA FocusLostKeeps ==
    ASSUME TableInv, NEW t, TableOK(t), NEW F \in SUBSET Nat, Shows(t, F), FocusLost(t), fresh' = F,
           sort' = sort, turns' \in Nat
    PROVE  TableInv'
  <1>1. CASE table' = Blurred(t)
    <2> DEFINE c == CommitField(t)
               u == ReleaseLayout(c)
    <2>1. TableOK(c) /\ c.field = NoField /\ SameButRowsAndSave(t, c)
      BY CommitFieldKeeps
    <2>2. Shows(c, F)
      BY <2>1 DEF Shows, SameButRowsAndSave
    <2> HIDE DEF c
    <2>3. TableOK(u) /\ u.field = NoField /\ Shows(u, F)
      BY <2>1, <2>2, ReleaseKeeps
    <2>4. table' = u
      BY <1>1 DEF Blurred, c
    <2> HIDE DEF u
    <2>5. QED BY <2>3, <2>4, InvParts, LeavesInv DEF FocusLost
  <1>2. CASE t.field = NoField /\ table' = t
    BY <1>2, InvParts, LeavesInv DEF FocusLost
  <1>3. QED BY <1>1, <1>2 DEF FocusLost

LEMMA FocusInsideKeeps ==
    ASSUME TableInv, NEW t, TableOK(t), NEW F \in SUBSET Nat, Shows(t, F), FocusInside(t), fresh' = F,
           sort' = sort, turns' \in Nat,
           t.field # NoField => t.hold.sort = sort /\ t.field.id \in Ids(t.rows) \ t.hold.hidden
    PROVE  TableInv'
  <1> DEFINE u == HoldLayout(t)
  <1>1. /\ TableOK(u) /\ u.hold.sort = sort /\ u.rows = t.rows /\ u.field = t.field
        /\ t.hold.sort = sort => u = t
        /\ Shows(u, F)
    BY InvParts, HoldKeeps
  <1>2. table' = u /\ inside' = TRUE
    BY DEF FocusInside
  <1> HIDE DEF u
  <1>3. u.field # NoField => inside' /\ u.hold.sort = sort' /\ u.field.id \in Ids(u.rows) \ u.hold.hidden
    BY <1>1, <1>2
  <1>4. QED BY <1>1, <1>2, <1>3, InvParts, LeavesInv

LEMMA OpenCellInv == ASSUME TableInv, NEW id \in Ids(table.rows), NEW kind \in {"key", "val"}, OpenCell(id, kind) PROVE TableInv'
  <1> DEFINE p == HoldLayout(CommitField(table))
             field == [kind |-> kind, id |-> id, text |-> PartOf(RowWith(p.rows, id), kind)]
             t == [p EXCEPT !.field = field]
  <1>1. /\ TableOK(p) /\ p.hold.sort = sort /\ Shows(p, fresh) /\ id \in Ids(p.rows) \ p.hold.hidden
    BY PressedKeeps DEF OpenCell
  <1>2. FocusInside(t) /\ fresh' = fresh /\ sort' = sort
    BY DEF OpenCell
  <1>t. turns' \in Nat
    BY TurnsLeft DEF OpenCell
  <1> HIDE DEF p
  <1>3. RowWith(p.rows, id) \in RowType
    <2>1. \E r \in ToSet(p.rows) : r.id = id
      BY <1>1 DEF Ids
    <2>2. RowWith(p.rows, id) \in ToSet(p.rows)
      BY <2>1 DEF RowWith
    <2>3. QED BY <1>1, <2>2, TableParts DEF ToSet, TableOK
  <1>4. /\ field \in [kind : {"none", "key", "val"}, id : Int, text : Everything \cup Values]
        /\ field # NoField /\ field.id = id /\ field.kind = kind
        /\ field.text \in IF field.kind = "key" THEN Everything ELSE Values
    <2>1. id \in Int
      BY InvParts, TableParts
    <2>2. PartOf(RowWith(p.rows, id), kind) \in IF kind = "key" THEN Everything ELSE Values
      BY <1>3 DEF PartOf, RowType
    <2>3. QED BY <2>1, <2>2, NoFieldParts
  <1> HIDE DEF field
  <1>5. /\ t \in TableType /\ t.field = field
        /\ t.rows = p.rows /\ t.seq = p.seq /\ t.adding = p.adding /\ t.undo = p.undo
        /\ t.query = p.query /\ t.hold = p.hold /\ t.anyway = p.anyway /\ t.save = p.save
    BY <1>1, <1>4 DEF TableOK, TableType
  <1> HIDE DEF t
  <1>6. TableOK(t)
    BY <1>1, <1>4, <1>5 DEF TableOK, RowsAreApart, OthersAreApart, Adding, FieldFits
  <1>7. Shows(t, fresh)
    BY <1>1, <1>5 DEF Shows
  <1>8. QED BY <1>1, <1>2, <1>t, <1>4, <1>5, <1>6, <1>7, InvParts, FocusInsideKeeps

LEMMA TypeCellInv == ASSUME TableInv, NEW text \in Everything \cup Values, TypeCell(text) PROVE TableInv'
  <1> DEFINE u == [table EXCEPT !.field.text = text]
  <1>1. /\ table.field # NoField /\ u = table' /\ UNCHANGED <<sort, inside, fresh, turns>>
        /\ text \in IF table.field.kind = "key" THEN Everything ELSE Values
    BY NoFieldParts DEF TypeCell
  <1>2. /\ u \in TableType /\ u.field = [table.field EXCEPT !.text = text]
        /\ u.rows = table.rows /\ u.seq = table.seq /\ u.adding = table.adding /\ u.undo = table.undo
        /\ u.query = table.query /\ u.hold = table.hold /\ u.anyway = table.anyway /\ u.save = table.save
    BY <1>1, InvParts DEF TableType
  <1>3. u.field.kind = table.field.kind /\ u.field.id = table.field.id /\ u.field.text = text
    BY <1>2, InvParts DEF TableType
  <1> HIDE DEF u
  <1>4. TableOK(u)
    BY <1>1, <1>2, <1>3, InvParts DEF TableOK, RowsAreApart, OthersAreApart, Adding, FieldFits
  <1>5. Shows(u, fresh)
    BY <1>2, InvParts DEF Shows
  <1>6. QED BY <1>1, <1>2, <1>3, <1>4, <1>5, InvParts, LeavesInv

LEMMA CommitCellInv == ASSUME TableInv, CommitCell PROVE TableInv'
  <1> DEFINE u == HoldLayout(CommitField(table))
  <1>1. TableOK(u) /\ u.field = NoField /\ Shows(u, fresh)
    BY PressedKeeps
  <1>2. table' = u /\ inside' = TRUE /\ UNCHANGED <<sort, fresh, turns>>
    BY DEF CommitCell, FocusInside
  <1> HIDE DEF u
  <1>3. QED BY <1>1, <1>2, InvParts, LeavesInv

LEMMA ClearedField ==
    ASSUME NEW t, TableOK(t)
    PROVE  LET u == [t EXCEPT !.field = NoField]
           IN  /\ TableOK(u) /\ u.field = NoField
               /\ u.rows = t.rows /\ u.seq = t.seq /\ u.adding = t.adding /\ u.undo = t.undo
               /\ u.query = t.query /\ u.hold = t.hold /\ u.anyway = t.anyway /\ u.save = t.save
  <1> DEFINE u == [t EXCEPT !.field = NoField]
  <1>1. /\ u \in TableType /\ u.field = NoField
        /\ u.rows = t.rows /\ u.seq = t.seq /\ u.adding = t.adding /\ u.undo = t.undo
        /\ u.query = t.query /\ u.hold = t.hold /\ u.anyway = t.anyway /\ u.save = t.save
    BY NoFieldParts DEF TableOK, TableType
  <1> HIDE DEF u
  <1>2. TableOK(u)
    BY <1>1 DEF TableOK, RowsAreApart, OthersAreApart, Adding, FieldFits
  <1>3. QED BY <1>1, <1>2 DEF u

LEMMA ClearedAdding ==
    ASSUME NEW t, TableOK(t)
    PROVE  LET u == [t EXCEPT !.adding = NoRow]
           IN  /\ TableOK(u) /\ u.adding = NoRow
               /\ u.rows = t.rows /\ u.seq = t.seq /\ u.field = t.field /\ u.undo = t.undo
               /\ u.query = t.query /\ u.hold = t.hold /\ u.anyway = t.anyway /\ u.save = t.save
  <1> DEFINE u == [t EXCEPT !.adding = NoRow]
  <1>1. /\ u \in TableType /\ u.adding = NoRow
        /\ u.rows = t.rows /\ u.seq = t.seq /\ u.field = t.field /\ u.undo = t.undo
        /\ u.query = t.query /\ u.hold = t.hold /\ u.anyway = t.anyway /\ u.save = t.save
    BY NoFieldParts DEF TableOK, TableType
  <1> HIDE DEF u
  <1>2. TableOK(u)
    <2>1. t.seq \in Nat /\ \A i \in 0 .. t.seq - 1 : i # -1
      BY TableParts DEF TableOK
    <2>2. OthersAreApart(u)
      BY <1>1, <2>1, NoFieldParts DEF TableOK, OthersAreApart, Adding
    <2>3. QED BY <1>1, <2>2 DEF TableOK, RowsAreApart, FieldFits
  <1>3. QED BY <1>1, <1>2 DEF u

LEMMA CancelFieldInv == ASSUME TableInv, CancelField PROVE TableInv'
  <1> DEFINE t == [table EXCEPT !.field = NoField]
  <1>1. TableOK(t) /\ t.field = NoField /\ t.rows = table.rows /\ t.query = table.query /\ t.hold = table.hold
        /\ t.anyway = table.anyway
    BY InvParts, ClearedField
  <1>2. FocusInside(t) /\ UNCHANGED <<sort, fresh, turns>>
    BY DEF CancelField
  <1> HIDE DEF t
  <1>3. Shows(t, fresh)
    BY <1>1, InvParts DEF Shows
  <1>4. QED BY <1>1, <1>2, <1>3, InvParts, FocusInsideKeeps

LEMMA AddRowInv == ASSUME TableInv, AddRow PROVE TableInv'
  <1> DEFINE p == HoldLayout(table)
             row == [NoRow EXCEPT !.id = table.seq]
             u == [p EXCEPT !.adding = row, !.seq = @ + 1]
  <1>1. ~inside /\ fresh' = fresh /\ sort' = sort
    BY DEF AddRow
  <1>t. turns' \in Nat
    BY TurnsLeft DEF AddRow
  <1>2. table.field = NoField /\ CommitField(table) = table
    BY <1>1, InvParts, CommitFieldKeeps
  <1>3. FocusInside(IF Adding(table) THEN table ELSE [HoldLayout(table) EXCEPT !.adding = [NoRow EXCEPT !.id = table.seq], !.seq = @ + 1])
    BY <1>2 DEF AddRow
  <1>4. CASE Adding(table)
    BY <1>1, <1>t, <1>2, <1>3, <1>4, InvParts, FocusInsideKeeps
  <1>5. CASE ~Adding(table)
    <2>1. /\ TableOK(p) /\ p.field = NoField /\ p.seq = table.seq /\ Ids(p.rows) = Ids(table.rows) /\ Shows(p, fresh)
      BY <1>2, PressedKeeps
    <2>2. FocusInside(u)
      BY <1>3, <1>5
    <2> HIDE DEF p
    <2>3. p \in TableType /\ p.seq \in Nat /\ RowsAreApart(p) /\ OthersAreApart(p) /\ GoalsAreSound(p.save)
      BY <2>1, TableParts DEF TableOK
    <2>4. row \in [id : Int, key : Everything, val : Values] /\ row.id = p.seq
      BY <2>1, <2>3, NoFieldParts
    <2> HIDE DEF row
    <2>5. /\ u \in TableType /\ u.adding = row /\ u.seq = p.seq + 1
          /\ u.rows = p.rows /\ u.field = p.field /\ u.undo = p.undo
          /\ u.query = p.query /\ u.hold = p.hold /\ u.anyway = p.anyway /\ u.save = p.save
      <3>1. u = [p EXCEPT !.adding = row, !.seq = p.seq + 1] /\ p.seq + 1 \in Nat
        BY <2>3 DEF TableType
      <3> HIDE DEF u
      <3>2. QED BY <2>3, <2>4, <3>1 DEF TableType
    <2> HIDE DEF u
    <2>6. RowsAreApart(u)
      <3>1. \A i \in DOMAIN p.rows : p.rows[i].id \in Nat
        BY <2>3, TableParts
      <3>2. \A i \in DOMAIN p.rows : p.rows[i].id < p.seq + 1
        BY <2>3, <3>1 DEF RowsAreApart
      <3>3. QED BY <2>3, <2>5, <3>2 DEF RowsAreApart
    <2>7. OthersAreApart(u)
      <3>1. p.seq \in 0 .. p.seq /\ p.seq \notin 0 .. p.seq - 1 /\ 0 .. p.seq - 1 \subseteq 0 .. p.seq /\ (p.seq + 1) - 1 = p.seq
        BY <2>3
      <3>2. p.seq \notin Ids(p.rows)
        <4>1. \A i \in DOMAIN p.rows : p.rows[i].id # p.seq
          BY <2>3, TableParts DEF RowsAreApart
        <4>2. QED BY <2>3, <4>1, TableParts
      <3>3. /\ p.hold.hidden \subseteq 0 .. p.seq - 1 /\ p.hold.hidden \cap ToSet(p.hold.shown) = {}
            /\ p.undo # NoUndo => /\ p.undo.row.id \in 0 .. p.seq - 1 /\ p.undo.row.id \notin Ids(p.rows) \cup p.hold.hidden
                                  /\ p.undo.index > 0
        BY <2>3 DEF OthersAreApart
      <3>4. QED BY <2>4, <2>5, <3>1, <3>2, <3>3 DEF OthersAreApart
    <2>8. TableOK(u)
      BY <2>1, <2>3, <2>5, <2>6, <2>7 DEF TableOK, FieldFits
    <2>9. Shows(u, fresh)
      BY <2>1, <2>5 DEF Shows
    <2>10. QED BY <1>1, <1>t, <2>1, <2>2, <2>5, <2>8, <2>9, InvParts, FocusInsideKeeps
  <1>6. QED BY <1>4, <1>5

LEMMA TypeDraftInv ==
    ASSUME TableInv, NEW part \in {"key", "val"}, NEW text \in Everything \cup Values, TypeDraft(part, text)
    PROVE  TableInv'
  <1> DEFINE row == WithPart(table.adding, part, text)
             u == [table EXCEPT !.adding = row]
  <1>1. /\ Adding(table) /\ u = table' /\ UNCHANGED <<sort, inside, fresh, turns>>
        /\ text \in IF part = "key" THEN Everything ELSE Values
    BY DEF TypeDraft
  <1>2. row \in [id : Int, key : Everything, val : Values] /\ row.id = table.adding.id
    <2>1. table.adding \in [id : Int, key : Everything, val : Values]
      BY InvParts DEF TableType
    <2>2. QED BY <1>1, <2>1 DEF WithPart
  <1> HIDE DEF row
  <1>3. /\ u \in TableType /\ u.adding = row /\ u.field = table.field
        /\ u.rows = table.rows /\ u.seq = table.seq /\ u.undo = table.undo
        /\ u.query = table.query /\ u.hold = table.hold /\ u.anyway = table.anyway /\ u.save = table.save
    BY <1>2, InvParts DEF TableType
  <1> HIDE DEF u
  <1>4. TableOK(u)
    <2>1. OthersAreApart(u)
      BY <1>1, <1>2, <1>3, InvParts DEF TableOK, OthersAreApart, Adding
    <2>2. QED BY <1>3, <2>1, InvParts DEF TableOK, RowsAreApart, FieldFits
  <1>5. Shows(u, fresh)
    BY <1>3, InvParts DEF Shows
  <1>6. QED BY <1>1, <1>3, <1>4, <1>5, InvParts, LeavesInv

\* A row that is added shows, with those that did.
LEMMA AddedShows ==
    ASSUME NEW t, TableOK(t), NEW F, Shows(t, F)
    PROVE  LET u == CommitAdding(t)
           IN  /\ Shows(u, IF Adding(t) /\ t.adding.key # Blank THEN F \cup {t.adding.id} ELSE F)
               /\ Ids(t.rows) \subseteq Ids(u.rows)
  <1> DEFINE u == CommitAdding(t)
             G == IF Adding(t) /\ t.adding.key # Blank THEN F \cup {t.adding.id} ELSE F
  <1>1. /\ u.query = t.query /\ u.hold = t.hold /\ t.anyway \subseteq u.anyway
        /\ Ids(u.rows) = Ids(t.rows) \cup (IF Adding(t) /\ t.adding.key # Blank THEN {t.adding.id} ELSE {})
        /\ t.query = Everything \/ Ids(u.rows) \ Ids(t.rows) \subseteq u.anyway
    BY CommitAddingKeeps
  <1> HIDE DEF u
  <1>2. Adding(t) => t.adding.id \notin Ids(t.rows) \cup t.hold.hidden
    BY DEF TableOK, OthersAreApart
  <1>3. ASSUME NEW id \in G \cap Ids(u.rows)
        PROVE  id \notin u.hold.hidden /\ (u.query = Everything \/ id \in u.anyway)
    <2>1. CASE id \in Ids(t.rows)
      <3>1. id \in F
        BY <1>2, <1>3, <2>1
      <3>2. QED BY <1>1, <2>1, <3>1 DEF Shows
    <2>2. CASE id \notin Ids(t.rows)
      <3>1. Adding(t) /\ id = t.adding.id
        BY <1>1, <1>3, <2>2
      <3>2. QED BY <1>1, <1>2, <1>3, <2>2, <3>1
    <2>3. QED BY <2>1, <2>2
  <1>4. QED BY <1>1, <1>3 DEF Shows, u

LEMMA CommitDraftInv == ASSUME TableInv, CommitDraft PROVE TableInv'
  <1> DEFINE t == CommitAdding(table)
             F == IF Adding(table) /\ table.adding.key # Blank THEN fresh \cup {table.adding.id} ELSE fresh
  <1>1. Adding(table) /\ FocusLost(t) /\ fresh' = F /\ UNCHANGED <<sort, turns>>
    BY DEF CommitDraft
  <1>2. TableOK(t)
    BY InvParts, CommitAddingKeeps
  <1>3. Shows(t, F)
    BY InvParts, AddedShows
  <1>4. F \in SUBSET Nat
    <2>1. table.adding.id \in 0 .. table.seq - 1
      BY <1>1, InvParts DEF TableOK, OthersAreApart
    <2>2. QED BY <2>1, InvParts, TableParts
  <1> HIDE DEF t, F
  <1>5. QED BY <1>1, <1>2, <1>3, <1>4, InvParts, FocusLostKeeps

LEMMA CancelDraftInv == ASSUME TableInv, CancelDraft PROVE TableInv'
  <1> DEFINE t == [table EXCEPT !.adding = NoRow]
  <1>1. FocusLost(t) /\ UNCHANGED <<sort, fresh, turns>>
    BY DEF CancelDraft
  <1>2. TableOK(t) /\ t.rows = table.rows /\ t.query = table.query /\ t.hold = table.hold /\ t.anyway = table.anyway
    BY InvParts, ClearedAdding
  <1> HIDE DEF t
  <1>3. Shows(t, fresh)
    BY <1>2, InvParts DEF Shows
  <1>4. QED BY <1>1, <1>2, <1>3, InvParts, FocusLostKeeps

\* A deleted row leaves the draft and can be brought back.
LEMMA DeletedKeeps ==
    ASSUME NEW t, TableOK(t), t.field = NoField, NEW id \in Ids(t.rows) \ t.hold.hidden
    PROVE  LET at == CHOOSE i \in DOMAIN t.rows : t.rows[i].id = id
               others == Filtered(t.rows, {r \in ToSet(t.rows) : r.id # id})
               u == [t EXCEPT !.rows = others, !.undo = [row |-> t.rows[at], index |-> at]]
           IN  /\ TableOK(u) /\ u.field = NoField
               /\ Ids(u.rows) \subseteq Ids(t.rows)
               /\ u.query = t.query /\ u.hold = t.hold /\ u.anyway = t.anyway
  <1> DEFINE at == CHOOSE i \in DOMAIN t.rows : t.rows[i].id = id
             keep == {r \in ToSet(t.rows) : r.id # id}
             others == Filtered(t.rows, keep)
             undo == [row |-> t.rows[at], index |-> at]
             u == [t EXCEPT !.rows = others, !.undo = undo]
  <1>1. t \in TableType /\ RowsAreApart(t) /\ GoalsAreSound(t.save) /\ OthersAreApart(t) /\ FieldFits(t)
    BY DEF TableOK
  <1>2. at \in DOMAIN t.rows /\ t.rows[at].id = id
    <2>1. Ids(t.rows) = {t.rows[i].id : i \in DOMAIN t.rows}
      BY <1>1, TableParts
    <2>2. \E i \in DOMAIN t.rows : t.rows[i].id = id
      BY ONLY id \in Ids(t.rows) \ t.hold.hidden, <2>1
    <2>3. QED BY <2>2
  <1> HIDE DEF at
  <1>3. /\ others \in Seq(RowType) /\ ToSet(others) = keep
        /\ \A i, j \in DOMAIN others : others[i].id = others[j].id => i = j
    <2>1. /\ others \in Seq(RowType) /\ ToSet(others) = ToSet(t.rows) \cap keep
          /\ \A i, j \in DOMAIN others : others[i].id = others[j].id => i = j
      <3> HIDE DEF keep
      <3>1. QED BY <1>1, TableParts, FilteredApart DEF RowsAreApart
    <2> HIDE DEF others
    <2>2. QED BY <2>1
  <1>4. Ids(others) = Ids(t.rows) \ {id}
    <2> HIDE DEF others
    <2>1. QED BY <1>3 DEF Ids
  <1>5. undo \in [row : [id : Int, key : Everything, val : Values], index : Nat]
        /\ undo.row.id = id /\ undo.index > 0 /\ id \in 0 .. t.seq - 1
    <2>1. t.rows[at] \in RowType /\ at \in Nat /\ at > 0 /\ t.seq \in Nat
      BY <1>1, <1>2, TableParts
    <2>2. t.rows[at].id < t.seq
      BY <1>1, <1>2 DEF RowsAreApart
    <2>3. QED BY <1>2, <2>1, <2>2 DEF RowType
  <1> HIDE DEF keep, others, undo
  <1>6. /\ u \in TableType /\ u.rows = others /\ u.undo = undo
        /\ u.seq = t.seq /\ u.field = t.field /\ u.adding = t.adding
        /\ u.query = t.query /\ u.hold = t.hold /\ u.anyway = t.anyway /\ u.save = t.save
    BY <1>1, <1>3, <1>5 DEF TableType
  <1> HIDE DEF u
  <1>7. RowsAreApart(u)
    <2>1. \A i \in DOMAIN others : others[i].id < t.seq
      <3> TAKE i \in DOMAIN others
      <3>1. others[i] \in ToSet(t.rows)
        BY <1>3 DEF ToSet, keep
      <3>2. QED BY <1>1, <3>1 DEF ToSet, RowsAreApart
    <2>2. QED BY <1>3, <1>6, <2>1 DEF RowsAreApart
  <1>8. OthersAreApart(u)
    <2>1. t.adding.id # id
      <3>1. id \in Nat
        BY <1>5
      <3>2. QED BY <1>1, <3>1, NoFieldParts DEF OthersAreApart, Adding
    <2>2. QED BY <1>1, <1>4, <1>5, <1>6, <2>1 DEF OthersAreApart, Adding
  <1>9. TableOK(u)
    BY <1>1, <1>6, <1>7, <1>8 DEF TableOK, FieldFits
  <1>10. QED BY <1>4, <1>6, <1>9 DEF u, others, keep, undo, at

LEMMA DeleteRowInv == ASSUME TableInv, NEW id \in Ids(table.rows), DeleteRow(id) PROVE TableInv'
  <1> DEFINE t == HoldLayout(CommitField(table))
             at == CHOOSE i \in DOMAIN t.rows : t.rows[i].id = id
             others == Filtered(t.rows, {r \in ToSet(t.rows) : r.id # id})
             u == [t EXCEPT !.rows = others, !.undo = [row |-> t.rows[at], index |-> at]]
             next == StageRows(u)
  <1>1. /\ TableOK(t) /\ t.field = NoField /\ t.hold.sort = sort /\ Shows(t, fresh)
        /\ id \in Ids(t.rows) \ t.hold.hidden
    <2>1. id \in Visible
      BY Zenon DEF DeleteRow
    <2>2. /\ TableOK(t) /\ t.field = NoField /\ t.hold.sort = sort /\ Shows(t, fresh)
          /\ Visible = Ids(t.rows) \ t.hold.hidden
      BY Zenon, PressedKeeps
    <2>3. QED BY ONLY <2>1, <2>2
  <1>2. /\ fresh' = fresh /\ sort' = sort
        /\ IF RowBeside(OnScreen(t, sort), id) = -1 THEN FocusLost(next) ELSE FocusInside(next)
    BY Zenon DEF DeleteRow
  <1>t. turns' \in Nat
    BY TurnsLeft DEF DeleteRow
  <1> HIDE DEF t
  <1>3. /\ TableOK(u) /\ u.field = NoField
        /\ Ids(u.rows) \subseteq Ids(t.rows)
        /\ u.query = t.query /\ u.hold = t.hold /\ u.anyway = t.anyway
    BY <1>1, DeletedKeeps
  <1> HIDE DEF u
  <1>4. TableOK(next) /\ SameButSave(u, next)
    BY <1>3, StageKeeps
  <1> HIDE DEF next
  <1>5. Shows(next, fresh) /\ next.field = NoField
    BY <1>1, <1>3, <1>4 DEF Shows, SameButSave
  <1>6. FocusLost(next) \/ FocusInside(next)
    BY ONLY <1>2, Zenon
  <1>7. QED BY <1>2, <1>t, <1>4, <1>5, <1>6, InvParts, FocusLostKeeps, FocusInsideKeeps

\* A row that is brought back is in the draft again, and not filtered.
LEMMA UndoneKeeps ==
    ASSUME NEW t, TableOK(t), t.undo # NoUndo, NEW F, Shows(t, F)
    PROVE  LET at == IF t.undo.index <= Len(t.rows) THEN t.undo.index ELSE Len(t.rows) + 1
               u == ShowAnyway([t EXCEPT !.rows = InsertAt(@, at, t.undo.row), !.undo = NoUndo], t.undo.row.id)
           IN  /\ TableOK(u) /\ u.field = t.field /\ u.hold = t.hold
               /\ Shows(u, F \cup {t.undo.row.id})
               /\ Ids(t.rows) \subseteq Ids(u.rows)
  <1> DEFINE r == t.undo.row
             at == IF t.undo.index <= Len(t.rows) THEN t.undo.index ELSE Len(t.rows) + 1
             rows == InsertAt(t.rows, at, r)
             next == [t EXCEPT !.rows = rows, !.undo = NoUndo]
             u == ShowAnyway(next, r.id)
  <1>1. t \in TableType /\ RowsAreApart(t) /\ GoalsAreSound(t.save) /\ OthersAreApart(t) /\ FieldFits(t)
    BY DEF TableOK
  <1>2. /\ r \in RowType /\ r.id \in 0 .. t.seq - 1 /\ r.id \notin Ids(t.rows) /\ r.id \notin t.hold.hidden
        /\ r.id # t.adding.id /\ at \in 1 .. Len(t.rows) + 1
    <2>1. /\ r.id \in 0 .. t.seq - 1 /\ r.id \notin Ids(t.rows) /\ r.id \notin t.hold.hidden /\ r.id # t.adding.id
          /\ t.undo.index > 0
      BY <1>1 DEF OthersAreApart
    <2>2. t.undo.index \in Nat /\ Len(t.rows) \in Nat /\ t.seq \in Nat
      BY <1>1, TableParts
    <2>3. r \in [id : Int, key : Everything, val : Values]
      BY <1>1 DEF TableType
    <2>4. at \in 1 .. Len(t.rows) + 1
      BY <2>1, <2>2
    <2> HIDE DEF r, at
    <2>5. r \in RowType
      BY <2>1, <2>2, <2>3 DEF RowType
    <2>6. QED BY <2>1, <2>4, <2>5
  <1> HIDE DEF r, at
  <1>3. /\ rows \in Seq(RowType) /\ Ids(rows) = Ids(t.rows) \cup {r.id}
        /\ \A i, j \in DOMAIN rows : rows[i].id = rows[j].id => i = j
    BY <1>1, <1>2, TableParts, InsertedApart DEF RowsAreApart
  <1> HIDE DEF rows
  <1>4. /\ next \in TableType /\ next.rows = rows /\ next.undo = NoUndo
        /\ next.seq = t.seq /\ next.field = t.field /\ next.adding = t.adding
        /\ next.query = t.query /\ next.hold = t.hold /\ next.anyway = t.anyway /\ next.save = t.save
    BY <1>1, <1>3, NoFieldParts DEF TableType
  <1> HIDE DEF next
  <1>5. /\ u \in TableType /\ u.rows = rows /\ u.undo = NoUndo
        /\ u.seq = t.seq /\ u.field = t.field /\ u.adding = t.adding
        /\ u.query = t.query /\ u.hold = t.hold /\ u.save = t.save
        /\ t.anyway \subseteq u.anyway /\ (t.query = Everything \/ r.id \in u.anyway)
    <2>1. CASE t.query = Everything
      <3>1. u = next
        BY <1>4, <2>1 DEF ShowAnyway
      <3>2. QED BY <1>4, <2>1, <3>1
    <2>2. CASE t.query # Everything
      <3>1. u = [next EXCEPT !.anyway = @ \cup {r.id}]
        BY <1>4, <2>2 DEF ShowAnyway
      <3>2. next.anyway \cup {r.id} \in SUBSET Nat
        BY <1>1, <1>2, <1>4, TableParts
      <3> HIDE DEF u
      <3>3. QED BY <1>4, <2>2, <3>1, <3>2 DEF TableType
    <2>3. QED BY <2>1, <2>2
  <1> HIDE DEF u
  <1>6. RowsAreApart(u)
    <2>1. \A i \in DOMAIN rows : rows[i].id < t.seq
      <3> TAKE i \in DOMAIN rows
      <3>1. rows[i].id \in Ids(t.rows) \cup {r.id}
        <4>1. rows[i].id \in Ids(rows)
          BY DEF Ids, ToSet
        <4>2. QED BY ONLY <1>3, <4>1
      <3>2. t.seq \in Nat /\ r.id < t.seq
        BY <1>1, <1>2, TableParts
      <3>3. \A id \in Ids(t.rows) : id < t.seq
        BY <1>1 DEF RowsAreApart, Ids, ToSet
      <3>4. QED BY ONLY <3>1, <3>2, <3>3
    <2>2. QED BY <1>3, <1>5, <2>1 DEF RowsAreApart
  <1>7. OthersAreApart(u)
    BY <1>1, <1>2, <1>3, <1>5 DEF OthersAreApart, Adding
  <1>8. TableOK(u)
    BY <1>1, <1>5, <1>6, <1>7 DEF TableOK, FieldFits
  <1>9. Shows(u, F \cup {r.id})
    BY <1>2, <1>3, <1>5 DEF Shows
  <1>10. QED BY <1>3, <1>5, <1>8, <1>9 DEF u, next, rows, at, r

LEMMA UndoDeleteInv == ASSUME TableInv, UndoDelete PROVE TableInv'
  <1> DEFINE at == IF table.undo.index <= Len(table.rows) THEN table.undo.index ELSE Len(table.rows) + 1
             u == ShowAnyway([table EXCEPT !.rows = InsertAt(@, at, table.undo.row), !.undo = NoUndo], table.undo.row.id)
             next == StageRows(u)
             F == fresh \cup {table.undo.row.id}
  <1>1. table.undo # NoUndo /\ FocusInside(next) /\ fresh' = F /\ UNCHANGED <<sort, turns>>
    <2>1. table.undo # NoUndo /\ UNCHANGED <<sort, turns>>
      BY DEF UndoDelete
    <2>2. fresh' = F
      BY Zenon DEF UndoDelete
    <2>3. FocusInside(next)
      BY Zenon DEF UndoDelete
    <2> HIDE DEF F, next
    <2>4. QED BY <2>1, <2>2, <2>3
  <1>2. /\ TableOK(u) /\ u.field = table.field /\ u.hold = table.hold /\ Shows(u, F)
        /\ Ids(table.rows) \subseteq Ids(u.rows)
    BY <1>1, InvParts, UndoneKeeps
  <1>3. F \in SUBSET Nat
    <2>1. table.undo.row.id \in 0 .. table.seq - 1
      BY <1>1, InvParts DEF TableOK, OthersAreApart
    <2>2. QED BY <2>1, InvParts, TableParts
  <1> HIDE DEF u
  <1>4. TableOK(next) /\ SameButSave(u, next)
    BY <1>2, StageKeeps
  <1> HIDE DEF next, F
  <1>5. /\ Shows(next, F) /\ next.field = table.field /\ next.hold = table.hold
        /\ Ids(table.rows) \subseteq Ids(next.rows)
    BY <1>2, <1>4 DEF Shows, SameButSave
  <1>6. QED BY <1>1, <1>3, <1>4, <1>5, InvParts, FocusInsideKeeps

LEMMA DismissUndoInv == ASSUME TableInv, DismissUndo PROVE TableInv'
  <1> DEFINE u == [table EXCEPT !.undo = NoUndo]
  <1>1. table' = u /\ UNCHANGED <<sort, inside, fresh, turns>>
    BY DEF DismissUndo
  <1>2. /\ u \in TableType /\ u.undo = NoUndo /\ u.field = table.field
        /\ u.rows = table.rows /\ u.seq = table.seq /\ u.adding = table.adding
        /\ u.query = table.query /\ u.hold = table.hold /\ u.anyway = table.anyway /\ u.save = table.save
    BY InvParts, NoFieldParts DEF TableType
  <1> HIDE DEF u
  <1>3. TableOK(u)
    BY <1>2, InvParts DEF TableOK, RowsAreApart, OthersAreApart, Adding, FieldFits
  <1>4. Shows(u, fresh)
    BY <1>2, InvParts DEF Shows
  <1>5. QED BY <1>1, <1>2, <1>3, <1>4, InvParts, LeavesInv

LEMMA LeaveRegionInv == ASSUME TableInv, LeaveRegion PROVE TableInv'
  <1> DEFINE c == CommitField(table)
             u == ReleaseLayout(c)
  <1>1. table' = u /\ inside' = FALSE /\ UNCHANGED <<sort, fresh, turns>>
    BY DEF LeaveRegion, Blurred
  <1>2. TableOK(c) /\ c.field = NoField /\ SameButRowsAndSave(table, c)
    BY InvParts, CommitFieldKeeps
  <1> HIDE DEF c
  <1>3. Shows(c, fresh)
    BY <1>2, InvParts DEF Shows, SameButRowsAndSave
  <1>4. TableOK(u) /\ u.field = NoField /\ Shows(u, fresh)
    BY <1>2, <1>3, ReleaseKeeps
  <1> HIDE DEF u
  <1>5. QED BY <1>1, <1>4, InvParts, LeavesInv

LEMMA EnterRegionInv == ASSUME TableInv, EnterRegion PROVE TableInv'
  <1>1. FocusInside(table) /\ UNCHANGED <<sort, fresh>> /\ turns' \in Nat
    BY TurnsLeft DEF EnterRegion
  <1>2. QED BY <1>1, InvParts, FocusInsideKeeps

LEMMA SetQueryInv == ASSUME TableInv, NEW q \in Queries \cup {Everything}, SetQuery(q) PROVE TableInv'
  <1> DEFINE t == [table EXCEPT !.query = q, !.anyway = IF q = Everything THEN {} ELSE @]
             u == ReleaseLayout(t)
  <1>1. /\ ~inside /\ table' = u /\ sort' = sort /\ inside' = inside
        /\ fresh' = IF Everything \in {q, table.query} THEN {} ELSE fresh
    BY DEF SetQuery
  <1>t. turns' \in Nat
    BY TurnsLeft DEF SetQuery
  <1>2. q \in SUBSET Everything
    BY TableAssumption DEF Everything
  <1>3. /\ t \in TableType /\ t.query = q /\ t.field = table.field
        /\ t.anyway = IF q = Everything THEN {} ELSE table.anyway
        /\ t.rows = table.rows /\ t.seq = table.seq /\ t.adding = table.adding /\ t.undo = table.undo
        /\ t.hold = table.hold /\ t.save = table.save
    <2>1. /\ table \in TableType /\ table.anyway \in SUBSET Nat
      BY InvParts, TableParts
    <2>2. QED BY <1>2, <2>1 DEF TableType
  <1> HIDE DEF t
  <1>4. TableOK(t)
    BY <1>3, InvParts DEF TableOK, RowsAreApart, OthersAreApart, Adding, FieldFits
  <1>5. Shows(t, fresh') /\ fresh' \in SUBSET Nat
    BY <1>1, <1>3, InvParts DEF Shows
  <1>6. TableOK(u) /\ u.field = NoField /\ Shows(u, fresh')
    BY <1>1, <1>3, <1>4, <1>5, InvParts, ReleaseKeeps
  <1> HIDE DEF u
  <1>7. QED BY <1>1, <1>t, <1>5, <1>6, InvParts, LeavesInv

LEMMA SetSortInv == ASSUME TableInv, NEW mode \in SortModes, SetSort(mode) PROVE TableInv'
  <1>1. sort' = mode /\ table.field = NoField /\ table' = table /\ UNCHANGED <<inside, fresh>> /\ turns' \in Nat
    BY TurnsLeft DEF SetSort
  <1>2. QED BY <1>1, InvParts, LeavesInv

\* requestFlush: the save is told, and nothing else changes.
LEMMA FlushedKeeps ==
    ASSUME NEW t, TableOK(t)
    PROVE  LET u == Flushing(t)
           IN  TableOK(u) /\ SameButSave(t, u) /\ u.save.head = t.save.head /\ u.save.acked = t.save.acked
  <1> DEFINE q == Writes!Flush(t.save)
             u == Flushing(t)
  <1>1. t \in TableType /\ t.save \in QueueType /\ GoalsAreSound(t.save)
    BY DEF TableOK, TableType, QueueType
  <1>2. q \in QueueType /\ GoalsAreSound(q) /\ q.head = t.save.head /\ q.acked = t.save.acked
    BY <1>1, FlushSound
  <1>3. u = [t EXCEPT !.save = q]
    BY DEF Flushing
  <1> HIDE DEF q, u
  <1>4. u \in TableType /\ SameButSave(t, u) /\ u.save = q
    BY <1>1, <1>2, <1>3 DEF TableType, SameButSave, QueueType
  <1>5. TableOK(u)
    BY <1>2, <1>4 DEF TableOK, SameButSave, RowsAreApart, OthersAreApart, Adding, FieldFits
  <1>6. QED BY <1>2, <1>4, <1>5 DEF u

LEMMA AskDeleteInv == ASSUME TableInv, AskDelete PROVE TableInv'
  <1> DEFINE t == CommitAdding(table)
             u == Flushing(t)
             F == IF Adding(table) /\ table.adding.key # Blank THEN fresh \cup {table.adding.id} ELSE fresh
  <1>1. ~inside /\ sort' = sort /\ inside' = inside /\ fresh' = F /\ table' = Flushing(CommitPending(table))
    BY DEF AskDelete
  <1>t. turns' \in Nat
    BY TurnsLeft DEF AskDelete
  <1>2. table.field = NoField /\ CommitField(table) = table
    BY <1>1, InvParts, CommitFieldKeeps
  <1>3. table' = u
    BY <1>1, <1>2 DEF CommitPending
  <1>4. TableOK(t) /\ t.field = NoField
    BY <1>2, InvParts, CommitAddingKeeps
  <1>5. Shows(t, F)
    BY InvParts, AddedShows
  <1>6. F \in SUBSET Nat
    <2>1. Adding(table) => table.adding.id \in 0 .. table.seq - 1
      BY InvParts DEF TableOK, OthersAreApart
    <2>2. QED BY <2>1, InvParts, TableParts
  <1> HIDE DEF t
  <1>7. TableOK(u) /\ SameButSave(t, u)
    BY <1>4, FlushedKeeps
  <1> HIDE DEF u, F
  <1>8. Shows(u, F) /\ u.field = NoField
    BY <1>4, <1>5, <1>7 DEF Shows, SameButSave
  <1>9. QED BY <1>1, <1>t, <1>3, <1>6, <1>7, <1>8, InvParts, LeavesInv

LEMMA RetryWriteInv == ASSUME TableInv, RetryWrite PROVE TableInv'
  <1> DEFINE u == Flushing(table)
  <1>1. table' = u /\ UNCHANGED <<sort, inside, fresh, turns>>
    BY DEF RetryWrite
  <1>2. TableOK(u) /\ SameButSave(table, u)
    BY InvParts, FlushedKeeps
  <1> HIDE DEF u
  <1>3. Shows(u, fresh)
    BY <1>2, InvParts DEF Shows, SameButSave
  <1>4. QED BY <1>1, <1>2, <1>3, InvParts, LeavesInv DEF SameButSave

LEMMA WriteAnsweredInv == ASSUME TableInv, NEW ok \in BOOLEAN, WriteAnswered(ok) PROVE TableInv'
  <1> DEFINE q == Writes!Settled(table.save, ok)
             u == [table EXCEPT !.save = q]
  <1>1. table.save.flight # Writes!NoFlight /\ table' = u /\ UNCHANGED <<sort, inside, fresh, turns>>
    BY DEF WriteAnswered
  <1>2. table.save \in QueueType /\ GoalsAreSound(table.save) /\ table \in TableType
    BY InvParts DEF TableOK, TableType, QueueType
  <1>3. q \in QueueType /\ GoalsAreSound(q)
    BY <1>1, <1>2, SettledSound
  <1> HIDE DEF q
  <1>4. u \in TableType /\ SameButSave(table, u) /\ u.save = q
    BY <1>2, <1>3 DEF TableType, SameButSave, QueueType
  <1> HIDE DEF u
  <1>5. TableOK(u) /\ Shows(u, fresh)
    BY <1>3, <1>4, InvParts DEF TableOK, SameButSave, RowsAreApart, OthersAreApart, Adding, FieldFits, Shows
  <1>6. QED BY <1>1, <1>4, <1>5, InvParts, LeavesInv DEF SameButSave

-----------------------------------------------------------------------------
(* What is made of an unsound draft. *)

\* What tells the rows of two sequences apart tells those of both apart.
TellsApart(f, rows) == \A i, j \in DOMAIN rows : f[rows[i]] = f[rows[j]] => i = j
TellsFrom(f, a, b) == \A i \in DOMAIN a, j \in DOMAIN b : f[a[i]] # f[b[j]]

LEMMA JoinedApart ==
    ASSUME NEW a \in Seq(RowType), NEW b \in Seq(RowType), NEW f \in [RowType -> Nat],
           TellsApart(f, a), TellsApart(f, b), TellsFrom(f, a, b)
    PROVE  TellsApart(f, a \o b)
  <1> DEFINE u == a \o b
  <1>1. /\ Len(a) \in Nat /\ Len(b) \in Nat /\ DOMAIN a = 1 .. Len(a) /\ DOMAIN b = 1 .. Len(b)
        /\ DOMAIN u = 1 .. Len(a) + Len(b)
        /\ \A i \in 1 .. Len(a) : u[i] = a[i]
        /\ \A i \in Len(a) + 1 .. Len(a) + Len(b) : u[i] = b[i - Len(a)]
    OBVIOUS
  <1> HIDE DEF u
  <1>2. \A i \in DOMAIN u : \/ i \in DOMAIN a /\ u[i] = a[i]
                            \/ i - Len(a) \in DOMAIN b /\ u[i] = b[i - Len(a)]
    <2> TAKE i \in DOMAIN u
    <2>1. i \in 1 .. Len(a) \/ (i \in Len(a) + 1 .. Len(a) + Len(b) /\ i - Len(a) \in 1 .. Len(b))
      BY <1>1
    <2>2. QED BY ONLY <1>1, <2>1
  <1>3. ASSUME NEW i \in DOMAIN u, NEW j \in DOMAIN u, f[u[i]] = f[u[j]] PROVE i = j
    <2>1. i \in Int /\ j \in Int
      BY <1>1
    <2>2. CASE i \in DOMAIN a /\ u[i] = a[i] /\ j \in DOMAIN a /\ u[j] = a[j]
      BY <1>3, <2>2 DEF TellsApart
    <2>3. CASE i - Len(a) \in DOMAIN b /\ u[i] = b[i - Len(a)] /\ j - Len(a) \in DOMAIN b /\ u[j] = b[j - Len(a)]
      <3>1. i - Len(a) = j - Len(a)
        BY <1>3, <2>3 DEF TellsApart
      <3>2. QED BY <1>1, <2>1, <3>1
    <2>4. CASE i \in DOMAIN a /\ u[i] = a[i] /\ j - Len(a) \in DOMAIN b /\ u[j] = b[j - Len(a)]
      BY <1>3, <2>4 DEF TellsFrom
    <2>5. CASE i - Len(a) \in DOMAIN b /\ u[i] = b[i - Len(a)] /\ j \in DOMAIN a /\ u[j] = a[j]
      BY <1>3, <2>5 DEF TellsFrom
    <2>6. QED BY <1>2, <2>2, <2>3, <2>4, <2>5
  <1>4. QED BY <1>3 DEF TellsApart, u

\* A row without an issue has a name, which no other has.
LEMMA GoodRows ==
    ASSUME NEW rows \in Seq(RowType), \A i, j \in DOMAIN rows : rows[i].id = rows[j].id => i = j,
           NEW g \in ToSet(rows), g.id \notin IssuesOf(rows)
    PROVE  /\ g \in RowType /\ g.key \in Keys
           /\ \A r \in ToSet(rows) : r.key = g.key => r = g
  <1>1. ToSet(rows) = {rows[i] : i \in DOMAIN rows} /\ \A i \in DOMAIN rows : rows[i] \in RowType
    BY DEF ToSet
  <1>2. g.id \notin BlankRows(rows) /\ g.id \notin TwinRows(rows)
    BY DEF IssuesOf
  <1>3. g \in RowType /\ g.key # Blank
    BY <1>1, <1>2 DEF BlankRows
  <1>4. g.key \in Keys
    BY <1>3 DEF RowType, Everything
  <1>5. ASSUME NEW r \in ToSet(rows), r.key = g.key PROVE r = g
    <2>1. r.id = g.id
      BY <1>2, <1>3, <1>5 DEF TwinRows
    <2>2. QED BY <1>1, <2>1
  <1>6. QED BY <1>3, <1>4, <1>5

\* salvage: a sound draft with each row without an issue and each acknowledged variable.
LEMMA SalvagedParts ==
    ASSUME NEW t \in TableType, RowsAreApart(t), IsStorable(t.save.acked.goal)
    PROVE  LET acked == t.save.acked.goal.variables
               made == SalvagedRows(t.rows, acked, t.seq)
           IN  /\ made.rows \in Seq(RowType) /\ made.seq \in Nat /\ made.seq >= t.seq
               /\ \A i \in DOMAIN made.rows : made.rows[i].id < made.seq
               /\ \A i, j \in DOMAIN made.rows : made.rows[i].id = made.rows[j].id => i = j
               /\ IsSound(made.rows)
               /\ \A r \in ToSet(t.rows) : r.id \notin IssuesOf(t.rows) => r \in ToSet(made.rows)
               /\ \A i \in DOMAIN acked : \E r \in ToSet(made.rows) : r.key = acked[i][1]
  <1> DEFINE rows == t.rows
             seq == t.seq
             acked == t.save.acked.goal.variables
  <1> rows \in Seq(RowType) /\ seq \in Nat /\ \A i \in DOMAIN rows : rows[i].id < seq
    BY TableParts DEF RowsAreApart
  <1> \A i, j \in DOMAIN rows : rows[i].id = rows[j].id => i = j
    BY DEF RowsAreApart
  <1> acked \in Seq(Keys \X Values) /\ \A i, j \in DOMAIN acked : acked[i][1] = acked[j][1] => i = j
    BY DEF IsStorable
  <1> HIDE DEF rows, seq, acked
  <1> DEFINE good == {r \in ToSet(rows) : r.id \notin IssuesOf(rows)}
             With(key) == {r \in good : r.key = key}
             missing == {i \in DOMAIN acked : With(acked[i][1]) = {}}
             below(i) == {j \in missing : j < i}
             Minted(i) == [id |-> seq + Cardinality(below(i)), key |-> acked[i][1], val |-> acked[i][2]]
             known == {acked[i][1] : i \in DOMAIN acked}
             m == Cardinality(missing)
             first == [i \in DOMAIN acked |-> IF i \in missing THEN Minted(i) ELSE CHOOSE r \in With(acked[i][1]) : TRUE]
             new == {r \in good : r.key \notin known}
             rest == Filtered(rows, new)
             made == SalvagedRows(rows, acked, seq)
             all == first \o rest
  <1>1. made.rows = all /\ made.seq = seq + m
    BY DEF SalvagedRows
  <1>2. \A g \in good : g \in RowType /\ g.key \in Keys /\ g.id \in Nat /\ g.id < seq
                        /\ \A r \in good : r.key = g.key \/ r.id = g.id => r = g
    <2> TAKE g \in good
    <2>1. g \in RowType /\ g.key \in Keys /\ \A r \in ToSet(rows) : r.key = g.key => r = g
      BY GoodRows
    <2>2. \A r \in ToSet(rows) : r.id = g.id => r = g
      BY DEF ToSet
    <2>3. g.id < seq
      BY DEF ToSet
    <2>4. QED BY <2>1, <2>2, <2>3 DEF RowType
  <1>a. Len(acked) \in Nat /\ DOMAIN acked = 1 .. Len(acked)
        /\ \A i \in DOMAIN acked : i \in Nat /\ acked[i][1] \in Keys /\ acked[i][2] \in Values
    OBVIOUS
  <1>3. IsFiniteSet(missing) /\ m \in Nat /\ missing \subseteq DOMAIN acked
    <2>1. missing \subseteq DOMAIN acked
      OBVIOUS
    <2>2. IsFiniteSet(DOMAIN acked)
      BY <1>a, FS_Interval
    <2> HIDE DEF missing
    <2>3. IsFiniteSet(missing)
      BY <2>1, <2>2, FS_Subset
    <2>4. QED BY <2>1, <2>3, FS_CardinalityType
  <1>4. \A i \in missing : Cardinality(below(i)) \in Nat /\ Cardinality(below(i)) < m
    <2> TAKE i \in missing
    <2>1. below(i) \in SUBSET missing /\ i \notin below(i)
      BY <1>3, <1>a
    <2> HIDE DEF below, missing
    <2>2. IsFiniteSet(below(i)) /\ Cardinality(below(i)) <= m /\ Cardinality(below(i)) # m
      BY <1>3, <2>1, FS_Subset
    <2>3. Cardinality(below(i)) \in Nat
      BY <2>2, FS_CardinalityType
    <2>4. QED BY <1>3, <2>2, <2>3
  <1>5. \A i, j \in missing : i < j => Cardinality(below(i)) < Cardinality(below(j))
    <2> TAKE i, j \in missing
    <2> HAVE i < j
    <2>0. i \in Nat /\ j \in Nat /\ \A k \in missing : k \in Nat
      BY <1>3, <1>a
    <2>1. below(i) \in SUBSET below(j) /\ i \in below(j) /\ i \notin below(i)
      BY <2>0
    <2>2. below(j) \in SUBSET missing
      OBVIOUS
    <2>3. Cardinality(below(i)) \in Nat /\ Cardinality(below(j)) \in Nat
      BY <1>4
    <2> HIDE DEF below, missing
    <2>4. IsFiniteSet(below(j))
      BY <1>3, <2>2, FS_Subset
    <2>5. Cardinality(below(i)) <= Cardinality(below(j)) /\ Cardinality(below(i)) # Cardinality(below(j))
      BY <2>1, <2>4, FS_Subset
    <2>6. QED BY <2>3, <2>5
  <1>6. \A i \in missing : /\ first[i] = Minted(i) /\ first[i] \in RowType /\ first[i].key = acked[i][1]
                           /\ first[i].id = seq + Cardinality(below(i))
    <2> TAKE i \in missing
    <2>1. first[i] = Minted(i)
      BY <1>3
    <2>2. /\ Minted(i).key = acked[i][1] /\ Minted(i).val = acked[i][2] /\ Minted(i).id = seq + Cardinality(below(i))
      OBVIOUS
    <2>3. Minted(i) \in RowType
      <3>1. Cardinality(below(i)) \in Nat
        BY <1>4
      <3>2. i \in DOMAIN acked
        BY <1>3
      <3> HIDE DEF below, missing
      <3>3. seq + Cardinality(below(i)) \in Nat /\ acked[i][1] \in Everything /\ acked[i][2] \in Values
        BY <1>a, <3>1, <3>2 DEF Everything
      <3>4. QED BY <3>3 DEF RowType
    <2>4. QED BY <2>1, <2>2, <2>3
  <1>7. \A i \in DOMAIN acked \ missing : first[i] \in good /\ first[i].key = acked[i][1]
    <2> TAKE i \in DOMAIN acked \ missing
    <2>1. first[i] = CHOOSE r \in With(acked[i][1]) : TRUE
      OBVIOUS
    <2>2. With(acked[i][1]) # {}
      OBVIOUS
    <2>3. first[i] \in With(acked[i][1])
      <3> HIDE DEF With, first
      <3>1. QED BY <2>1, <2>2
    <2>4. QED BY <2>3
  <1>8. DOMAIN first = DOMAIN acked
    OBVIOUS
  <1>9. \A i \in DOMAIN acked \ missing : first[i] \in RowType /\ first[i].id < seq /\ first[i].id \in Nat
    <2> HIDE DEF first, good, missing
    <2>1. QED BY <1>2, <1>7
  <1>10. first \in Seq(RowType)
    <2>1. \A i \in 1 .. Len(acked) : first[i] \in RowType
      <3> HIDE DEF first, missing
      <3>1. QED BY <1>6, <1>9, <1>a
    <2>2. first = [i \in 1 .. Len(acked) |-> first[i]]
      BY <1>a
    <2> HIDE DEF first
    <2>3. first \in [1 .. Len(acked) -> RowType]
      BY <2>1, <2>2
    <2>4. QED BY <1>a, <2>3, SeqDef
  <1>11. /\ rest \in Seq(RowType) /\ ToSet(rest) = new
         /\ \A i, j \in DOMAIN rest : rest[i].id = rest[j].id => i = j
    <2>1. new \subseteq ToSet(rows)
      OBVIOUS
    <2> HIDE DEF new
    <2>2. /\ rest \in Seq(RowType) /\ ToSet(rest) = ToSet(rows) \cap new
          /\ \A i, j \in DOMAIN rest : rest[i].id = rest[j].id => i = j
      BY FilteredApart
    <2> HIDE DEF rest
    <2>3. QED BY <2>1, <2>2
  <1> HIDE DEF rest, first, below, Minted
  <1>12. \A i \in DOMAIN rest : rest[i] \in new /\ rest[i] \in good /\ rest[i].key \notin known
    BY <1>11 DEF ToSet
  <1>13. all \in Seq(RowType) /\ ToSet(all) = ToSet(first) \cup new
    BY <1>10, <1>11, JoinedParts
  <1>14. \A i \in DOMAIN acked : first[i].key = acked[i][1] /\ first[i].key \in known /\ first[i].key \in Keys
    <2> TAKE i \in DOMAIN acked
    <2>1. first[i].key = acked[i][1]
      <3> HIDE DEF missing
      <3>1. QED BY <1>6, <1>7
    <2>2. QED BY <1>a, <2>1
  <1> HIDE DEF missing, new
  <1>15. \A i, j \in DOMAIN all : all[i].id = all[j].id => i = j
    <2> DEFINE f == [r \in RowType |-> r.id]
    <2>1. f \in [RowType -> Nat] /\ \A r \in RowType : f[r] = r.id
      BY DEF RowType
    <2>2. ASSUME NEW i \in DOMAIN acked, NEW j \in DOMAIN acked, first[i].id = first[j].id PROVE i = j
      <3>1. CASE i \in missing /\ j \in missing
        <4> DEFINE ci == Cardinality(below(i))
                   cj == Cardinality(below(j))
        <4>1. ci = cj
          BY <1>4, <1>6, <2>2, <3>1
        <4>2. i < j => ci < cj
          BY <1>5, <3>1
        <4>3. j < i => cj < ci
          BY <1>5, <3>1
        <4>4. ci \in Nat /\ cj \in Nat /\ i \in Nat /\ j \in Nat
          BY <1>4, <1>a, <3>1
        <4> HIDE DEF ci, cj
        <4>5. QED BY <4>1, <4>2, <4>3, <4>4
      <3>2. CASE i \notin missing /\ j \notin missing
        <4>1. first[i] = first[j]
          BY <1>2, <1>7, <2>2, <3>2
        <4>2. QED BY <1>7, <3>2, <4>1
      <3>3. CASE i \in missing /\ j \notin missing
        BY <1>4, <1>6, <1>9, <2>2, <3>3
      <3>4. CASE i \notin missing /\ j \in missing
        BY <1>4, <1>6, <1>9, <2>2, <3>4
      <3>5. QED BY <3>1, <3>2, <3>3, <3>4
    <2>3. ASSUME NEW i \in DOMAIN acked, NEW j \in DOMAIN rest PROVE first[i].id # rest[j].id
      <3>1. rest[j] \in good /\ rest[j].key \notin known /\ rest[j].id \in Nat /\ rest[j].id < seq
        <4> HIDE DEF good
        <4>1. QED BY <1>2, <1>12
      <3>2. CASE i \in missing
        BY <1>4, <1>6, <3>1, <3>2
      <3>3. CASE i \notin missing
        <4>1. first[i] \in good /\ first[i] # rest[j]
          BY <1>7, <1>14, <3>1, <3>3
        <4> HIDE DEF good
        <4>2. QED BY <1>2, <3>1, <4>1
      <3>4. QED BY <3>2, <3>3
    <2>4. \A i \in DOMAIN first : first[i] \in RowType
      BY <1>10
    <2>5. \A i \in DOMAIN rest : rest[i] \in RowType
      BY <1>11
    <2>6. TellsApart(f, first) /\ TellsApart(f, rest) /\ TellsFrom(f, first, rest)
      <3> HIDE DEF f
      <3>1. \A i \in DOMAIN first : f[first[i]] = first[i].id
        BY ONLY <2>1, <2>4
      <3>2. \A i \in DOMAIN rest : f[rest[i]] = rest[i].id
        BY ONLY <2>1, <2>5
      <3>3. QED BY ONLY <1>8, <1>11, <2>2, <2>3, <3>1, <3>2 DEF TellsApart, TellsFrom
    <2> HIDE DEF f
    <2>7. TellsApart(f, all)
      BY <1>10, <1>11, <2>1, <2>6, JoinedApart
    <2>8. \A i \in DOMAIN all : all[i] \in RowType
      <3> HIDE DEF all
      <3>1. QED BY <1>13
    <2> HIDE DEF all
    <2>9. QED BY <2>1, <2>7, <2>8 DEF TellsApart
  <1>16. \A i, j \in DOMAIN all : all[i].key = all[j].key => i = j
    <2> DEFINE f == [r \in RowType |-> r.key]
    <2>1. f \in [RowType -> Nat] /\ \A r \in RowType : f[r] = r.key
      BY EverythingIsNumbers DEF RowType
    <2>2. \A i, j \in DOMAIN acked : first[i].key = first[j].key => i = j
      BY <1>14
    <2>3. \A i \in DOMAIN acked, j \in DOMAIN rest : first[i].key # rest[j].key
      BY <1>12, <1>14
    <2>4. \A i \in DOMAIN first : first[i] \in RowType
      BY <1>10
    <2>5. \A i \in DOMAIN rest : rest[i] \in RowType
      BY <1>11
    <2>p. \A i, j \in DOMAIN rest : rest[i].key = rest[j].key => i = j
      <3> HIDE DEF good, known
      <3>1. \A i, j \in DOMAIN rest : rest[i].key = rest[j].key => rest[i] = rest[j]
        BY <1>2, <1>12
      <3>2. QED BY <1>11, <3>1
    <2>6. TellsApart(f, first) /\ TellsApart(f, rest) /\ TellsFrom(f, first, rest)
      <3> HIDE DEF f
      <3>1. \A i \in DOMAIN first : f[first[i]] = first[i].key
        BY ONLY <2>1, <2>4
      <3>2. \A i \in DOMAIN rest : f[rest[i]] = rest[i].key
        BY ONLY <2>1, <2>5
      <3>3. QED BY ONLY <1>8, <2>p, <2>2, <2>3, <3>1, <3>2 DEF TellsApart, TellsFrom
    <2> HIDE DEF f
    <2>7. TellsApart(f, all)
      BY <1>10, <1>11, <2>1, <2>6, JoinedApart
    <2>8. \A i \in DOMAIN all : all[i] \in RowType
      <3> HIDE DEF all
      <3>1. QED BY <1>13
    <2> HIDE DEF all
    <2>9. QED BY <2>1, <2>7, <2>8 DEF TellsApart
  <1>17. \A r \in ToSet(all) : r.id < seq + m /\ r.key # Blank
    <2> TAKE r \in ToSet(all)
    <2>1. CASE r \in new
      <3>1. r \in good
        BY <2>1 DEF new
      <3>2. r.key \in Keys /\ r.id \in Nat /\ r.id < seq
        <4> HIDE DEF good
        <4>1. QED BY <1>2, <3>1
      <3>3. r.key # Blank
        BY <3>2, TableAssumption
      <3> HIDE DEF m
      <3>4. QED BY <1>3, <3>2, <3>3
    <2>2. CASE r \in ToSet(first)
      <3>1. PICK i \in DOMAIN acked : r = first[i]
        BY <1>8, <2>2 DEF ToSet
      <3>2. r.key # Blank
        BY <1>14, <3>1, TableAssumption
      <3>3. CASE i \in missing
        BY <1>3, <1>4, <1>6, <3>1, <3>2, <3>3
      <3>4. CASE i \notin missing
        BY <1>3, <1>9, <3>1, <3>2, <3>4
      <3>5. QED BY <3>3, <3>4
    <2>3. QED BY <1>13, <2>1, <2>2
  <1>18. IsSound(all)
    <2>1. \A i \in DOMAIN all : all[i].key # Blank
      <3> HIDE DEF all
      <3>1. QED BY <1>17 DEF ToSet
    <2> HIDE DEF all
    <2>2. QED BY <1>13, <1>15, <1>16, <2>1, SoundMeans
  <1>19. ASSUME NEW r \in good PROVE r \in ToSet(all)
    <2>1. CASE r.key \in known
      <3>1. PICK i \in DOMAIN acked : r.key = acked[i][1]
        BY <2>1
      <3>2. i \notin missing
        BY <1>19, <3>1 DEF missing
      <3>3. first[i] \in good /\ first[i].key = r.key
        BY <1>7, <3>1, <3>2
      <3>4. first[i] = r
        <4> HIDE DEF good
        <4>1. QED BY <1>2, <1>19, <3>3
      <3>5. r \in ToSet(first)
        BY <1>8, <3>4 DEF ToSet
      <3>6. QED BY <1>13, <3>5
    <2>2. CASE r.key \notin known
      <3>1. r \in new
        BY <1>19, <2>2 DEF new
      <3>2. QED BY <1>13, <3>1
    <2>3. QED BY <2>1, <2>2
  <1>20. ASSUME NEW i \in DOMAIN acked PROVE \E r \in ToSet(all) : r.key = acked[i][1]
    <2>1. first[i] \in ToSet(first)
      BY <1>8, <1>20 DEF ToSet
    <2>2. QED BY <1>13, <1>14, <1>20, <2>1
  <1>21. \A i \in DOMAIN all : all[i].id < seq + m
    <2> HIDE DEF all
    <2>1. QED BY <1>17 DEF ToSet
  <1>22. seq + m \in Nat /\ seq + m >= seq
    BY <1>3
  <1> HIDE DEF all, made, m, known
  <1>23. QED BY <1>1, <1>13, <1>15, <1>18, <1>19, <1>20, <1>21, <1>22 DEF made, rows, seq, acked

\* The draft that is left when nothing unsound may be kept.
LEMMA SalvagedKeeps ==
    ASSUME NEW t, TableOK(t)
    PROVE  LET u == SalvagedTable(t)
           IN  /\ TableOK(u) /\ IsSound(u.rows)
               /\ IsSound(t.rows) => u = t
               /\ \A r \in ToSet(t.rows) : r.id \notin IssuesOf(t.rows) => r \in ToSet(u.rows)
               /\ ~IsSound(t.rows) =>
                    \A i \in DOMAIN t.save.acked.goal.variables :
                        \E r \in ToSet(u.rows) : r.key = t.save.acked.goal.variables[i][1]
               /\ ~IsSound(t.rows) => VariablesOf(u.rows) \in {u.save.head.goal, t.save.acked.goal}
  <1>0. GoalsAreSound(t.save)
    BY Zenon DEF TableOK
  <1>s. IsStorable(t.save.acked.goal)
    BY ONLY <1>0 DEF GoalsAreSound
  <1> DEFINE u == SalvagedTable(t)
             acked == t.save.acked.goal.variables
             made == SalvagedRows(t.rows, acked, t.seq)
             next == [t EXCEPT !.rows = made.rows, !.seq = made.seq, !.field = NoField, !.adding = NoRow, !.undo = NoUndo]
  <1>1. t \in TableType /\ RowsAreApart(t) /\ GoalsAreSound(t.save) /\ OthersAreApart(t) /\ FieldFits(t)
    BY DEF TableOK
  <1>2. CASE IsSound(t.rows)
    <2>1. u = t
      BY <1>2 DEF SalvagedTable
    <2>2. QED BY <1>2, <2>1 DEF IsSound
  <1>3. CASE ~IsSound(t.rows)
    <2> HIDE DEF acked
    <2>2. /\ made.rows \in Seq(RowType) /\ made.seq \in Nat /\ made.seq >= t.seq
          /\ \A i \in DOMAIN made.rows : made.rows[i].id < made.seq
          /\ \A i, j \in DOMAIN made.rows : made.rows[i].id = made.rows[j].id => i = j
          /\ IsSound(made.rows)
          /\ \A r \in ToSet(t.rows) : r.id \notin IssuesOf(t.rows) => r \in ToSet(made.rows)
          /\ \A i \in DOMAIN acked : \E r \in ToSet(made.rows) : r.key = acked[i][1]
      BY Zenon, <1>1, <1>s, SalvagedParts DEF acked
    <2> HIDE DEF made
    <2>3. /\ next \in TableType /\ next.rows = made.rows /\ next.seq = made.seq
          /\ next.field = NoField /\ next.adding = NoRow /\ next.undo = NoUndo
          /\ next.query = t.query /\ next.hold = t.hold /\ next.anyway = t.anyway /\ next.save = t.save
      BY <1>1, <2>2, NoFieldParts DEF TableType
    <2>4. u = IF VariablesOf(made.rows) = t.save.acked.goal THEN next ELSE StageRows(next)
      BY <1>3 DEF SalvagedTable, made, acked
    <2> HIDE DEF next, u
    <2>5. OthersAreApart(next)
      <3>1. t.hold.hidden \subseteq 0 .. t.seq - 1 /\ t.hold.hidden \cap ToSet(t.hold.shown) = {}
        BY <1>1 DEF OthersAreApart
      <3>2. 0 .. t.seq - 1 \subseteq 0 .. made.seq - 1
        BY <1>1, <2>2, TableParts
      <3>3. QED BY <2>3, <3>1, <3>2 DEF OthersAreApart, Adding
    <2>6. TableOK(next)
      BY <1>1, <2>2, <2>3, <2>5 DEF TableOK, RowsAreApart, FieldFits
    <2>7. CASE VariablesOf(made.rows) = t.save.acked.goal
      BY <1>3, <2>2, <2>3, <2>4, <2>6, <2>7 DEF u, acked
    <2>8. CASE VariablesOf(made.rows) # t.save.acked.goal
      <3>1. /\ TableOK(u) /\ SameButSave(next, u)
            /\ IsSound(next.rows) => u.save.head.goal = VariablesOf(next.rows)
        BY <2>4, <2>6, <2>8, StageKeeps
      <3>2. u.rows = made.rows /\ u.save.head.goal = VariablesOf(u.rows)
        BY <2>2, <2>3, <3>1 DEF SameButSave
      <3>3. QED BY <1>3, <2>2, <3>1, <3>2 DEF u, acked
    <2>9. QED BY <2>7, <2>8
  <1>4. QED BY <1>2, <1>3

\* soundDraft: what LeaveKeepsVariables says of it.
LEMMA SoundTableKeeps ==
    ASSUME NEW t, TableOK(t)
    PROVE  LET u == SoundTable(t)
               kept == IF t.field.kind = "val" THEN CommitField(t).rows ELSE t.rows
           IN  /\ TableOK(u) /\ IsSound(u.rows)
               /\ \A r \in ToSet(kept) : r.id \notin IssuesOf(kept) /\ ~(t.field.kind = "key" /\ t.field.id = r.id)
                                         => r \in ToSet(u.rows)
               /\ ~IsSound(CommitPending(t).rows) /\ ~IsSound(kept) =>
                    \A i \in DOMAIN t.save.acked.goal.variables :
                        \E r \in ToSet(u.rows) : r.key = t.save.acked.goal.variables[i][1]
               /\ ~IsSound(kept) => VariablesOf(u.rows) \in {u.save.head.goal, t.save.acked.goal}
  <1> DEFINE c == CommitField(t)
             p == CommitPending(t)
             k == IF t.field.kind = "val" THEN c ELSE [t EXCEPT !.field = NoField]
             s == [k EXCEPT !.adding = NoRow]
             kept == IF t.field.kind = "val" THEN c.rows ELSE t.rows
             u == SoundTable(t)
  <1>1. /\ TableOK(c)
        /\ t.field = NoField => c = t
        /\ DOMAIN c.rows = DOMAIN t.rows
        /\ \A i \in DOMAIN t.rows : t.rows[i].id # t.field.id => c.rows[i] = t.rows[i]
        /\ c.save.acked = t.save.acked
        /\ c.rows = t.rows \/ (IsSound(c.rows) => c.save.head.goal = VariablesOf(c.rows))
    BY CommitFieldKeeps
  <1> HIDE DEF c
  <1>2. /\ TableOK(p) /\ ToSet(c.rows) \subseteq ToSet(p.rows)
        /\ p.rows = c.rows \/ (IsSound(p.rows) => p.save.head.goal = VariablesOf(p.rows))
        /\ p.rows = c.rows => p.save = c.save
    BY <1>1, CommitAddingKeeps DEF CommitPending, c
  <1>3. TableOK(k) /\ k.rows = kept /\ k.save.acked = t.save.acked
    <2>1. CASE t.field.kind = "val"
      BY <1>1, <2>1
    <2>2. CASE t.field.kind # "val"
      BY <2>2, ClearedField
    <2>3. QED BY <2>1, <2>2
  <1> HIDE DEF k
  <1>4. TableOK(s) /\ s.rows = kept /\ s.save.acked = t.save.acked
    BY <1>3, ClearedAdding
  <1>5. u = IF IsSound(p.rows) THEN p ELSE SalvagedTable(s)
    BY DEF SoundTable, k, c
  <1> HIDE DEF p, s, u
  <1>6. t.field.kind = "none" => t.field = NoField
    BY DEF TableOK, FieldFits
  <1>7. CASE IsSound(p.rows)
    <2>1. u = p
      BY <1>5, <1>7
    <2>2. ASSUME NEW r \in ToSet(kept), ~(t.field.kind = "key" /\ t.field.id = r.id)
          PROVE  r \in ToSet(u.rows)
      <3>1. CASE t.field.kind = "val" \/ t.field.kind = "none"
        BY <1>1, <1>2, <1>6, <2>1, <2>2, <3>1
      <3>2. CASE t.field.kind = "key"
        <4>1. PICK i \in DOMAIN t.rows : r = t.rows[i]
          BY <2>2, <3>2 DEF ToSet
        <4>2. c.rows[i] = r
          BY <1>1, <2>2, <3>2, <4>1
        <4>3. r \in ToSet(c.rows)
          BY <1>1, <4>1, <4>2 DEF ToSet
        <4>4. QED BY <1>2, <2>1, <4>3
      <3>3. t.field.kind \in {"none", "key", "val"}
        BY TableParts DEF TableOK
      <3>4. QED BY <3>1, <3>2, <3>3
    <2>3. ASSUME ~IsSound(kept) PROVE VariablesOf(u.rows) = u.save.head.goal
      <3>1. CASE p.rows = c.rows
        <4>1. c.rows # t.rows
          BY <1>7, <2>3, <3>1
        <4>2. QED BY <1>1, <1>2, <1>7, <2>1, <3>1, <4>1
      <3>2. CASE p.rows # c.rows
        BY <1>2, <1>7, <2>1, <3>2
      <3>3. QED BY <3>1, <3>2
    <2> HIDE DEF kept
    <2>4. QED BY <1>2, <1>7, <2>1, <2>2, <2>3 DEF p, u, kept, c
  <1>8. CASE ~IsSound(p.rows)
    <2>1. u = SalvagedTable(s)
      BY <1>5, <1>8
    <2> HIDE DEF kept
    <2>2. /\ TableOK(u) /\ IsSound(u.rows)
          /\ \A r \in ToSet(kept) : r.id \notin IssuesOf(kept) => r \in ToSet(u.rows)
          /\ ~IsSound(kept) =>
               \A i \in DOMAIN t.save.acked.goal.variables :
                   \E r \in ToSet(u.rows) : r.key = t.save.acked.goal.variables[i][1]
          /\ ~IsSound(kept) => VariablesOf(u.rows) \in {u.save.head.goal, t.save.acked.goal}
      BY <1>4, <2>1, SalvagedKeeps
    <2>3. QED BY <1>8, <2>2 DEF p, u, kept, c
  <1>9. QED BY <1>7, <1>8

\* A pane that is left and come back to has only its rows and its save.
LEMMA PutDown ==
    ASSUME NEW t, TableOK(t)
    PROVE  LET u == [t EXCEPT !.field = NoField, !.adding = NoRow, !.undo = NoUndo,
                              !.query = Everything, !.hold = NoHold, !.anyway = {}]
           IN  TableOK(u) /\ u.field = NoField /\ u.rows = t.rows /\ u.save = t.save
  <1> DEFINE u == [t EXCEPT !.field = NoField, !.adding = NoRow, !.undo = NoUndo,
                            !.query = Everything, !.hold = NoHold, !.anyway = {}]
  <1>1. NoHold \in [sort : SortModes \cup {"none"}, shown : Seq(Nat), hidden : SUBSET Nat] /\ NoHold.hidden = {}
    BY DEF NoHold
  <1>2. /\ u \in TableType /\ u.rows = t.rows /\ u.seq = t.seq /\ u.field = NoField /\ u.adding = NoRow
        /\ u.undo = NoUndo /\ u.hold = NoHold /\ u.save = t.save
    BY <1>1, NoFieldParts DEF TableOK, TableType
  <1> HIDE DEF u
  <1>3. RowsAreApart(u) /\ GoalsAreSound(u.save) /\ OthersAreApart(u) /\ FieldFits(u)
    BY <1>1, <1>2 DEF TableOK, RowsAreApart, OthersAreApart, Adding, FieldFits
  <1>4. QED BY <1>2, <1>3 DEF TableOK, u

LEMMA LeavePaneInv == ASSUME TableInv, LeavePane PROVE TableInv'
  <1> DEFINE s == SoundTable(table)
             f == Flushing(s)
             u == [f EXCEPT !.field = NoField, !.adding = NoRow, !.undo = NoUndo,
                            !.query = Everything, !.hold = NoHold, !.anyway = {}]
  <1>1. table' = u /\ inside' = FALSE /\ fresh' = {} /\ sort' = sort
    BY DEF LeavePane
  <1>t. turns' \in Nat
    BY TurnsLeft DEF LeavePane
  <1>2. TableOK(s)
    BY InvParts, SoundTableKeeps
  <1> HIDE DEF s
  <1>3. TableOK(f)
    BY <1>2, FlushedKeeps
  <1> HIDE DEF f
  <1>4. TableOK(u) /\ u.field = NoField
    BY <1>3, PutDown
  <1> HIDE DEF u
  <1>5. Shows(u, {})
    BY DEF Shows
  <1>6. QED BY <1>1, <1>t, <1>4, <1>5, InvParts, LeavesInv

-----------------------------------------------------------------------------
(* The theorems. *)

\* The table as it is opened.
LEMMA StoredTableOK == TableOK(StoredTable) /\ StoredTable.field = NoField
  <1> DEFINE n == Len(InitialRows)
             rows == [i \in DOMAIN InitialRows |-> [id |-> i - 1, key |-> InitialRows[i][1], val |-> InitialRows[i][2]]]
             goal == [variables |-> InitialRows]
             q == Writes!CreateQueue(goal)
             t == StoredTable
  <1>1. /\ n \in Nat /\ DOMAIN InitialRows = 1 .. n
        /\ \A i \in 1 .. n : InitialRows[i][1] \in Keys /\ InitialRows[i][2] \in Values
    BY TableAssumption
  <1>2. /\ DOMAIN rows = 1 .. n
        /\ \A i \in 1 .. n : rows[i] \in RowType /\ rows[i].id = i - 1
    <2>1. DOMAIN rows = 1 .. n /\ \A i \in 1 .. n : rows[i] = [id |-> i - 1, key |-> InitialRows[i][1], val |-> InitialRows[i][2]]
      BY <1>1
    <2> HIDE DEF rows, n
    <2>2. \A i \in 1 .. n : rows[i] \in RowType /\ rows[i].id = i - 1
      <3> TAKE i \in 1 .. n
      <3>1. i - 1 \in Nat /\ InitialRows[i][1] \in Everything /\ InitialRows[i][2] \in Values
        BY <1>1 DEF Everything
      <3>2. QED BY <2>1, <3>1 DEF RowType
    <2>3. QED BY <2>1, <2>2
  <1>3. rows \in Seq(RowType)
    <2>1. rows = [i \in 1 .. n |-> rows[i]]
      BY <1>1
    <2> HIDE DEF rows, n
    <2>2. rows \in [1 .. n -> RowType]
      BY <1>2, <2>1
    <2>3. QED BY <1>1, <2>2, SeqDef
  <1>4. goal \in VariablesType /\ IsStorable(goal)
    <2>1. InitialRows \in Seq(Keys \X Values)
      BY TableAssumption
    <2>2. QED BY <2>1, StorableType, TableAssumption DEF IsStorable
  <1> HIDE DEF goal, rows, n
  <1>5. q \in QueueType /\ GoalsAreSound(q)
    <2>1. /\ q.head = [rev |-> 0, goal |-> goal] /\ q.acked = [rev |-> 0, goal |-> goal] /\ q.flight = Writes!NoFlight
          /\ q = [head |-> [rev |-> 0, goal |-> goal], acked |-> [rev |-> 0, goal |-> goal],
                  flight |-> Writes!NoFlight, timer |-> FALSE, sendOnSettle |-> FALSE, failed |-> FALSE]
      BY DEF Writes!CreateQueue
    <2> HIDE DEF q
    <2>2. QED BY <1>4, <2>1, NothingIsNotStorable DEF QueueType, WriteType, GoalsAreSound
  <1>6. t = [rows |-> rows, seq |-> n, field |-> NoField, adding |-> NoRow, undo |-> NoUndo,
             query |-> Everything, hold |-> NoHold, anyway |-> {}, save |-> q]
    BY DEF StoredTable, rows, n, goal
  <1> HIDE DEF q, t
  <1>7. NoHold \in [sort : SortModes \cup {"none"}, shown : Seq(Nat), hidden : SUBSET Nat] /\ NoHold.hidden = {}
    BY DEF NoHold
  <1>8. /\ t \in TableType /\ t.rows = rows /\ t.seq = n /\ t.field = NoField /\ t.adding = NoRow
        /\ t.undo = NoUndo /\ t.hold = NoHold /\ t.save = q
    BY <1>1, <1>3, <1>5, <1>6, <1>7, NoFieldParts DEF TableType, QueueType
  <1>9. RowsAreApart(t) /\ GoalsAreSound(t.save) /\ OthersAreApart(t) /\ FieldFits(t)
    BY <1>1, <1>2, <1>5, <1>7, <1>8 DEF RowsAreApart, OthersAreApart, Adding, FieldFits
  <1>10. QED BY <1>8, <1>9 DEF TableOK, t

LEMMA TableInvStep == ASSUME TableInv, [TableNext]_tvars PROVE TableInv'
  <1>1. CASE UNCHANGED tvars
    BY <1>1 DEF tvars, TableInv, TableTypeOK, TableOK, WorkIsHeld, FreshIsShown, TableType, RowsAreApart, GoalsAreSound,
                OthersAreApart, FieldFits, Adding
  <1>2. CASE CellNext
    <2>1. CASE \E id \in Ids(table.rows) : DeleteRow(id) \/ \E kind \in {"key", "val"} : OpenCell(id, kind)
      BY <2>1, DeleteRowInv, OpenCellInv
    <2>2. CASE \E text \in Everything \cup Values : TypeCell(text) \/ TypeDraft("key", text) \/ TypeDraft("val", text)
      BY <2>2, TypeCellInv, TypeDraftInv
    <2>3. QED BY <1>2, <2>1, <2>2, CommitCellInv, CancelFieldInv, AddRowInv, CommitDraftInv, CancelDraftInv,
                 UndoDeleteInv, DismissUndoInv DEF CellNext
  <1>3. CASE ViewNext
    BY <1>3, LeaveRegionInv, EnterRegionInv, SetQueryInv, SetSortInv DEF ViewNext
  <1>4. CASE LeavePane \/ AskDelete \/ RetryWrite \/ \E ok \in BOOLEAN : WriteAnswered(ok)
    BY <1>4, LeavePaneInv, AskDeleteInv, RetryWriteInv, WriteAnsweredInv
  <1>5. QED BY <1>1, <1>2, <1>3, <1>4 DEF TableNext

\* Whatever the user does in the table and the store answers, a row has an id of its own,
\* what is written is sound, what is worked on is not hidden and what was added or brought
\* back is not filtered (envEditor.ts, varView.ts).
THEOREM TableInvariance == TableSpec => []TableInv
  <1>1. TableInit => TableInv
    <2> SUFFICES ASSUME TableInit PROVE TableInv
      OBVIOUS
    <2>1. table = StoredTable /\ sort \in SortModes /\ inside \in BOOLEAN /\ fresh = {} /\ turns \in Nat
      BY TableAssumption DEF TableInit
    <2>2. QED BY <2>1, StoredTableOK DEF TableInv, TableTypeOK, TableOK, WorkIsHeld, FreshIsShown
  <1>2. TableInv /\ [TableNext]_tvars => TableInv'
    BY TableInvStep
  <1>3. QED BY <1>1, <1>2, PTL DEF TableSpec

\* Whoever works in the table sees what they work on.
THEOREM WorkStaysOnScreen == TableSpec => []WorkIsOnScreen
  <1>1. TableInv => WorkIsOnScreen
    <2> SUFFICES ASSUME TableInv PROVE WorkIsOnScreen
      OBVIOUS
    <2> DEFINE u == HoldLayout(table)
    <2>1. /\ u.rows = table.rows /\ (table.hold.sort = sort => u = table) /\ Shows(u, fresh)
          /\ Visible = Ids(u.rows) \ u.hold.hidden
      BY InvParts, HoldKeeps DEF Visible
    <2> HIDE DEF u
    <2>2. table.field # NoField => inside /\ table.field.id \in Visible
      BY <2>1, InvParts
    <2>3. fresh \cap Ids(table.rows) \subseteq Visible
      BY <2>1 DEF Shows
    <2>4. QED BY <2>2, <2>3 DEF WorkIsOnScreen, TableInv
  <1>2. QED BY <1>1, TableInvariance, PTL

\* Leaving a pane gives up nothing but what is wrong.
THEOREM LeaveGivesUpIssues == TableSpec => LeaveKeepsVariables
  <1> DEFINE Kept == LET opened == table.field
                         kept == IF opened.kind = "val" THEN CommitField(table).rows ELSE table.rows
                         after == table'.rows
                     IN  /\ IsSound(after)
                         /\ \A r \in ToSet(kept) : r.id \notin IssuesOf(kept) /\ ~(opened.kind = "key" /\ opened.id = r.id) => r \in ToSet(after)
                         /\ ~IsSound(CommitPending(table).rows) /\ ~IsSound(kept) =>
                              \A i \in DOMAIN table.save.acked.goal.variables :
                                  \E r \in ToSet(after) : r.key = table.save.acked.goal.variables[i][1]
                         /\ ~IsSound(kept) =>
                              VariablesOf(after) \in {table'.save.head.goal, table.save.acked.goal}
  <1>1. ASSUME TableInv, LeavePane PROVE Kept
    <2> DEFINE s == SoundTable(table)
               f == Flushing(s)
               u == [f EXCEPT !.field = NoField, !.adding = NoRow, !.undo = NoUndo,
                              !.query = Everything, !.hold = NoHold, !.anyway = {}]
               kept == IF table.field.kind = "val" THEN CommitField(table).rows ELSE table.rows
    <2>1. table' = u
      BY <1>1 DEF LeavePane
    <2>2. /\ TableOK(s) /\ IsSound(s.rows)
          /\ \A r \in ToSet(kept) : r.id \notin IssuesOf(kept) /\ ~(table.field.kind = "key" /\ table.field.id = r.id)
                                    => r \in ToSet(s.rows)
          /\ ~IsSound(CommitPending(table).rows) /\ ~IsSound(kept) =>
               \A i \in DOMAIN table.save.acked.goal.variables :
                   \E r \in ToSet(s.rows) : r.key = table.save.acked.goal.variables[i][1]
          /\ ~IsSound(kept) => VariablesOf(s.rows) \in {s.save.head.goal, table.save.acked.goal}
      BY <1>1, InvParts, SoundTableKeeps
    <2> HIDE DEF s
    <2>3. TableOK(f) /\ f.rows = s.rows /\ f.save.head = s.save.head
      BY <2>2, FlushedKeeps DEF SameButSave
    <2> HIDE DEF f
    <2>4. u.rows = f.rows /\ u.save = f.save
      BY <2>3, PutDown
    <2> HIDE DEF u, kept
    <2>5. QED BY <2>1, <2>2, <2>3, <2>4 DEF kept
  <1>2. TableInv /\ [TableNext]_tvars => [LeavePane => Kept]_tvars
    BY <1>1
  <1>3. QED BY <1>2, TableInvariance, PTL DEF TableSpec, LeaveKeepsVariables
=============================================================================
