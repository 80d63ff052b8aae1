------------------------- MODULE CallLifecycle_proofs -------------------------
(***************************************************************************)
(* Proofs about CallLifecycle for any number of drafts, calls and messages *)
(* and any kinds.  First by call: whatever a handler does to the stores,   *)
(* and whatever the release rule then takes away, the entry, the queue,    *)
(* liveCalls and the record of each call stay Sound (OneFullRecord,        *)
(* TerminalIsFrozen).  Then, over those stores, the draft, the snapshots   *)
(* and the attempts: StepInv, and with it StoresAgree.                     *)
(***************************************************************************)
EXTENDS CallLifecycle, TLAPS

LEMMA Bounds == MaxMessages \in Nat /\ Kinds \subseteq {"unary", "server", "bidi"}
  BY BoundsAssumption

Entries == [phase : Phases, halfClosed : BOOLEAN, sendFault : BOOLEAN, rows : Nat]
Queued  == [opened : BOOLEAN, messages : Nat]
Lives   == {"no", "unopened", "opened"}

\* What CallInv says of one call c with entry e, queue q, live l, record r and shown rows sh.
Sound(c, e, q, l, r, sh, op, out) ==
  /\ l # "no" <=> LiveEntry(e)
  /\ l = "opened" => c \in op
  /\ l = "unopened" => c \notin op
  /\ c \in out => l = "no"
  /\ LiveEntry(e) => sh = e.rows + q.messages
  /\ Len(r) = IF c \in op \cup out /\ l = "no" THEN 1 ELSE 0
  /\ c \in op /\ r # <<>> => r[1] = sh

AllSound(es, q, l, rec, sh, op, out) ==
  \A c \in Calls : Sound(c, es[c], q[c], l[c], rec[c], sh[c], op, out)

StoreTypes(es, q, l, rec, sh) ==
  /\ es \in [Calls -> Entries] /\ q \in [Calls -> Queued]
  /\ l \in [Calls -> Lives] /\ rec \in [Calls -> Seq(Nat)] /\ sh \in [Calls -> Nat]

\* The stores of a call of kind k that is a unary one, or not made.
Fits(k, e, q, l, r, sh) ==
  /\ k = "unary" => l = "no"
  /\ k = "none" => l = "no" /\ e = NoEntry /\ q = NothingQueued /\ r = <<>> /\ sh = 0

AllFit(kd, es, q, l, rec, sh) == \A c \in Calls : Fits(kd[c], es[c], q[c], l[c], rec[c], sh[c])

\* What TerminalIsFrozen says of the entries that become es.
Frozen(es) == \A c \in Calls : entry[c].phase # "none" /\ ~LiveEntry(entry[c]) => es[c] \in {entry[c], NoEntry}

\* What every handler keeps, of the stores it leaves as given.
Keeps(kd, es, q, l, rec, sh, op, out) ==
  /\ StoreTypes(es, q, l, rec, sh) /\ AllSound(es, q, l, rec, sh, op, out)
  /\ AllFit(kd, es, q, l, rec, sh) /\ Frozen(es)

\* CallInv without the stores: the commands, the channels and the history.
RestTypes ==
  /\ kind \in [Calls -> Kinds \cup {"none"}]
  /\ channel \in [Calls -> Seq(Events)]
  /\ core \in [Calls -> {"none", "opening", "live", "over"}]
  /\ answer \in [Calls -> {"none", "pending", "ok", "refused", "cancelled", "mismatch", "settled"}]
  /\ opened \subseteq Calls /\ outcome \subseteq Calls

UnmadeIsSilent ==
  \A c \in Calls : kind[c] = "none" => channel[c] = <<>> /\ answer[c] = "none" /\ c \notin opened \cup outcome

\* CallInv, call by call.
LEMMA InvByCall ==
  CallInv <=> /\ RestTypes /\ UnmadeIsSilent /\ OpensWithAnswer
              /\ Keeps(kind, entry, queue, live, records, shown, opened, outcome)
<1>1. CallTypes <=> RestTypes /\ StoreTypes(entry, queue, live, records, shown)
  BY DEF CallTypes, RestTypes, StoreTypes, Entries, Queued, Lives
<1>2. Frozen(entry)
  BY DEF Frozen
<1>3. ASSUME CallTypes
      PROVE  LiveCallsAgree /\ LiveIsMarked /\ RowsAreShown /\ OneFullRecord
               <=> /\ AllSound(entry, queue, live, records, shown, opened, outcome)
                   /\ \A c \in Calls : kind[c] = "unary" => live[c] = "no"
  BY <1>3 DEF CallTypes, AllSound, Sound, LiveCallsAgree, LiveIsMarked, RowsAreShown,
         OneFullRecord, RecordedOnce, RecordHasEveryRow
<1>4. UnmadeIsBlank /\ (\A c \in Calls : kind[c] = "unary" => live[c] = "no")
        <=> UnmadeIsSilent /\ AllFit(kind, entry, queue, live, records, shown)
  BY DEF UnmadeIsBlank, UnmadeIsSilent, AllFit, Fits
<1>5. CallInv <=> /\ CallTypes /\ UnmadeIsBlank /\ OpensWithAnswer
                  /\ LiveCallsAgree /\ LiveIsMarked /\ RowsAreShown /\ OneFullRecord
  BY DEF CallInv
<1>6. LiveIsMarked => \A c \in Calls : kind[c] = "unary" => live[c] = "no"
  BY DEF LiveIsMarked
<1> QED
  BY <1>1, <1>2, <1>3, <1>4, <1>5, <1>6 DEF Keeps

\* ... and after a step.
LEMMA InvByCallNext ==
  ASSUME RestTypes', UnmadeIsSilent', OpensWithAnswer',
         Keeps(kind', entry', queue', live', records', shown', opened', outcome')
  PROVE  CallInv' /\ Frozen(entry')
<1>1. CallInv' <=> /\ RestTypes' /\ UnmadeIsSilent' /\ OpensWithAnswer'
                   /\ Keeps(kind, entry, queue, live, records, shown, opened, outcome)'
  BY InvByCall, PTL
<1>2. Frozen(entry)'
  BY DEF Frozen
<1> QED
  BY <1>1, <1>2 DEF Keeps, StoreTypes, AllSound, AllFit, Sound, Fits, Frozen

-----------------------------------------------------------------------------
(* apply, for one call. *)

LEMMA ApplyType ==
  ASSUME NEW e \in Entries, NEW q \in Queued
  PROVE  Apply(e, q) \in Entries
<1>1. PICK p : p = IF LiveEntry(e) /\ q.opened THEN "open" ELSE e.phase
  OBVIOUS
<1>2. p \in Phases /\ e.rows + q.messages \in Nat
  BY <1>1 DEF Entries, Queued, Phases
<1>3. Told(e, q) = [e EXCEPT !.phase = p, !.rows = e.rows + q.messages]
  BY <1>1 DEF Told, Entries
<1>4. Told(e, q) \in Entries
  BY <1>2, <1>3 DEF Entries
<1> QED
  BY <1>4 DEF Apply

LEMMA ApplyLive ==
  ASSUME NEW e \in Entries, NEW q \in Queued
  PROVE  /\ LiveEntry(Apply(e, q)) <=> LiveEntry(e)
         /\ LiveEntry(e) => Apply(e, q).rows = e.rows + q.messages
         /\ ~LiveEntry(e) => Apply(e, q) = e
<1>1. CASE LiveEntry(e)
  <2>1. Apply(e, q) = Told(e, q)
    BY <1>1 DEF Apply
  <2>2. Told(e, q).rows = e.rows + q.messages
    BY DEF Told, Entries
  <2>3. Told(e, q).phase \in {"open", e.phase}
    BY DEF Told, Entries
  <2> QED
    BY <1>1, <2>1, <2>2, <2>3 DEF LiveEntry, isLivePhase
<1>2. CASE ~LiveEntry(e)
  BY <1>2 DEF Apply
<1> QED
  BY <1>1, <1>2

LEMMA ApplySound ==
  ASSUME NEW c \in Calls, NEW e \in Entries, NEW q \in Queued, NEW l \in Lives, NEW r \in Seq(Nat),
         NEW sh \in Nat, NEW op, NEW out, Sound(c, e, q, l, r, sh, op, out)
  PROVE  Sound(c, Apply(e, q), NothingQueued, l, r, sh, op, out)
<1>1. Apply(e, q) \in Entries /\ NothingQueued.messages = 0
  BY ApplyType DEF NothingQueued
<1>2. Apply(e, q).rows \in Nat
  BY <1>1 DEF Entries
<1> QED
  BY <1>1, <1>2, ApplyLive DEF Sound, Lives

\* A call whose entry is dropped: abandonStream has recorded it if it had to.
LEMMA DropSound ==
  ASSUME NEW c \in Calls, NEW e \in Entries, NEW q \in Queued, NEW l \in Lives, NEW r \in Seq(Nat),
         NEW sh \in Nat, NEW op, NEW out, Sound(c, e, q, l, r, sh, op, out), q = NothingQueued \/ l = "no"
  PROVE  /\ Sound(c, NoEntry, NothingQueued, "no", Abandon(c, l, e, r), sh, op, out)
         /\ Abandon(c, l, e, r) \in Seq(Nat)
<1>1. ~LiveEntry(NoEntry) /\ NoEntry \in Entries
  BY DEF NoEntry, LiveEntry, isLivePhase, Entries, Phases
<1>2. e.rows \in Nat
  BY DEF Entries
<1>3. CASE l = "opened"
  <2>1. LiveEntry(e) /\ c \in op /\ sh = e.rows /\ Len(r) = 0
    BY <1>2, <1>3 DEF Sound, NothingQueued
  <2>2. Abandon(c, l, e, r) = Append(r, e.rows)
    BY <2>1, <1>3 DEF Abandon
  <2>3. r = <<>>
    BY <2>1
  <2> QED
    BY <1>1, <1>2, <2>1, <2>2, <2>3 DEF Sound
<1>4. CASE l # "opened"
  BY <1>1, <1>4 DEF Sound, Abandon, Lives
<1> QED
  BY <1>3, <1>4

-----------------------------------------------------------------------------
(* flush and the release rule, for all calls. *)

\* What of one call the stores es2, q2, l2, rec2 made of es, q, l, rec by a flush or a release.
Less(c, es, q, l, rec, es2, q2, l2, rec2) ==
  /\ es2[c] \in {es[c], Apply(es[c], q[c]), NoEntry}
  /\ q2[c] \in {q[c], NothingQueued}
  /\ l2[c] \in {l[c], "no"}
  /\ l[c] = "no" => rec2[c] = rec[c]

\* Whatever takes from the stores in this way, call by call, keeps what is to be kept.
LEMMA LessKeeps ==
  ASSUME NEW kd, NEW es, NEW q, NEW l, NEW rec, NEW sh, NEW op, NEW out,
         Keeps(kd, es, q, l, rec, sh, op, out),
         NEW es2, NEW q2, NEW l2, NEW rec2, StoreTypes(es2, q2, l2, rec2, sh),
         AllSound(es2, q2, l2, rec2, sh, op, out),
         \A c \in Calls : Less(c, es, q, l, rec, es2, q2, l2, rec2)
  PROVE  Keeps(kd, es2, q2, l2, rec2, sh, op, out)
<1>1. ASSUME NEW c \in Calls PROVE Fits(kd[c], es2[c], q2[c], l2[c], rec2[c], sh[c])
  <2>1. Fits(kd[c], es[c], q[c], l[c], rec[c], sh[c])
    BY DEF Keeps, AllFit
  <2>2. Apply(NoEntry, q[c]) = NoEntry
    BY DEF Apply, LiveEntry, isLivePhase, NoEntry
  <2> QED
    BY <2>1, <2>2 DEF Fits, Less
<1>2. ASSUME NEW c \in Calls, entry[c].phase # "none", ~LiveEntry(entry[c])
      PROVE  es2[c] \in {entry[c], NoEntry}
  <2>1. es[c] \in {entry[c], NoEntry}
    BY <1>2 DEF Keeps, Frozen
  <2>2. Apply(NoEntry, q[c]) = NoEntry /\ Apply(entry[c], q[c]) = entry[c]
    BY <1>2 DEF Apply, LiveEntry, isLivePhase, NoEntry
  <2> QED
    BY <2>1, <2>2 DEF Less
<1> QED
  BY <1>1, <1>2 DEF Keeps, AllFit, Frozen

LEMMA FlushedKeeps ==
  ASSUME NEW kd, NEW es, NEW q, NEW l, NEW rec, NEW sh, NEW op, NEW out,
         Keeps(kd, es, q, l, rec, sh, op, out)
  PROVE  Keeps(kd, Flushed(es, q), EmptyQueue, l, rec, sh, op, out)
<1>0. StoreTypes(es, q, l, rec, sh) /\ AllSound(es, q, l, rec, sh, op, out)
  BY DEF Keeps
<1>1. \A c \in Calls : Flushed(es, q)[c] = Apply(es[c], q[c]) /\ EmptyQueue[c] = NothingQueued
  BY DEF Flushed, EmptyQueue
<1>2. NothingQueued \in Queued
  BY DEF NothingQueued, Queued
<1>3. Flushed(es, q) \in [Calls -> Entries] /\ EmptyQueue \in [Calls -> Queued]
  BY <1>0, <1>2, ApplyType DEF Flushed, EmptyQueue, StoreTypes
<1>4. ASSUME NEW c \in Calls
      PROVE  /\ Sound(c, Flushed(es, q)[c], EmptyQueue[c], l[c], rec[c], sh[c], op, out)
             /\ Less(c, es, q, l, rec, Flushed(es, q), EmptyQueue, l, rec)
  <2>1. /\ es[c] \in Entries /\ q[c] \in Queued /\ l[c] \in Lives /\ rec[c] \in Seq(Nat)
        /\ sh[c] \in Nat
    BY <1>0 DEF StoreTypes
  <2>2. Sound(c, es[c], q[c], l[c], rec[c], sh[c], op, out)
    BY <1>0 DEF AllSound
  <2>3. Sound(c, Apply(es[c], q[c]), NothingQueued, l[c], rec[c], sh[c], op, out)
    BY <2>1, <2>2, ApplySound
  <2> QED
    BY <2>3, <1>1 DEF Less
<1>5. /\ StoreTypes(Flushed(es, q), EmptyQueue, l, rec, sh)
      /\ AllSound(Flushed(es, q), EmptyQueue, l, rec, sh, op, out)
  BY <1>0, <1>3, <1>4 DEF StoreTypes, AllSound
<1> QED
  BY <1>4, <1>5, LessKeeps

\* What is left of the stores of one call after the release rule.
LEMMA ReleasedCall ==
  ASSUME NEW kd, NEW es, NEW q, NEW l, NEW rec, NEW sh, NEW op, NEW out,
         Keeps(kd, es, q, l, rec, sh, op, out), AfterStore(es, q, l, rec), NEW c \in Calls
  PROVE  /\ Sound(c, entry'[c], queue'[c], live'[c], records'[c], sh[c], op, out)
         /\ entry'[c] \in Entries /\ queue'[c] \in Queued /\ live'[c] \in Lives
         /\ records'[c] \in Seq(Nat)
         /\ Less(c, es, q, l, rec, entry', queue', live', records')
<1> DEFINE gone  == Referenced(draft, steps) \ Referenced(draft', steps')
           flush == \E b \in gone : l[b] # "no"
           es2   == IF flush THEN Flushed(es, q) ELSE es
<1>1. /\ entry'[c] = IF c \in gone THEN NoEntry ELSE es2[c]
      /\ queue'[c] = IF flush \/ c \in gone THEN NothingQueued ELSE q[c]
      /\ live'[c] = IF c \in gone THEN "no" ELSE l[c]
      /\ records'[c] = IF c \in gone THEN Abandon(c, l[c], es2[c], rec[c]) ELSE rec[c]
  BY DEF AfterStore
<1>2. /\ es[c] \in Entries /\ q[c] \in Queued /\ l[c] \in Lives /\ rec[c] \in Seq(Nat)
      /\ sh[c] \in Nat /\ Sound(c, es[c], q[c], l[c], rec[c], sh[c], op, out)
  BY DEF Keeps, StoreTypes, AllSound
<1>3. Flushed(es, q)[c] = Apply(es[c], q[c])
  BY DEF Flushed
<1>4. /\ Sound(c, Apply(es[c], q[c]), NothingQueued, l[c], rec[c], sh[c], op, out)
      /\ Apply(es[c], q[c]) \in Entries /\ NothingQueued \in Queued /\ NoEntry \in Entries
  BY <1>2, ApplySound, ApplyType DEF NothingQueued, Queued, NoEntry, Entries, Phases
<1>5. CASE c \in gone /\ l[c] # "no"
  <2>1. flush
    BY <1>5
  <2>2. es2[c] = Apply(es[c], q[c])
    BY <2>1, <1>3
  <2>3. /\ Sound(c, NoEntry, NothingQueued, "no", Abandon(c, l[c], Apply(es[c], q[c]), rec[c]),
                 sh[c], op, out)
        /\ Abandon(c, l[c], Apply(es[c], q[c]), rec[c]) \in Seq(Nat)
    BY <1>2, <1>4, DropSound
  <2>4. /\ entry'[c] = NoEntry /\ queue'[c] = NothingQueued /\ live'[c] = "no"
        /\ records'[c] = Abandon(c, l[c], Apply(es[c], q[c]), rec[c])
    BY <1>1, <1>5, <2>2
  <2> QED
    BY <2>3, <2>4, <1>4, <1>5 DEF Lives, Less
<1>6. CASE c \in gone /\ l[c] = "no"
  <2>1. /\ entry'[c] = NoEntry /\ queue'[c] = NothingQueued /\ live'[c] = "no"
        /\ records'[c] = rec[c]
    BY <1>1, <1>6 DEF Abandon
  <2>2. Abandon(c, l[c], es[c], rec[c]) = rec[c]
    BY <1>6 DEF Abandon
  <2>3. Sound(c, NoEntry, NothingQueued, "no", rec[c], sh[c], op, out)
    BY <1>2, <1>6, <2>2, DropSound
  <2> QED
    BY <2>1, <2>3, <1>2, <1>4 DEF Lives, Less
<1>7. CASE c \notin gone /\ flush
  <2>1. /\ entry'[c] = Apply(es[c], q[c]) /\ queue'[c] = NothingQueued /\ live'[c] = l[c]
        /\ records'[c] = rec[c]
    BY <1>1, <1>3, <1>7
  <2> QED
    BY <2>1, <1>2, <1>4 DEF Less
<1>8. CASE c \notin gone /\ ~flush
  <2>1. entry'[c] = es[c] /\ queue'[c] = q[c] /\ live'[c] = l[c] /\ records'[c] = rec[c]
    BY <1>1, <1>8
  <2> QED
    BY <2>1, <1>2 DEF Less
<1> QED
  BY <1>5, <1>6, <1>7, <1>8

LEMMA AfterStoreKeeps ==
  ASSUME NEW kd, NEW es, NEW q, NEW l, NEW rec, NEW sh, NEW op, NEW out,
         Keeps(kd, es, q, l, rec, sh, op, out), AfterStore(es, q, l, rec)
  PROVE  Keeps(kd, entry', queue', live', records', sh, op, out)
<1>1. PICK es2, q2, l2, rec2 : es2 = entry' /\ q2 = queue' /\ l2 = live' /\ rec2 = records'
  OBVIOUS
<1>2. \A c \in Calls : /\ Sound(c, es2[c], q2[c], l2[c], rec2[c], sh[c], op, out)
                       /\ es2[c] \in Entries /\ q2[c] \in Queued /\ l2[c] \in Lives
                       /\ rec2[c] \in Seq(Nat)
                       /\ Less(c, es, q, l, rec, es2, q2, l2, rec2)
  BY <1>1, ReleasedCall
<1>3. /\ es2 = [c \in Calls |-> es2[c]] /\ q2 = [c \in Calls |-> q2[c]]
      /\ l2 = [c \in Calls |-> l2[c]] /\ rec2 = [c \in Calls |-> rec2[c]]
  BY <1>1 DEF AfterStore
<1>4. StoreTypes(es2, q2, l2, rec2, sh)
  BY <1>2, <1>3 DEF StoreTypes, Keeps
<1>5. AllSound(es2, q2, l2, rec2, sh, op, out)
  BY <1>2 DEF AllSound
<1>6. Keeps(kd, es2, q2, l2, rec2, sh, op, out)
  BY <1>2, <1>4, <1>5, LessKeeps
<1> QED
  BY <1>1, <1>6

-----------------------------------------------------------------------------
(* A handler that writes the stores of one call. *)

LEMMA OneCallKeeps ==
  ASSUME NEW kd, NEW es, NEW q, NEW l, NEW rec, NEW sh, NEW op, NEW out,
         Keeps(kd, es, q, l, rec, sh, op, out), NEW c \in Calls,
         NEW kd2, NEW es2, NEW q2, NEW l2, NEW rec2, NEW sh2, NEW op2, NEW out2,
         StoreTypes(es2, q2, l2, rec2, sh2),
         \A b \in Calls \ {c} :
           /\ kd2[b] = kd[b] /\ es2[b] = es[b] /\ q2[b] = q[b] /\ l2[b] = l[b]
           /\ rec2[b] = rec[b] /\ sh2[b] = sh[b] /\ (b \in op2 <=> b \in op) /\ (b \in out2 <=> b \in out),
         Sound(c, es2[c], q2[c], l2[c], rec2[c], sh2[c], op2, out2),
         Fits(kd2[c], es2[c], q2[c], l2[c], rec2[c], sh2[c]),
         entry[c].phase # "none" /\ ~LiveEntry(entry[c]) => es2[c] \in {entry[c], NoEntry}
  PROVE  Keeps(kd2, es2, q2, l2, rec2, sh2, op2, out2)
<1>1. ASSUME NEW b \in Calls
      PROVE  Sound(b, es2[b], q2[b], l2[b], rec2[b], sh2[b], op2, out2)
  <2>1. CASE b = c
    BY <2>1
  <2>2. CASE b # c
    <3>1. Sound(b, es[b], q[b], l[b], rec[b], sh[b], op, out)
      BY DEF Keeps, AllSound
    <3>2. /\ es2[b] = es[b] /\ q2[b] = q[b] /\ l2[b] = l[b]
          /\ rec2[b] = rec[b] /\ sh2[b] = sh[b] /\ (b \in op2 <=> b \in op) /\ (b \in out2 <=> b \in out)
      BY <2>2
    <3> QED
      BY <3>1, <3>2 DEF Sound
  <2> QED
    BY <2>1, <2>2
<1>2. AllFit(kd2, es2, q2, l2, rec2, sh2)
  BY DEF Keeps, AllFit
<1>3. Frozen(es2)
  BY DEF Keeps, Frozen
<1> QED
  BY <1>1, <1>2, <1>3 DEF Keeps, AllSound

LEMMA NoEntryFacts ==
  /\ NoEntry \in Entries /\ NothingQueued \in Queued /\ ~LiveEntry(NoEntry)
  /\ NoEntry.rows = 0 /\ NothingQueued.messages = 0
  BY DEF NoEntry, NothingQueued, Queued, LiveEntry, isLivePhase, Entries, Phases

\* What is known of one call.
LEMMA CallFacts ==
  ASSUME NEW kd, NEW es, NEW q, NEW l, NEW rec, NEW sh, NEW op, NEW out,
         Keeps(kd, es, q, l, rec, sh, op, out), NEW c \in Calls
  PROVE  /\ es[c] \in Entries /\ es[c].rows \in Nat /\ q[c] \in Queued /\ q[c].messages \in Nat
         /\ l[c] \in Lives /\ rec[c] \in Seq(Nat) /\ sh[c] \in Nat
         /\ Sound(c, es[c], q[c], l[c], rec[c], sh[c], op, out)
         /\ Fits(kd[c], es[c], q[c], l[c], rec[c], sh[c])
         /\ entry[c].phase # "none" /\ ~LiveEntry(entry[c]) => es[c] \in {entry[c], NoEntry}
  BY DEF Keeps, StoreTypes, AllSound, AllFit, Frozen, Entries, Queued

\* settleStream of a call that was going on: its entry is over, and it has its record.
LEMMA SettleKeeps ==
  ASSUME NEW es, NEW q, Keeps(kind, es, q, live, records, shown, opened, outcome),
         NEW c \in Calls, LiveEntry(es[c]), q[c] = NothingQueued,
         NEW e \in Entries, ~LiveEntry(e), e.rows = es[c].rows,
         NEW status, Settle(c, status, Set(es, c, e), q)
  PROVE  Keeps(kind, entry', queue', live', records', shown, opened, outcome)
<1>1. /\ es[c] \in Entries /\ es[c].rows \in Nat /\ live[c] \in Lives /\ records[c] \in Seq(Nat)
      /\ shown[c] \in Nat /\ Sound(c, es[c], q[c], live[c], records[c], shown[c], opened, outcome)
      /\ Fits(kind[c], es[c], q[c], live[c], records[c], shown[c])
      /\ entry[c].phase # "none" /\ ~LiveEntry(entry[c]) => es[c] \in {entry[c], NoEntry}
  BY CallFacts
<1>2. live[c] # "no"
  BY <1>1 DEF Sound
<1> DEFINE es2  == Set(es, c, e)
           l2   == Set(live, c, "no")
           rec2 == IF live[c] = "opened" THEN Set(records, c, Append(records[c], es2[c].rows)) ELSE records
<1>3. AfterStore(es2, q, l2, rec2)
  BY <1>2 DEF Settle
<1>4. StoreTypes(es, q, live, records, shown)
  BY DEF Keeps
<1>5. es2[c] = e /\ l2[c] = "no"
  BY <1>4 DEF Set, StoreTypes
<1>6. rec2[c] = IF live[c] = "opened" THEN Append(records[c], es[c].rows) ELSE records[c]
  BY <1>4, <1>5 DEF Set, StoreTypes
<1>7. Append(records[c], es[c].rows) \in Seq(Nat)
  BY <1>1
<1>8. StoreTypes(es2, q, l2, rec2, shown)
  BY <1>4, <1>5, <1>7 DEF StoreTypes, Set, Lives
<1>9. shown[c] = es[c].rows
  BY <1>1 DEF Sound, NothingQueued
<1>10. Sound(c, e, q[c], "no", rec2[c], shown[c], opened, outcome)
  <2>1. CASE live[c] = "opened"
    <3>1. c \in opened /\ records[c] = <<>>
      BY <1>1, <2>1 DEF Sound
    <3>2. rec2[c] = <<shown[c]>>
      BY <1>6, <1>9, <2>1, <3>1
    <3> QED
      BY <3>1, <3>2 DEF Sound
  <2>2. CASE live[c] = "unopened"
    BY <1>1, <1>6, <2>2 DEF Sound
  <2> QED
    BY <1>1, <1>2, <2>1, <2>2 DEF Lives
<1>11. Fits(kind[c], e, q[c], "no", rec2[c], shown[c])
  BY <1>1, <1>2 DEF Fits
<1>12. entry[c].phase # "none" => LiveEntry(entry[c])
  BY <1>1, NoEntryFacts
<1>13. \A b \in Calls \ {c} : es2[b] = es[b] /\ l2[b] = live[b] /\ rec2[b] = records[b]
  BY <1>4 DEF Set, StoreTypes
<1> HIDE DEF es2, l2, rec2
<1>14. Keeps(kind, es2, q, l2, rec2, shown, opened, outcome)
  BY <1>5, <1>8, <1>10, <1>11, <1>12, <1>13, OneCallKeeps
<1> QED
  BY <1>3, <1>14, AfterStoreKeeps

LEMMA EndFacts ==
  ASSUME NEW e \in Entries, NEW ev
  PROVE  /\ CancelEntry(e) \in Entries /\ ~LiveEntry(CancelEntry(e)) /\ CancelEntry(e).rows = e.rows
         /\ EndEntry(e, ev) \in Entries /\ ~LiveEntry(EndEntry(e, ev)) /\ EndEntry(e, ev).rows = e.rows
<1>1. /\ CancelEntry(e) \in Entries /\ ~LiveEntry(CancelEntry(e)) /\ CancelEntry(e).rows = e.rows
  BY DEF CancelEntry, Entries, Phases, LiveEntry, isLivePhase
<1>2. PICK p : p = IF ev = "end" THEN "ended" ELSE "faulted"
  OBVIOUS
<1>3. EndEntry(e, ev) = [e EXCEPT !.phase = p, !.sendFault = FALSE]
  BY <1>2 DEF EndEntry
<1>4. p \in Phases /\ ~isLivePhase(p)
  BY <1>2 DEF Phases, isLivePhase
<1>5. /\ EndEntry(e, ev) \in Entries /\ EndEntry(e, ev).phase = p /\ EndEntry(e, ev).rows = e.rows
  BY <1>3, <1>4 DEF Entries
<1> QED
  BY <1>1, <1>4, <1>5 DEF LiveEntry

LEMMA CancelStreamKeeps ==
  ASSUME Keeps(kind, entry, queue, live, records, shown, opened, outcome), NEW c \in Calls,
         CancelStream(c)
  PROVE  Keeps(kind, entry', queue', live', records', shown, opened, outcome)
<1> DEFINE es == Flushed(entry, queue)
<1>1. Keeps(kind, es, EmptyQueue, live, records, shown, opened, outcome)
  BY FlushedKeeps
<1>2. es[c] \in Entries
  BY <1>1, CallFacts
<1>3. CASE LiveEntry(es[c])
  <2>1. Settle(c, "cancelled", Set(es, c, CancelEntry(es[c])), EmptyQueue)
    BY <1>3 DEF CancelStream
  <2>2. EmptyQueue[c] = NothingQueued
    BY DEF EmptyQueue
  <2> HIDE DEF es
  <2> QED
    BY <1>1, <1>2, <1>3, <2>1, <2>2, EndFacts, SettleKeeps
<1>4. CASE ~LiveEntry(es[c])
  <2>1. entry' = es /\ queue' = EmptyQueue /\ live' = live /\ records' = records
    BY <1>4 DEF CancelStream
  <2> QED
    BY <1>1, <2>1
<1> QED
  BY <1>3, <1>4

-----------------------------------------------------------------------------
(* The actions. *)

Now == Keeps(kind, entry, queue, live, records, shown, opened, outcome)

\* A handler that sends no command and takes no answer or event.
LEMMA RestStays ==
  ASSUME CallInv, UNCHANGED <<kind, channel, core, answer, opened, outcome>>,
         Keeps(kind, entry', queue', live', records', shown', opened, outcome)
  PROVE  CallInv' /\ Frozen(entry')
<1>1. RestTypes /\ UnmadeIsSilent /\ OpensWithAnswer
  BY InvByCall
<1>2. RestTypes' /\ UnmadeIsSilent' /\ OpensWithAnswer'
  BY <1>1 DEF RestTypes, UnmadeIsSilent, OpensWithAnswer
<1>3. Keeps(kind', entry', queue', live', records', shown', opened', outcome')
  BY DEF Keeps, AllSound, AllFit, Sound, Fits, StoreTypes, Frozen
<1> QED
  BY <1>2, <1>3, InvByCallNext

LEMMA UserKeeps ==
  ASSUME CallInv,
         \/ \E d \in Drafts : SetDraft(d)
         \/ LeaveDraft \/ SelectMethod \/ CancelCall \/ Flush \/ UNCHANGED vars
         \/ \E c \in Calls : \/ SendStreamMessage(c) \/ HalfCloseStream(c)
                             \/ CoreSend(c) \/ CoreHalfClose(c) \/ CancelAnswered(c)
  PROVE  CallInv' /\ Frozen(entry')
<1>1. Now
  BY InvByCall DEF Now
<1>2. CASE \/ (\E d \in Drafts : SetDraft(d)) \/ LeaveDraft \/ SelectMethod
  <2>1. /\ AfterStore(entry, queue, live, records)
        /\ UNCHANGED <<kind, channel, core, answer, opened, outcome, shown>>
    BY <1>2 DEF SetDraft, LeaveDraft, SelectMethod, history
  <2>2. Keeps(kind, entry', queue', live', records', shown, opened, outcome)
    BY <1>1, <2>1, AfterStoreKeeps DEF Now
  <2> QED
    BY <2>1, <2>2, RestStays
<1>3. CASE \/ CancelCall \/ (UNCHANGED vars)
           \/ (\E c \in Calls : \/ SendStreamMessage(c) \/ HalfCloseStream(c)
                                \/ CoreSend(c) \/ CoreHalfClose(c))
  <2>1. UNCHANGED <<kind, channel, core, answer, opened, outcome, shown, entry, queue, live, records>>
    BY <1>3 DEF CancelCall, vars, webview, history, ipc, SendStreamMessage, HalfCloseStream, CoreSend,
                CoreHalfClose
  <2> QED
    BY <1>1, <2>1, RestStays DEF Now
<1>4. CASE Flush
  <2>1. /\ UNCHANGED <<kind, channel, core, answer, opened, outcome, shown, live, records>>
        /\ entry' = Flushed(entry, queue) /\ queue' = EmptyQueue
    BY <1>4 DEF Flush, ipc, history
  <2>2. Keeps(kind, Flushed(entry, queue), EmptyQueue, live, records, shown, opened, outcome)
    BY <1>1, FlushedKeeps DEF Now
  <2> QED
    BY <2>1, <2>2, RestStays
<1>5. ASSUME NEW c \in Calls, CancelAnswered(c)
      PROVE  CallInv' /\ Frozen(entry')
  <2>1. UNCHANGED <<kind, channel, core, answer, opened, outcome, shown>>
    BY <1>5 DEF CancelAnswered, history
  <2>2. Keeps(kind, entry', queue', live', records', shown, opened, outcome)
    <3>1. CASE kind[c] = "unary"
      BY <1>1, <1>5, <3>1 DEF CancelAnswered, Now
    <3>2. CASE kind[c] # "unary"
      BY <1>1, <1>5, <3>2, CancelStreamKeeps DEF CancelAnswered, Now
    <3> QED
      BY <3>1, <3>2
  <2> QED
    BY <2>1, <2>2, RestStays
<1> QED
  BY <1>2, <1>3, <1>4, <1>5

-----------------------------------------------------------------------------
(* A new attempt: a dispatch, or the re-route. *)

\* The stores es and l that the code before it left; the call it abandoned is any b.
LEMMA AttemptKeeps ==
  ASSUME CallInv, NEW es, NEW l, Keeps(kind, es, queue, l, records, shown, opened, outcome),
         NEW d, NEW n, NEW k \in Kinds, NEW c \in Calls, NEW carried,
         Attempt(d, n, k, c, carried, es, l), UNCHANGED history
  PROVE  CallInv' /\ Frozen(entry')
<1>1. RestTypes /\ UnmadeIsSilent /\ OpensWithAnswer
  BY InvByCall
<1>2. /\ kind[c] = "none" /\ kind' = Set(kind, c, k)
      /\ core' = Set(core, c, "opening") /\ answer' = Set(answer, c, "pending")
      /\ UNCHANGED <<channel, shown, opened, outcome>>
  BY DEF Attempt, history
<1>3. k \in {"unary", "server", "bidi"} /\ k # "none"
  BY Bounds
<1>4. /\ kind'[c] = k /\ answer'[c] = "pending" /\ core'[c] = "opening"
      /\ \A b \in Calls \ {c} : kind'[b] = kind[b] /\ answer'[b] = answer[b] /\ core'[b] = core[b]
  BY <1>1, <1>2 DEF RestTypes, Set
<1>5. channel[c] = <<>> /\ c \notin opened \cup outcome
  BY <1>1, <1>2 DEF UnmadeIsSilent
<1>6. RestTypes'
  BY <1>1, <1>2 DEF RestTypes, Set
<1>7. UnmadeIsSilent'
  BY <1>1, <1>2, <1>3, <1>4 DEF UnmadeIsSilent
<1>8. OpensWithAnswer'
  BY <1>1, <1>2, <1>4, <1>5 DEF OpensWithAnswer
<1>9. /\ es[c] = NoEntry /\ queue[c] = NothingQueued /\ l[c] = "no" /\ records[c] = <<>> /\ shown[c] = 0
      /\ es[c] \in Entries /\ queue[c] \in Queued /\ Sound(c, es[c], queue[c], l[c], records[c], shown[c], opened, outcome)
      /\ entry[c].phase # "none" /\ ~LiveEntry(entry[c]) => es[c] \in {entry[c], NoEntry}
  BY <1>2, CallFacts DEF Fits
<1>10. PICK kd : kd = kind'
  OBVIOUS
<1>11. StoreTypes(es, queue, l, records, shown)
  BY DEF Keeps
<1>12. CASE k = "unary"
  <2>1. AfterStore(es, queue, l, records)
    BY <1>12 DEF Attempt
  <2>2. Fits(k, es[c], queue[c], l[c], records[c], shown[c])
    BY <1>9, <1>12 DEF Fits
  <2>3. Keeps(kd, es, queue, l, records, shown, opened, outcome)
    BY <1>4, <1>9, <1>10, <1>11, <2>2, OneCallKeeps
  <2>4. Keeps(kd, entry', queue', live', records', shown, opened, outcome)
    BY <2>1, <2>3, AfterStoreKeeps
  <2> QED
    BY <1>2, <1>6, <1>7, <1>8, <1>10, <2>4, InvByCallNext
<1>13. CASE k # "unary"
  <2> DEFINE e   == [NoEntry EXCEPT !.phase = "opening"]
             es2 == Set(es, c, e)
             l2  == Set(l, c, "unopened")
  <2>1. AfterStore(es2, queue, l2, records)
    BY <1>13 DEF Attempt
  <2>2. e \in Entries /\ LiveEntry(e) /\ e.rows = 0
    BY DEF NoEntry, Entries, Phases, LiveEntry, isLivePhase
  <2>3. /\ StoreTypes(es2, queue, l2, records, shown) /\ es2[c] = e /\ l2[c] = "unopened"
        /\ \A b \in Calls \ {c} : es2[b] = es[b] /\ l2[b] = l[b]
    BY <1>11, <2>2 DEF StoreTypes, Set, Lives
  <2>4. Sound(c, e, queue[c], "unopened", records[c], shown[c], opened, outcome)
    BY <1>5, <1>9, <2>2, NoEntryFacts DEF Sound
  <2>5. Fits(k, e, queue[c], "unopened", records[c], shown[c])
    BY <1>3, <1>13 DEF Fits
  <2>6. ~(entry[c].phase # "none" /\ ~LiveEntry(entry[c])) \/ es2[c] \in {entry[c], NoEntry}
    BY <1>1, <1>2, InvByCall DEF Keeps, AllFit, Fits, NoEntry
  <2> HIDE DEF e, es2, l2
  <2>7. Keeps(kd, es2, queue, l2, records, shown, opened, outcome)
    BY <1>4, <1>10, <2>3, <2>4, <2>5, <2>6, OneCallKeeps
  <2>8. Keeps(kd, entry', queue', live', records', shown, opened, outcome)
    BY <2>1, <2>7, AfterStoreKeeps
  <2> QED
    BY <1>2, <1>6, <1>7, <1>8, <1>10, <2>8, InvByCallNext
<1> QED
  BY <1>12, <1>13

LEMMA DispatchKeeps ==
  ASSUME CallInv, Dispatch
  PROVE  CallInv' /\ Frozen(entry')
<1>1. PICK k \in Kinds, c \in Calls : Attempt(draft.id, 1, k, c, draft.streamId, entry, live)
  BY DEF Dispatch
<1> QED
  BY <1>1, AttemptKeeps, InvByCall DEF Dispatch

\* A call that was refused for its kind, and nothing came of.
LEMMA DroppedKeeps ==
  ASSUME CallInv, NEW c \in Calls, answer[c] = "mismatch",
         NEW q2, q2 \in {queue, Set(queue, c, NothingQueued)}
  PROVE  Keeps(kind, Set(entry, c, NoEntry), q2, Set(live, c, "no"), records, shown, opened, outcome)
<1>1. Now /\ RestTypes /\ UnmadeIsSilent /\ OpensWithAnswer
  BY InvByCall DEF Now
<1>2. c \notin opened /\ c \notin outcome /\ kind[c] # "none"
  BY <1>1 DEF OpensWithAnswer, UnmadeIsSilent
<1> DEFINE es2 == Set(entry, c, NoEntry)
           l2  == Set(live, c, "no")
<1>3. StoreTypes(entry, queue, live, records, shown)
  BY <1>1 DEF Now, Keeps
<1>4. /\ StoreTypes(es2, q2, l2, records, shown) /\ es2[c] = NoEntry /\ l2[c] = "no"
      /\ \A b \in Calls \ {c} : es2[b] = entry[b] /\ l2[b] = live[b] /\ q2[b] = queue[b]
  BY <1>3, NoEntryFacts DEF StoreTypes, Set, Lives
<1>5. Sound(c, entry[c], queue[c], live[c], records[c], shown[c], opened, outcome)
  BY <1>1, CallFacts DEF Now
<1>6. Sound(c, NoEntry, q2[c], "no", records[c], shown[c], opened, outcome)
  BY <1>2, <1>5, NoEntryFacts DEF Sound
<1>7. Fits(kind[c], NoEntry, q2[c], "no", records[c], shown[c])
  BY <1>2 DEF Fits
<1> HIDE DEF es2, l2
<1>8. Keeps(kind, es2, q2, l2, records, shown, opened, outcome)
  BY <1>1, <1>4, <1>6, <1>7, OneCallKeeps DEF Now
<1> QED
  BY <1>8 DEF es2, l2

LEMMA RerouteKeeps ==
  ASSUME CallInv, NEW c \in Calls, Reroute(c)
  PROVE  CallInv' /\ Frozen(entry')
<1>1. PICK k \in Kinds, b \in Calls :
         Attempt(owner[c], 2, k, b, run[owner[c]].carried, Set(entry, c, NoEntry), Set(live, c, "no"))
  BY DEF Reroute
<1>2. answer[c] = "mismatch" /\ UNCHANGED history
  BY DEF Reroute, Mismatch
<1>3. Keeps(kind, Set(entry, c, NoEntry), queue, Set(live, c, "no"), records, shown, opened, outcome)
  BY <1>2, DroppedKeeps
<1> QED
  BY <1>1, <1>2, <1>3, AttemptKeeps

-----------------------------------------------------------------------------
(* The promises settle. *)

\* The answer of a call is taken: it may be marked as opened, or have an outcome, from then on.
LEMMA AnswerTaken ==
  ASSUME CallInv, NEW c \in Calls, answer[c] \notin {"none", "pending"},
         answer' = Set(answer, c, "settled"), UNCHANGED <<kind, channel, core>>,
         opened' = opened \/ (opened' = opened \cup {c} /\ kind[c] # "unary"),
         outcome' \in {outcome, outcome \cup {c}}
  PROVE  RestTypes' /\ UnmadeIsSilent' /\ OpensWithAnswer'
<1>1. RestTypes /\ UnmadeIsSilent /\ OpensWithAnswer
  BY InvByCall
<1>2. kind[c] # "none" /\ core[c] # "opening"
  BY <1>1 DEF UnmadeIsSilent, OpensWithAnswer
<1>3. answer'[c] = "settled" /\ \A b \in Calls \ {c} : answer'[b] = answer[b]
  BY <1>1 DEF RestTypes, Set
<1>4. \A b \in Calls \ {c} : (b \in opened' <=> b \in opened) /\ (b \in outcome' <=> b \in outcome)
  OBVIOUS
<1>5. RestTypes'
  BY <1>1 DEF RestTypes, Set
<1>6. UnmadeIsSilent'
  BY <1>1, <1>2, <1>3, <1>4 DEF UnmadeIsSilent
<1>7. ASSUME NEW b \in Calls
      PROVE  /\ answer'[b] \in {"pending", "refused", "cancelled", "mismatch"} => b \notin opened' /\ channel[b] = <<>>
             /\ core[b] = "opening" => answer'[b] = "pending"
             /\ core[b] = "live" => answer'[b] \in {"ok", "settled"}
             /\ b \in outcome' => answer'[b] = "settled"
             /\ kind[b] = "unary" => b \notin opened'
  BY <1>1, <1>2, <1>3, <1>4 DEF OpensWithAnswer
<1> QED
  BY <1>5, <1>6, <1>7 DEF OpensWithAnswer

LEMMA GiveUpKeeps ==
  ASSUME CallInv, NEW c \in Calls, RerouteCancelled(c) \/ SecondMismatch(c)
  PROVE  CallInv' /\ Frozen(entry')
<1>1. /\ answer[c] = "mismatch" /\ UNCHANGED <<shown, opened, outcome, kind, channel>>
      /\ answer' = Set(answer, c, "settled")
      /\ AfterStore(Set(entry, c, NoEntry), Set(queue, c, NothingQueued), Set(live, c, "no"), records)
  BY DEF RerouteCancelled, SecondMismatch, Mismatch, GiveUp, history
<1>2. Keeps(kind, Set(entry, c, NoEntry), Set(queue, c, NothingQueued), Set(live, c, "no"), records,
            shown, opened, outcome)
  BY <1>1, DroppedKeeps
<1>3. Keeps(kind, entry', queue', live', records', shown, opened, outcome)
  BY <1>1, <1>2, AfterStoreKeeps
<1>4. UNCHANGED core
  BY DEF RerouteCancelled, SecondMismatch, GiveUp
<1>5. RestTypes' /\ UnmadeIsSilent' /\ OpensWithAnswer'
  BY <1>1, <1>4, AnswerTaken
<1> QED
  BY <1>1, <1>3, <1>5, InvByCallNext

\* Marking a live call as opened.
LEMMA MarkKeeps ==
  ASSUME Now, NEW c \in Calls, NEW q2 \in [Calls -> Queued],
         \A b \in Calls \ {c} : q2[b] = queue[b],
         q2[c].messages = queue[c].messages, kind[c] # "none", NEW op2,
         op2 = IF live[c] = "no" THEN opened ELSE opened \cup {c}
  PROVE  Keeps(kind, entry, q2, MarkedLive(c), records, shown, op2, outcome)
<1>1. StoreTypes(entry, queue, live, records, shown)
  BY DEF Now, Keeps
<1> DEFINE l2 == MarkedLive(c)
<1>2. /\ l2[c] = IF live[c] = "no" THEN "no" ELSE "opened"
      /\ \A b \in Calls \ {c} : l2[b] = live[b]
      /\ StoreTypes(entry, q2, l2, records, shown)
  BY <1>1 DEF StoreTypes, MarkedLive, Set, Lives
<1>3. /\ Sound(c, entry[c], queue[c], live[c], records[c], shown[c], opened, outcome)
      /\ Fits(kind[c], entry[c], queue[c], live[c], records[c], shown[c])
      /\ live[c] \in Lives /\ records[c] \in Seq(Nat)
  BY CallFacts DEF Now
<1>4. Sound(c, entry[c], q2[c], l2[c], records[c], shown[c], op2, outcome)
  <2>1. CASE live[c] = "no"
    BY <1>2, <1>3, <2>1 DEF Sound
  <2>2. CASE live[c] # "no"
    <3>1. c \in op2 /\ c \notin outcome /\ l2[c] = "opened" /\ LiveEntry(entry[c])
      BY <1>2, <1>3, <2>2 DEF Sound
    <3>2. Len(records[c]) = 0
      BY <1>3, <2>2 DEF Sound
    <3> QED
      BY <1>3, <3>1, <3>2 DEF Sound
  <2> QED
    BY <2>1, <2>2
<1>5. Fits(kind[c], entry[c], q2[c], l2[c], records[c], shown[c])
  BY <1>2, <1>3 DEF Fits
<1>6. \A b \in Calls \ {c} : b \in op2 <=> b \in opened
  OBVIOUS
<1> HIDE DEF l2
<1>7. Keeps(kind, entry, q2, l2, records, shown, op2, outcome)
  BY <1>2, <1>4, <1>5, <1>6, OneCallKeeps DEF Now
<1> QED
  BY <1>7 DEF l2

LEMMA OpenResolvedKeeps ==
  ASSUME CallInv, NEW c \in Calls, OpenResolved(c)
  PROVE  CallInv' /\ Frozen(entry')
<1>1. Now /\ UnmadeIsSilent
  BY InvByCall DEF Now
<1>2. /\ kind[c] # "unary" /\ answer[c] = "ok" /\ live' = MarkedLive(c)
      /\ opened' = IF live[c] = "no" THEN opened ELSE opened \cup {c}
      /\ answer' = Set(answer, c, "settled")
      /\ UNCHANGED <<kind, entry, queue, records, core, channel, shown, outcome>>
  BY DEF OpenResolved, Mark
<1>3. kind[c] # "none" /\ queue \in [Calls -> Queued]
  BY <1>1, <1>2 DEF UnmadeIsSilent, Now, Keeps, StoreTypes
<1>4. PICK op2 : op2 = opened'
  OBVIOUS
<1>5. Keeps(kind, entry, queue, MarkedLive(c), records, shown, op2, outcome)
  BY <1>1, <1>2, <1>3, <1>4, MarkKeeps
<1>6. RestTypes' /\ UnmadeIsSilent' /\ OpensWithAnswer'
  BY <1>2, AnswerTaken
<1> QED
  BY <1>2, <1>4, <1>5, <1>6, InvByCallNext

\* The record of a call that never opened, and is not live: its outcome.
LEMMA OutcomeKeeps ==
  ASSUME CallInv, NEW es, NEW q, NEW l, Keeps(kind, es, q, l, records, shown, opened, outcome),
         NEW c \in Calls, answer[c] \notin {"none", "settled"}, l[c] = "no", c \notin opened
  PROVE  Keeps(kind, es, q, l, Set(records, c, Append(records[c], 0)), shown, opened, outcome \cup {c})
<1>1. UnmadeIsSilent /\ OpensWithAnswer
  BY InvByCall
<1>2. c \notin outcome /\ kind[c] # "none"
  BY <1>1 DEF OpensWithAnswer, UnmadeIsSilent
<1>3. /\ Sound(c, es[c], q[c], l[c], records[c], shown[c], opened, outcome)
      /\ Fits(kind[c], es[c], q[c], l[c], records[c], shown[c])
      /\ records[c] \in Seq(Nat)
      /\ entry[c].phase # "none" /\ ~LiveEntry(entry[c]) => es[c] \in {entry[c], NoEntry}
  BY CallFacts
<1>4. StoreTypes(es, q, l, records, shown)
  BY DEF Keeps
<1>5. records[c] = <<>>
  BY <1>2, <1>3 DEF Sound
<1> DEFINE rec2 == Set(records, c, Append(records[c], 0))
           out2 == outcome \cup {c}
<1>6. Append(records[c], 0) \in Seq(Nat) /\ Append(records[c], 0) = <<0>>
  BY <1>5
<1>7. /\ rec2[c] = <<0>> /\ StoreTypes(es, q, l, rec2, shown)
      /\ \A b \in Calls \ {c} : rec2[b] = records[b]
  BY <1>4, <1>6 DEF StoreTypes, Set
<1>8. c \in out2 /\ \A b \in Calls \ {c} : b \in out2 <=> b \in outcome
  OBVIOUS
<1>9. Fits(kind[c], es[c], q[c], l[c], rec2[c], shown[c])
  BY <1>2, <1>3 DEF Fits
<1> HIDE DEF rec2, out2
<1>10. Sound(c, es[c], q[c], l[c], rec2[c], shown[c], opened, out2)
  BY <1>3, <1>7, <1>8 DEF Sound
<1>11. Keeps(kind, es, q, l, rec2, shown, opened, out2)
  BY <1>3, <1>7, <1>8, <1>9, <1>10, OneCallKeeps
<1> QED
  BY <1>11 DEF rec2, out2

LEMMA UnaryAnsweredKeeps ==
  ASSUME CallInv, NEW c \in Calls, UnaryAnswered(c)
  PROVE  CallInv' /\ Frozen(entry')
<1>1. Now /\ OpensWithAnswer
  BY InvByCall DEF Now
<1>2. /\ kind[c] = "unary" /\ answer[c] \in {"ok", "refused", "cancelled"}
      /\ AfterStore(entry, queue, live,
                    IF answer[c] = "cancelled" THEN records ELSE Set(records, c, Append(records[c], 0)))
      /\ outcome' = IF answer[c] = "cancelled" THEN outcome ELSE outcome \cup {c}
      /\ answer' = Set(answer, c, "settled")
      /\ UNCHANGED <<kind, core, channel, shown, opened>>
  BY DEF UnaryAnswered
<1>3. live[c] = "no" /\ c \notin opened
  BY <1>1, <1>2, CallFacts DEF Now, Fits, OpensWithAnswer
<1>4. PICK out2, rec2 :
        /\ out2 = outcome'
        /\ rec2 = IF answer[c] = "cancelled" THEN records ELSE Set(records, c, Append(records[c], 0))
  OBVIOUS
<1>5. Keeps(kind, entry, queue, live, rec2, shown, opened, out2)
  BY <1>1, <1>2, <1>3, <1>4, OutcomeKeeps DEF Now
<1>6. Keeps(kind, entry', queue', live', records', shown, opened, out2)
  BY <1>2, <1>4, <1>5, AfterStoreKeeps
<1>7. RestTypes' /\ UnmadeIsSilent' /\ OpensWithAnswer'
  BY <1>2, AnswerTaken
<1> QED
  BY <1>2, <1>4, <1>6, <1>7, InvByCallNext

LEMMA OpenRejectedKeeps ==
  ASSUME CallInv, NEW c \in Calls, OpenRejected(c)
  PROVE  CallInv' /\ Frozen(entry')
<1>1. Now /\ OpensWithAnswer /\ UnmadeIsSilent
  BY InvByCall DEF Now
<1>2. /\ kind[c] # "unary" /\ answer[c] \in {"refused", "cancelled", "mismatch"}
      /\ answer[c] = "mismatch" => live[c] = "no"
      /\ answer' = Set(answer, c, "settled")
      /\ UNCHANGED <<kind, core, channel, shown, opened>>
  BY DEF OpenRejected
<1>3. c \notin opened /\ kind[c] # "none"
  BY <1>1, <1>2 DEF OpensWithAnswer, UnmadeIsSilent
<1>4. CASE live[c] = "no"
  <2>1. UNCHANGED <<live, records, entry, queue, outcome>>
    BY <1>4 DEF OpenRejected
  <2>2. RestTypes' /\ UnmadeIsSilent' /\ OpensWithAnswer'
    BY <1>2, <2>1, AnswerTaken
  <2> QED
    BY <1>1, <1>2, <2>1, <2>2, InvByCallNext DEF Now
<1>5. CASE live[c] # "no" /\ answer[c] = "cancelled"
  <2>1. CancelStream(c) /\ UNCHANGED outcome
    BY <1>5 DEF OpenRejected
  <2>2. Keeps(kind, entry', queue', live', records', shown, opened, outcome)
    BY <1>1, <2>1, CancelStreamKeeps DEF Now
  <2>3. RestTypes' /\ UnmadeIsSilent' /\ OpensWithAnswer'
    BY <1>2, <2>1, AnswerTaken
  <2> QED
    BY <1>2, <2>1, <2>2, <2>3, InvByCallNext
<1>6. CASE live[c] # "no" /\ answer[c] = "refused"
  <2> DEFINE es2 == Set(entry, c, NoEntry)
             q2  == Set(queue, c, NothingQueued)
             l2  == Set(live, c, "no")
  <2>1. /\ AfterStore(es2, q2, l2, Set(records, c, Append(records[c], 0)))
        /\ outcome' = outcome \cup {c}
    BY <1>6 DEF OpenRejected
  <2>2. StoreTypes(entry, queue, live, records, shown)
    BY <1>1 DEF Now, Keeps
  <2>3. /\ StoreTypes(es2, q2, l2, records, shown)
        /\ es2[c] = NoEntry /\ q2[c] = NothingQueued /\ l2[c] = "no"
        /\ \A b \in Calls \ {c} : es2[b] = entry[b] /\ q2[b] = queue[b] /\ l2[b] = live[b]
    BY <2>2, NoEntryFacts DEF StoreTypes, Set, Lives
  <2>4. Sound(c, entry[c], queue[c], live[c], records[c], shown[c], opened, outcome)
    BY <1>1, CallFacts DEF Now
  <2>5. c \notin outcome
    BY <2>4, <1>6 DEF Sound
  <2>6. Sound(c, NoEntry, NothingQueued, "no", records[c], shown[c], opened, outcome)
    BY <1>3, <2>4, <2>5, NoEntryFacts DEF Sound
  <2>7. Fits(kind[c], NoEntry, NothingQueued, "no", records[c], shown[c])
    BY <1>3 DEF Fits
  <2> HIDE DEF es2, q2, l2
  <2>8. Keeps(kind, es2, q2, l2, records, shown, opened, outcome)
    BY <1>1, <2>3, <2>6, <2>7, OneCallKeeps DEF Now
  <2>9. Keeps(kind, es2, q2, l2, Set(records, c, Append(records[c], 0)), shown, opened, outcome \cup {c})
    BY <1>3, <1>6, <2>3, <2>8, OutcomeKeeps
  <2>10. Keeps(kind, entry', queue', live', records', shown, opened, outcome \cup {c})
    BY <2>1, <2>9, AfterStoreKeeps
  <2>11. RestTypes' /\ UnmadeIsSilent' /\ OpensWithAnswer'
    BY <1>2, <2>1, AnswerTaken
  <2> QED
    BY <1>2, <2>1, <2>10, <2>11, InvByCallNext
<1> QED
  BY <1>2, <1>4, <1>5, <1>6

-----------------------------------------------------------------------------
(* Events, and the answers to a sent message and a half-close. *)

LEMMA EventTaken ==
  ASSUME CallInv, NEW c \in Calls, channel[c] # <<>>, channel' = Set(channel, c, Tail(channel[c])),
         UNCHANGED <<kind, core, answer, outcome>>,
         opened' = opened \/ (opened' = opened \cup {c} /\ kind[c] # "unary")
  PROVE  RestTypes' /\ UnmadeIsSilent' /\ OpensWithAnswer'
<1>1. RestTypes /\ UnmadeIsSilent /\ OpensWithAnswer
  BY InvByCall
<1>2. kind[c] # "none" /\ answer[c] \notin {"pending", "refused", "cancelled", "mismatch"}
  BY <1>1 DEF UnmadeIsSilent, OpensWithAnswer
<1>3. Tail(channel[c]) \in Seq(Events)
  BY <1>1 DEF RestTypes
<1>4. \A b \in Calls \ {c} : channel'[b] = channel[b] /\ (b \in opened' <=> b \in opened)
  BY <1>1 DEF RestTypes, Set
<1>5. RestTypes'
  BY <1>1, <1>3 DEF RestTypes, Set
<1>6. UnmadeIsSilent'
  BY <1>1, <1>2, <1>4 DEF UnmadeIsSilent
<1>7. ASSUME NEW b \in Calls
      PROVE  /\ answer[b] \in {"pending", "refused", "cancelled", "mismatch"} => b \notin opened' /\ channel'[b] = <<>>
             /\ kind[b] = "unary" => b \notin opened'
  BY <1>1, <1>2, <1>4 DEF OpensWithAnswer
<1> QED
  BY <1>1, <1>5, <1>6, <1>7 DEF OpensWithAnswer

LEMMA DeliverOpenedKeeps ==
  ASSUME CallInv, NEW c \in Calls, Deliver(c), DeliverOpened(c)
  PROVE  CallInv' /\ Frozen(entry')
<1>1. Now /\ UnmadeIsSilent
  BY InvByCall DEF Now
<1>2. /\ channel[c] # <<>> /\ channel' = Set(channel, c, Tail(channel[c]))
      /\ UNCHANGED <<kind, core, answer, outcome, entry, records, shown>>
      /\ live' = MarkedLive(c) /\ queue' = Pushed(c, "opened")
      /\ opened' = IF live[c] = "no" THEN opened ELSE opened \cup {c}
  BY DEF Deliver, DeliverOpened, Mark
<1>3. kind[c] # "none"
  BY <1>1, <1>2 DEF UnmadeIsSilent
<1>4. queue \in [Calls -> Queued]
  BY <1>1 DEF Now, Keeps, StoreTypes
<1>5. /\ Pushed(c, "opened") \in [Calls -> Queued]
      /\ \A b \in Calls \ {c} : Pushed(c, "opened")[b] = queue[b]
      /\ Pushed(c, "opened")[c].messages = queue[c].messages
  BY <1>4 DEF Pushed, Set, Queued
<1>6. PICK op2 : op2 = opened'
  OBVIOUS
<1>7. Keeps(kind, entry, Pushed(c, "opened"), MarkedLive(c), records, shown, op2, outcome)
  BY <1>1, <1>2, <1>3, <1>5, <1>6, MarkKeeps
<1>8. kind[c] = "unary" => live[c] = "no"
  BY <1>1, CallFacts DEF Now, Fits
<1>9. RestTypes' /\ UnmadeIsSilent' /\ OpensWithAnswer'
  BY <1>2, <1>8, EventTaken
<1> QED
  BY <1>2, <1>6, <1>7, <1>9, InvByCallNext

LEMMA DeliverMessageKeeps ==
  ASSUME CallInv, NEW c \in Calls, Deliver(c), DeliverMessage(c)
  PROVE  CallInv' /\ Frozen(entry')
<1>1. Now /\ UnmadeIsSilent
  BY InvByCall DEF Now
<1>2. /\ channel[c] # <<>> /\ channel' = Set(channel, c, Tail(channel[c]))
      /\ UNCHANGED <<kind, core, answer, outcome, opened, entry, live, records>>
      /\ queue' = Pushed(c, "message")
      /\ shown' = IF LiveEntry(entry[c]) THEN Set(shown, c, shown[c] + 1) ELSE shown
  BY DEF Deliver, DeliverMessage
<1>3. kind[c] # "none"
  BY <1>1, <1>2 DEF UnmadeIsSilent
<1>4. StoreTypes(entry, queue, live, records, shown)
  BY <1>1 DEF Now, Keeps
<1>5. /\ Pushed(c, "message") \in [Calls -> Queued]
      /\ \A b \in Calls \ {c} : Pushed(c, "message")[b] = queue[b]
      /\ entry[c].phase # "none" => Pushed(c, "message")[c].messages = queue[c].messages + 1
  <2>1. PICK w : w = queue[c]
    OBVIOUS
  <2>2. w \in Queued /\ w.messages + 1 \in Nat
    BY <1>4, <2>1 DEF StoreTypes, Queued
  <2>3. [w EXCEPT !.messages = @ + 1] \in Queued /\ [w EXCEPT !.messages = @ + 1].messages = w.messages + 1
    BY <2>2 DEF Queued
  <2> QED
    BY <1>4, <2>1, <2>3 DEF Pushed, Set, StoreTypes
<1>6. PICK q2, sh2 : q2 = Pushed(c, "message") /\ sh2 = shown'
  OBVIOUS
<1>7. /\ StoreTypes(entry, q2, live, records, sh2) /\ \A b \in Calls \ {c} : sh2[b] = shown[b]
      /\ LiveEntry(entry[c]) => sh2[c] = shown[c] + 1
      /\ ~LiveEntry(entry[c]) => sh2[c] = shown[c]
  BY <1>2, <1>4, <1>5, <1>6 DEF StoreTypes, Set
<1>8. /\ Sound(c, entry[c], queue[c], live[c], records[c], shown[c], opened, outcome)
      /\ Fits(kind[c], entry[c], queue[c], live[c], records[c], shown[c])
      /\ records[c] \in Seq(Nat) /\ entry[c].rows \in Nat /\ queue[c].messages \in Nat /\ shown[c] \in Nat
  BY <1>1, CallFacts DEF Now
<1>9. Sound(c, entry[c], q2[c], live[c], records[c], sh2[c], opened, outcome)
  <2>1. CASE LiveEntry(entry[c])
    <3>1. records[c] = <<>> /\ entry[c].phase # "none"
      BY <1>8, <2>1 DEF Sound, LiveEntry, isLivePhase
    <3>2. q2[c].messages = queue[c].messages + 1
      BY <1>5, <1>6, <3>1
    <3> QED
      BY <1>7, <1>8, <2>1, <3>1, <3>2 DEF Sound
  <2>2. CASE ~LiveEntry(entry[c])
    BY <1>7, <1>8, <2>2 DEF Sound
  <2> QED
    BY <2>1, <2>2
<1>10. Fits(kind[c], entry[c], q2[c], live[c], records[c], sh2[c])
  BY <1>3, <1>8 DEF Fits
<1>11. Keeps(kind, entry, q2, live, records, sh2, opened, outcome)
  BY <1>1, <1>5, <1>6, <1>7, <1>9, <1>10, OneCallKeeps DEF Now
<1>12. RestTypes' /\ UnmadeIsSilent' /\ OpensWithAnswer'
  BY <1>2, EventTaken
<1> QED
  BY <1>2, <1>6, <1>11, <1>12, InvByCallNext

LEMMA DeliverEndKeeps ==
  ASSUME CallInv, NEW c \in Calls, Deliver(c), NEW ev, DeliverEnd(c, ev)
  PROVE  CallInv' /\ Frozen(entry')
<1>1. Now
  BY InvByCall DEF Now
<1>2. /\ channel[c] # <<>> /\ channel' = Set(channel, c, Tail(channel[c]))
      /\ UNCHANGED <<kind, core, answer, outcome, shown, opened>>
  BY DEF Deliver, DeliverEnd
<1>3. RestTypes' /\ UnmadeIsSilent' /\ OpensWithAnswer'
  BY <1>2, EventTaken
<1>4. Keeps(kind, entry', queue', live', records', shown, opened, outcome)
  <2>1. CASE LiveEntry(entry[c])
    <3>1. PICK es : es = Flushed(entry, queue)
      OBVIOUS
    <3>2. PICK status : Settle(c, status, Set(es, c, EndEntry(es[c], ev)), EmptyQueue)
      BY <2>1, <3>1 DEF DeliverEnd
    <3>3. Keeps(kind, es, EmptyQueue, live, records, shown, opened, outcome)
      BY <1>1, <3>1, FlushedKeeps DEF Now
    <3>4. es[c] \in Entries /\ EmptyQueue[c] = NothingQueued
      BY <3>3, CallFacts DEF EmptyQueue
    <3>5. LiveEntry(es[c])
      BY <1>1, <2>1, <3>1, ApplyLive, CallFacts DEF Flushed, Now
    <3> QED
      BY <3>2, <3>3, <3>4, <3>5, EndFacts, SettleKeeps
  <2>2. CASE ~LiveEntry(entry[c])
    BY <1>1, <2>2 DEF DeliverEnd, Now
  <2> QED
    BY <2>1, <2>2
<1> QED
  BY <1>2, <1>3, <1>4, InvByCallNext

LEMMA TouchFacts ==
  ASSUME NEW e \in Entries
  PROVE  /\ PushOutbound(e) \in Entries /\ PushOutbound(e).rows = e.rows + 1
         /\ HalfClose(e) \in Entries /\ HalfClose(e).rows = e.rows
         /\ SetSendFault(e) \in Entries /\ SetSendFault(e).rows = e.rows
         /\ LiveEntry(e) => /\ LiveEntry(PushOutbound(e)) /\ LiveEntry(HalfClose(e))
                            /\ LiveEntry(SetSendFault(e))
<1>1. e.rows + 1 \in Nat
  BY DEF Entries
<1>2. PushOutbound(e) \in Entries /\ PushOutbound(e).rows = e.rows + 1 /\ PushOutbound(e).phase = e.phase
  BY <1>1 DEF PushOutbound, Entries
<1>3. HalfClose(e) \in Entries /\ HalfClose(e).rows = e.rows /\ HalfClose(e).phase = e.phase
  BY DEF HalfClose, Entries
<1>4. SetSendFault(e) \in Entries /\ SetSendFault(e).rows = e.rows /\ SetSendFault(e).phase = e.phase
  BY DEF SetSendFault, Entries
<1> QED
  BY <1>2, <1>3, <1>4 DEF LiveEntry

\* A send or a half-close is answered: the entry, if live, has one row more or none.
LEMMA TouchKeeps ==
  ASSUME Now, NEW c \in Calls, NEW change \in {"push", "half", "fault"}, OnLiveEntry(c, change),
         NEW sh2, sh2 = IF change = "push" /\ LiveEntry(entry[c]) THEN Set(shown, c, shown[c] + 1) ELSE shown
  PROVE  Keeps(kind, entry', queue', live, records, sh2, opened, outcome)
<1> DEFINE es == Flushed(entry, queue)
<1>1. Keeps(kind, es, EmptyQueue, live, records, shown, opened, outcome)
  BY FlushedKeeps DEF Now
<1>2. /\ es[c] \in Entries /\ es[c].rows \in Nat /\ shown[c] \in Nat /\ records[c] \in Seq(Nat)
      /\ Sound(c, es[c], EmptyQueue[c], live[c], records[c], shown[c], opened, outcome)
      /\ Fits(kind[c], es[c], EmptyQueue[c], live[c], records[c], shown[c])
      /\ entry[c].phase # "none" /\ ~LiveEntry(entry[c]) => es[c] \in {entry[c], NoEntry}
  BY <1>1, CallFacts
<1>3. LiveEntry(es[c]) <=> LiveEntry(entry[c])
  BY ApplyLive, CallFacts DEF Flushed, Now
<1>4. queue' = EmptyQueue
  BY DEF OnLiveEntry
<1>5. CASE ~LiveEntry(es[c])
  BY <1>1, <1>3, <1>4, <1>5 DEF OnLiveEntry
<1>6. CASE LiveEntry(es[c])
  <2>1. PICK e : e = CASE change = "push"  -> PushOutbound(es[c])
                       [] change = "half"  -> HalfClose(es[c])
                       [] change = "fault" -> SetSendFault(es[c])
    OBVIOUS
  <2>2. entry' = Set(es, c, e)
    BY <1>6, <2>1 DEF OnLiveEntry
  <2>3. /\ e \in Entries /\ LiveEntry(e)
        /\ e.rows = IF change = "push" THEN es[c].rows + 1 ELSE es[c].rows
    BY <1>2, <1>6, <2>1, TouchFacts
  <2>4. shown[c] = es[c].rows /\ records[c] = <<>> /\ live[c] # "no"
    BY <1>2, <1>6, NoEntryFacts DEF Sound, EmptyQueue
  <2>5. StoreTypes(es, EmptyQueue, live, records, shown)
    BY <1>1 DEF Keeps
  <2>6. PICK es2 : es2 = Set(es, c, e)
    OBVIOUS
  <2>7. /\ StoreTypes(es2, EmptyQueue, live, records, sh2) /\ es2[c] = e /\ sh2[c] = e.rows
        /\ \A b \in Calls \ {c} : es2[b] = es[b] /\ sh2[b] = shown[b]
    <3>1. sh2[c] = e.rows /\ sh2 \in [Calls -> Nat] /\ \A b \in Calls \ {c} : sh2[b] = shown[b]
      BY <1>2, <1>3, <1>6, <2>3, <2>4, <2>5 DEF Set, StoreTypes
    <3> QED
      BY <2>3, <2>5, <2>6, <3>1 DEF Set, StoreTypes
  <2>8. Sound(c, e, EmptyQueue[c], live[c], records[c], sh2[c], opened, outcome)
    BY <1>2, <1>6, <2>3, <2>4, <2>7, NoEntryFacts DEF Sound, EmptyQueue, Entries
  <2>9. Fits(kind[c], e, EmptyQueue[c], live[c], records[c], sh2[c])
    BY <1>2, <2>4 DEF Fits
  <2>10. ~(entry[c].phase # "none" /\ ~LiveEntry(entry[c]))
    BY <1>3, <1>6
  <2> HIDE DEF es
  <2>11. Keeps(kind, es2, EmptyQueue, live, records, sh2, opened, outcome)
    BY <1>1, <2>7, <2>8, <2>9, <2>10, OneCallKeeps
  <2> QED
    BY <1>4, <2>2, <2>6, <2>11
<1> QED
  BY <1>5, <1>6

LEMMA SendAnsweredKeeps ==
  ASSUME CallInv, NEW c \in Calls, SendAnswered(c) \/ HalfCloseAnswered(c)
  PROVE  CallInv' /\ Frozen(entry')
<1>1. Now
  BY InvByCall DEF Now
<1>2. UNCHANGED <<kind, channel, core, answer, opened, outcome, live, records>>
  BY DEF SendAnswered, HalfCloseAnswered, history
<1>3. \E change \in {"push", "half", "fault"} :
        /\ OnLiveEntry(c, change)
        /\ shown' = IF change = "push" /\ LiveEntry(entry[c]) THEN Set(shown, c, shown[c] + 1) ELSE shown
  <2>1. CASE SendAnswered(c)
    BY <2>1 DEF SendAnswered
  <2>2. CASE HalfCloseAnswered(c)
    BY <2>2 DEF HalfCloseAnswered, history
  <2> QED
    BY <2>1, <2>2
<1>4. PICK sh2 : sh2 = shown'
  OBVIOUS
<1>5. Keeps(kind, entry', queue', live, records, sh2, opened, outcome)
  BY <1>1, <1>3, <1>4, TouchKeeps
<1> QED
  BY <1>2, <1>4, <1>5, RestStays

-----------------------------------------------------------------------------
(* Core: it leaves the stores alone. *)

LEMMA CoreStays ==
  ASSUME CallInv, UNCHANGED <<webview, shown, opened, outcome>>, RestTypes', UnmadeIsSilent', OpensWithAnswer'
  PROVE  CallInv' /\ Frozen(entry')
<1>1. Keeps(kind', entry', queue', live', records', shown', opened', outcome')
  BY InvByCall DEF webview, Keeps, AllSound, AllFit, Sound, Fits, StoreTypes, Frozen
<1> QED
  BY <1>1, InvByCallNext

LEMMA CoreAnswerKeeps ==
  ASSUME CallInv, NEW c \in Calls, CoreAnswer(c)
  PROVE  CallInv' /\ Frozen(entry')
<1>1. RestTypes /\ UnmadeIsSilent /\ OpensWithAnswer
  BY InvByCall
<1>2. core[c] = "opening" /\ UNCHANGED <<webview, shown, opened, outcome>> /\ kind' = kind
  BY DEF CoreAnswer, history, webview
<1>3. answer[c] = "pending" /\ c \notin opened /\ c \notin outcome /\ channel[c] = <<>> /\ kind[c] # "none"
  BY <1>1, <1>2 DEF OpensWithAnswer, UnmadeIsSilent
<1>4. \/ /\ core' = Set(core, c, "live") /\ answer' = Set(answer, c, "ok")
         /\ channel' = Set(channel, c, <<"opened">>)
      \/ /\ \E a \in {"refused", "mismatch", "ok"} : answer' = Set(answer, c, a)
         /\ core' = Set(core, c, "over") /\ UNCHANGED channel
  BY DEF CoreAnswer
<1>5. <<"opened">> \in Seq(Events)
  BY DEF Events
<1>6. RestTypes'
  <2>1. /\ kind \in [Calls -> Kinds \cup {"none"}] /\ channel \in [Calls -> Seq(Events)]
        /\ core \in [Calls -> {"none", "opening", "live", "over"}]
        /\ answer \in [Calls -> {"none", "pending", "ok", "refused", "cancelled", "mismatch", "settled"}]
        /\ opened \subseteq Calls /\ outcome \subseteq Calls
    BY <1>1 DEF RestTypes
  <2>2. channel' \in [Calls -> Seq(Events)]
    <3> DEFINE Q == Seq(Events)
    <3>1. PICK e : e = <<"opened">>
      OBVIOUS
    <3>2. e \in Q /\ channel \in [Calls -> Q] /\ channel' \in {channel, [channel EXCEPT ![c] = e]}
      BY ONLY <1>4, <1>5, <2>1, <3>1 DEF Set
    <3> HIDE DEF Q
    <3>3. channel' \in [Calls -> Q]
      BY ONLY <3>2
    <3> QED
      BY ONLY <3>3 DEF Q
  <2>3. core' \in [Calls -> {"none", "opening", "live", "over"}]
    BY ONLY <1>4, <2>1 DEF Set
  <2>4. answer' \in [Calls -> {"none", "pending", "ok", "refused", "cancelled", "mismatch", "settled"}]
    BY ONLY <1>4, <2>1 DEF Set
  <2> QED
    BY ONLY <1>2, <2>1, <2>2, <2>3, <2>4 DEF RestTypes
<1>7. /\ \A b \in Calls \ {c} : channel'[b] = channel[b] /\ answer'[b] = answer[b] /\ core'[b] = core[b]
      /\ \/ core'[c] = "live" /\ answer'[c] = "ok"
         \/ core'[c] = "over" /\ answer'[c] \in {"refused", "mismatch", "ok"} /\ channel'[c] = <<>>
  BY <1>1, <1>3, <1>4 DEF RestTypes, Set
<1>8. UnmadeIsSilent'
  BY <1>1, <1>2, <1>3, <1>7 DEF UnmadeIsSilent
<1>9. OpensWithAnswer'
  BY <1>1, <1>2, <1>3, <1>7 DEF OpensWithAnswer
<1> QED
  BY <1>2, <1>6, <1>8, <1>9, CoreStays

LEMMA CoreEventKeeps ==
  ASSUME CallInv, NEW c \in Calls, CoreMessage(c) \/ CoreEnd(c)
  PROVE  CallInv' /\ Frozen(entry')
<1>1. RestTypes /\ UnmadeIsSilent /\ OpensWithAnswer
  BY InvByCall
<1>2. core[c] = "live" /\ UNCHANGED <<webview, answer, shown, opened, outcome>> /\ kind' = kind
  BY DEF CoreMessage, CoreEnd, history, webview
<1>3. answer[c] \in {"ok", "settled"} /\ kind[c] # "none"
  BY <1>1, <1>2 DEF OpensWithAnswer, UnmadeIsSilent
<1>4. PICK ev \in Events : channel' = Set(channel, c, Append(channel[c], ev))
  BY DEF CoreMessage, CoreEnd, Events
<1>5. core' = core \/ core' = Set(core, c, "over")
  BY DEF CoreMessage, CoreEnd
<1>6. Append(channel[c], ev) \in Seq(Events)
  BY <1>1 DEF RestTypes
<1>7. RestTypes'
  BY <1>1, <1>2, <1>4, <1>5, <1>6 DEF RestTypes, Set
<1>8. \A b \in Calls : /\ b # c => channel'[b] = channel[b] /\ core'[b] = core[b]
                       /\ core'[b] \in {core[b], "over"}
  BY <1>1, <1>4, <1>5 DEF RestTypes, Set
<1>9. UnmadeIsSilent'
  BY <1>1, <1>2, <1>3, <1>8 DEF UnmadeIsSilent
<1>10. OpensWithAnswer'
  BY <1>1, <1>2, <1>3, <1>8 DEF OpensWithAnswer
<1> QED
  BY <1>2, <1>7, <1>9, <1>10, CoreStays

LEMMA CoreStopKeeps ==
  ASSUME CallInv, NEW c \in Calls, CoreCancel(c) \/ CoreRelease(c)
  PROVE  CallInv' /\ Frozen(entry')
<1>1. RestTypes /\ UnmadeIsSilent /\ OpensWithAnswer
  BY InvByCall
<1>2. UNCHANGED <<webview, channel, shown, opened, outcome>> /\ kind' = kind
  BY DEF CoreCancel, CoreRelease, history, webview
<1>3. /\ core' = core \/ core' = Set(core, c, "over")
      /\ \/ answer' = answer
         \/ core[c] = "opening" /\ core' = Set(core, c, "over") /\ answer' = Set(answer, c, "cancelled")
  BY DEF CoreCancel, CoreRelease
<1>4. RestTypes'
  BY <1>1, <1>2, <1>3 DEF RestTypes, Set
<1>5. /\ \A b \in Calls : core'[b] \in {core[b], "over"} /\ (b # c => answer'[b] = answer[b])
      /\ \/ answer'[c] = answer[c]
         \/ core[c] = "opening" /\ core'[c] = "over" /\ answer'[c] = "cancelled"
  BY <1>1, <1>3 DEF RestTypes, Set
<1>6. core[c] = "opening" => kind[c] # "none" /\ c \notin outcome /\ c \notin opened /\ channel[c] = <<>>
  BY <1>1 DEF OpensWithAnswer, UnmadeIsSilent
<1>7. UnmadeIsSilent'
  BY <1>1, <1>2, <1>5, <1>6 DEF UnmadeIsSilent
<1>8. OpensWithAnswer'
  BY <1>1, <1>2, <1>5, <1>6 DEF OpensWithAnswer
<1> QED
  BY <1>2, <1>4, <1>7, <1>8, CoreStays

-----------------------------------------------------------------------------
LEMMA InitHolds ==
  Init => CallInv
<1> SUFFICES ASSUME Init PROVE CallInv
  OBVIOUS
<1>1. RestTypes
  BY DEF Init, RestTypes
<1>2. UnmadeIsSilent /\ OpensWithAnswer
  BY DEF Init, UnmadeIsSilent, OpensWithAnswer
<1>3. StoreTypes(entry, queue, live, records, shown)
  BY NoEntryFacts DEF Init, StoreTypes, Lives, EmptyQueue
<1>4. AllSound(entry, queue, live, records, shown, opened, outcome)
  BY NoEntryFacts DEF Init, AllSound, Sound
<1>5. AllFit(kind, entry, queue, live, records, shown)
  BY DEF Init, AllFit, Fits, EmptyQueue
<1>6. Frozen(entry)
  BY DEF Frozen
<1> QED
  BY <1>1, <1>2, <1>3, <1>4, <1>5, <1>6, InvByCall DEF Keeps

LEMMA StepKeeps ==
  CallInv /\ [Next]_vars => CallInv' /\ Frozen(entry')
<1> SUFFICES ASSUME CallInv, [Next]_vars PROVE CallInv' /\ Frozen(entry')
  OBVIOUS
<1>1. CASE UNCHANGED vars
  BY <1>1, UserKeeps
<1>2. CASE User
  BY <1>2, UserKeeps, DispatchKeeps DEF User
<1>3. CASE Flush
  BY <1>3, UserKeeps
<1>4. ASSUME NEW c \in Calls, Answered(c)
      PROVE  CallInv' /\ Frozen(entry')
  BY <1>4, UserKeeps, UnaryAnsweredKeeps, OpenResolvedKeeps, OpenRejectedKeeps, RerouteKeeps, GiveUpKeeps,
     SendAnsweredKeeps DEF Answered
<1>5. ASSUME NEW c \in Calls, Deliver(c)
      PROVE  CallInv' /\ Frozen(entry')
  BY <1>5, DeliverOpenedKeeps, DeliverMessageKeeps, DeliverEndKeeps DEF Deliver
<1>6. ASSUME NEW c \in Calls, Core(c) \/ CoreMessage(c) \/ CoreEnd(c)
      PROVE  CallInv' /\ Frozen(entry')
  BY <1>6, UserKeeps, CoreAnswerKeeps, CoreStopKeeps, CoreEventKeeps DEF Core
<1> QED
  BY <1>1, <1>2, <1>3, <1>4, <1>5, <1>6 DEF Next

\* The invariant of the webview's call stores (callLifecycle.ts, streamStore.ts) holds
\* throughout, for any number of drafts, calls and messages.
THEOREM Invariance == Spec => []CallInv
<1>1. Init => CallInv
  BY InitHolds
<1>2. CallInv /\ [Next]_vars => CallInv'
  BY StepKeeps
<1> QED
  BY <1>1, <1>2, PTL DEF Spec

\* Every call leaves exactly one record, which holds every row it showed: settleStream,
\* abandonStream and runUnary between them record each call once.
THEOREM OneRecordPerCall == Spec => []OneFullRecord
<1>1. CallInv => OneFullRecord
  BY DEF CallInv
<1> QED
  BY <1>1, Invariance, PTL

\* liveCalls and the Stream store agree about which calls go on.
THEOREM LiveCallsAreLive == Spec => []LiveCallsAgree
<1>1. CallInv => LiveCallsAgree
  BY DEF CallInv
<1> QED
  BY <1>1, Invariance, PTL

\* An entry whose call is over changes no more until it is dropped, whichever event,
\* answer or release comes late (apply).
THEOREM EntriesFreeze == Spec => TerminalIsFrozen
<1>1. CallInv /\ [Next]_vars =>
        [\A c \in Calls : entry[c].phase # "none" /\ ~LiveEntry(entry[c]) => entry'[c] \in {entry[c], NoEntry}]_vars
  BY StepKeeps DEF Frozen
<1> QED
  BY <1>1, Invariance, PTL DEF Spec, TerminalIsFrozen

-----------------------------------------------------------------------------
(* StoresAgree.  The draft, the snapshots and the attempts, over the stores *)
(* of which CallInv is known.                                              *)

DraftSlots == [id : Drafts \cup {Null}, status : Statuses, requestId : CallOrNull, streamId : CallOrNull]

LEMMA IdFacts ==
  /\ Null \notin Calls /\ Null \notin Drafts
  /\ \A c \in Calls : c \in Nat /\ c # Null
  BY BoundsAssumption DEF Calls, Drafts, Null

LEMMA DraftFacts ==
  ASSUME StepTypes
  PROVE  /\ draft \in DraftSlots
         /\ draft.id \in Drafts \cup {Null} /\ draft.status \in Statuses
         /\ draft.requestId \in CallOrNull /\ draft.streamId \in CallOrNull
         /\ draft.streamId # Null => draft.streamId \in Calls
  BY DEF StepTypes, DraftSlots, CallOrNull

\* updateGrpcDraft with the patch of a settled call, and with one that clears the stream too.
LEMMA PatchFacts ==
  ASSUME StepTypes, NEW d, NEW status \in Statuses, NEW r \in CallOrNull,
         NEW i \in CallOrNull,
         \/ draft' = Patched(d, [status |-> status, requestId |-> r]) /\ i = draft.streamId
         \/ draft' = Patched(d, [status |-> status, requestId |-> r, streamId |-> i])
  PROVE  /\ draft.id # d => draft' = draft
         /\ draft.id = d => /\ draft'.id = d /\ draft'.status = status /\ draft'.requestId = r
                            /\ draft'.streamId = i
         /\ draft' \in DraftSlots
<1>1. draft \in DraftSlots
  BY DraftFacts
<1>2. CASE draft.id # d
  BY <1>1, <1>2 DEF Patched
<1>3. CASE draft.id = d
  <2>1. DOMAIN draft = {"id", "status", "requestId", "streamId"}
    BY <1>1 DEF DraftSlots
  <2>2. draft' = [id |-> d, status |-> status, requestId |-> r, streamId |-> i]
    <3>1. CASE draft' = Patched(d, [status |-> status, requestId |-> r]) /\ i = draft.streamId
      BY <1>3, <2>1, <3>1 DEF Patched
    <3>2. CASE draft' = Patched(d, [status |-> status, requestId |-> r, streamId |-> i])
      BY <1>3, <2>1, <3>2 DEF Patched
    <3> QED
      BY <3>1, <3>2
  <2> QED
    BY <1>1, <1>3, <2>2 DEF DraftSlots
<1> QED
  BY <1>2, <1>3

\* A phase that is told nothing it did not show keeps its face.
LEMMA FaceStays ==
  ASSUME NEW e \in Entries, NEW q \in Queued
  PROVE  FaceOf(Apply(e, q).phase) = FaceOf(e.phase)
<1>1. CASE LiveEntry(e)
  <2>1. LiveEntry(Apply(e, q))
    BY <1>1, ApplyLive
  <2> QED
    BY <1>1, <2>1 DEF FaceOf, LiveEntry, isLivePhase
<1>2. CASE ~LiveEntry(e)
  BY <1>2, ApplyLive
<1> QED
  BY <1>1, <1>2

LEMMA LiveFace ==
  ASSUME NEW e \in Entries
  PROVE  /\ LiveEntry(e) => FaceOf(e.phase) = {"sending"}
         /\ "sending" \in FaceOf(e.phase) => LiveEntry(e)
  BY DEF FaceOf, LiveEntry, isLivePhase, Entries, Phases

\* The release rule spares what is referred to, and stops what is no longer.
LEMMA RuleFacts ==
  ASSUME NEW es \in [Calls -> Entries], NEW q \in [Calls -> Queued], NEW l, NEW rec,
         AfterStore(es, q, l, rec), NEW c \in Calls
  PROVE  /\ c \in Referenced(draft', steps') =>
              live'[c] = l[c] /\ FaceOf(entry'[c].phase) = FaceOf(es[c].phase)
         /\ c \in Referenced(draft, steps) /\ c \notin Referenced(draft', steps') => live'[c] = "no"
         /\ live'[c] \in {l[c], "no"}
<1> DEFINE gone == Referenced(draft, steps) \ Referenced(draft', steps')
<1>1. /\ live'[c] = IF c \in gone THEN "no" ELSE l[c]
      /\ c \notin gone => entry'[c] \in {es[c], Flushed(es, q)[c]}
  BY DEF AfterStore
<1>2. FaceOf(Flushed(es, q)[c].phase) = FaceOf(es[c].phase)
  BY FaceStays DEF Flushed
<1> QED
  BY <1>1, <1>2

LEMMA RefFacts ==
  ASSUME NEW dr, NEW ss, NEW c \in Calls
  PROVE  c \in Referenced(dr, ss) <=> dr.streamId = c \/ \E s \in ss : s.streamId = c
  BY IdFacts DEF Referenced

RunTypes ==
  /\ gate \in [Drafts -> {"none", "open", "cancelled"}]
  /\ \A d \in Drafts : gate[d] = "none" <=> run[d] = NoRun
  /\ run \in [Drafts -> [attempt : 0..2, call : CallOrNull, carried : CallOrNull]]

StepSet == [kind : Kinds, status : {"ok", "error", "cancelled"}, streamId : CallOrNull]

LEMMA StepTypesParts ==
  StepTypes <=> /\ draft \in DraftSlots /\ steps \subseteq StepSet
                /\ owner \in [Calls -> Drafts \cup {Null}] /\ RunTypes
  BY DEF StepTypes, DraftSlots, StepSet, RunTypes

LEMMA RunTypesNext ==
  ASSUME RunTypes', draft' \in DraftSlots, steps' \subseteq StepSet,
         owner' \in [Calls -> Drafts \cup {Null}]
  PROVE  StepTypes'
  BY DEF StepTypes, DraftSlots, StepSet, RunTypes

\* What the draft shows is not a call of another draft that never opened or is live.
LEMMA ShownIsNot ==
  ASSUME CallInv, StepInv, ShowsLastCall, draft.streamId \notin Carried \cup {Null},
         NEW c \in Calls, owner[c] # draft.id, c \notin opened \/ live[c] # "no"
  PROVE  draft.streamId # c
<1>1. CASE \E b \in Calls : owner[b] = draft.id
  BY <1>1 DEF ShowsLastCall
<1>2. CASE \A b \in Calls : owner[b] # draft.id
  <2>1. PICK s \in steps : s.streamId = draft.streamId /\ s.status = draft.status
    BY <1>2 DEF StepInv, DraftShowsItsOwn
  <2>2. s.kind # "unary"
    BY <2>1 DEF Carried
  <2>3. draft.streamId \in opened /\ Past(draft.streamId)
    BY <2>1, <2>2 DEF StepInv, StepsAreSettled, IdsArePast
  <2> QED
    BY <2>3, IdFacts DEF Past
<1> QED
  BY <1>1, <1>2

\* The end of the attempt whose last call is c.
LEMMA FinishKeeps ==
  ASSUME CallInv, StepInv, NEW c \in Calls, Running(c), Finish(owner[c]),
         answer' = Set(answer, c, "settled"), UNCHANGED <<owner, kind>>
  PROVE  /\ RunIsCurrent' /\ RunTypes'
         /\ \A d \in Drafts : run'[d] \in {run[d], NoRun} /\ (d # owner[c] => run'[d] = run[d])
<1>1. RunTypes /\ owner \in [Calls -> Drafts \cup {Null}] /\ RunIsCurrent
  BY StepTypesParts DEF StepInv
<1>2. owner[c] \in Drafts /\ run[owner[c]].call = c
  BY <1>1 DEF Running
<1>3. answer'[c] = "settled" /\ \A b \in Calls : b # c => answer'[b] = answer[b]
  BY DEF CallInv, CallTypes, Set
<1>4. NoRun \in [attempt : 0..2, call : CallOrNull, carried : CallOrNull]
  BY DEF NoRun, CallOrNull
<1>5. /\ run' \in [Drafts -> [attempt : 0..2, call : CallOrNull, carried : CallOrNull]]
      /\ gate' \in [Drafts -> {"none", "open", "cancelled"}]
      /\ run'[owner[c]] = NoRun /\ gate'[owner[c]] = "none"
      /\ \A d \in Drafts : d # owner[c] => run'[d] = run[d] /\ gate'[d] = gate[d]
  BY <1>1, <1>2, <1>4 DEF Finish, Set, RunTypes
<1>6. RunTypes'
  BY <1>1, <1>5 DEF RunTypes
<1>7. ASSUME NEW b \in Calls, answer'[b] \in {"pending", "ok", "refused", "cancelled"}
      PROVE  owner'[b] # Null /\ run'[owner'[b]].call = b
  <2>1. b # c /\ answer[b] = answer'[b]
    BY <1>3, <1>7
  <2>2. owner[b] # Null /\ run[owner[b]].call = b
    BY <1>1, <1>7, <2>1 DEF RunIsCurrent, Running
  <2>3. owner[b] # owner[c]
    BY <1>2, <2>1, <2>2
  <2> QED
    BY <1>1, <1>5, <2>2, <2>3
<1>8. ASSUME NEW d \in Drafts, run'[d] # NoRun
      PROVE  /\ run'[d].call # Null /\ owner'[run'[d].call] = d
             /\ \A b \in Calls : owner'[b] = d => b <= run'[d].call
  <2>1. d # owner[c] /\ run'[d] = run[d]
    BY <1>5, <1>8
  <2> QED
    BY <1>1, <1>8, <2>1 DEF RunIsCurrent
<1>9. RunIsCurrent'
  BY <1>7, <1>8 DEF RunIsCurrent, Running
<1> QED
  BY <1>5, <1>6, <1>9

\* A stream that is over after the step.
PastNext(i) == i # Null => kind'[i] \notin {"none", "unary"} /\ live'[i] = "no"

LEMMA IdsNext ==
  ASSUME \A s \in steps' : PastNext(s.streamId),
         \A d \in Drafts : PastNext(run'[d].carried),
         draft'.streamId # Null => kind'[draft'.streamId] \notin {"none", "unary"},
         draft'.streamId # Null /\ owner'[draft'.streamId] # draft'.id => PastNext(draft'.streamId)
  PROVE  IdsArePast'
  BY DEF IdsArePast, Past, PastNext

\* A step that leaves the draft and the snapshots, and every call as live and with the face it had.
LEMMA QuietStep ==
  ASSUME CallInv, StepInv, UNCHANGED <<draft, steps, owner, kind>>, opened \subseteq opened',
         \A c \in Calls : live'[c] = "no" <=> live[c] = "no",
         \A c \in Calls : FaceOf(entry'[c].phase) = FaceOf(entry[c].phase),
         RunTypes', RunIsCurrent', \A d \in Drafts : run'[d] \in {run[d], NoRun},
         draft.status = "sending" /\ draft.streamId = Null => run'[draft.id].call = run[draft.id].call
  PROVE  StepInv'
<1>1. StepTypes'
  BY StepTypesParts, RunTypesNext DEF StepInv
<1>2. OwnersAreKnown'
  BY DEF StepInv, OwnersAreKnown
<1>3. ASSUME NEW i, i = Null \/ i \in Calls, Past(i)
      PROVE  PastNext(i)
  BY <1>3 DEF Past, PastNext
<1>4. IdsArePast'
  <2>1. StepTypes /\ IdsArePast
    BY DEF StepInv
  <2>2. \A s \in steps : s.streamId = Null \/ s.streamId \in Calls
    BY <2>1 DEF StepTypes, CallOrNull
  <2>3. \A s \in steps' : PastNext(s.streamId)
    BY <1>3, <2>1, <2>2 DEF IdsArePast
  <2>4. ASSUME NEW d \in Drafts PROVE PastNext(run'[d].carried)
    <3>1. PICK i : i = run'[d].carried
      OBVIOUS
    <3>2. i = Null \/ (i \in Calls /\ i = run[d].carried)
      BY <2>1, <3>1 DEF StepTypes, CallOrNull, NoRun
    <3>3. Past(i)
      BY <2>1, <3>2 DEF IdsArePast, Past
    <3> QED
      BY <1>3, <3>1, <3>2, <3>3
  <2>5. draft.streamId = Null \/ draft.streamId \in Calls
    BY <2>1, DraftFacts
  <2>6. /\ draft'.streamId # Null => kind'[draft'.streamId] \notin {"none", "unary"}
        /\ draft'.streamId # Null /\ owner'[draft'.streamId] # draft'.id => PastNext(draft'.streamId)
    BY <1>3, <2>1, <2>5 DEF IdsArePast
  <2> QED
    BY <2>3, <2>4, <2>6, IdsNext
<1>5. StepsAreSettled'
  <2>1. \A s \in steps : s.streamId # Null => s.streamId \in Calls
    BY DEF StepInv, StepTypes, CallOrNull
  <2>2. opened \subseteq Calls
    BY DEF CallInv, CallTypes
  <2> QED
    BY <2>1, <2>2 DEF StepInv, StepsAreSettled
<1>6. ShowsLastCall' <=> ShowsLastCall
  BY DEF ShowsLastCall
<1>7. DraftShowsItsOwn'
  <2>1. DraftShowsItsOwn /\ StepTypes
    BY DEF StepInv
  <2>2. draft.streamId # Null => draft.streamId \in Calls
    BY <2>1, DraftFacts
  <2>3. Carried' = Carried
    BY DEF Carried
  <2>4. \A c \in Calls : live'[c] # "no" /\ owner'[c] = draft'.id =>
          draft'.status = "sending" /\ draft'.streamId = c /\ ShowsLastCall'
    BY <1>6, <2>1 DEF DraftShowsItsOwn
  <2>5. (\A c \in Calls : owner'[c] # draft'.id) /\ draft'.streamId # Null =>
          \E s \in steps' : s.streamId = draft'.streamId /\ s.status = draft'.status
    BY <2>1 DEF DraftShowsItsOwn
  <2>6. ShowsLastCall' /\ draft'.streamId \notin Carried' \cup {Null} =>
          draft'.status \in FaceOf(entry'[draft'.streamId].phase)
    BY <1>6, <2>1, <2>2, <2>3 DEF DraftShowsItsOwn
  <2> QED
    BY <2>4, <2>5, <2>6 DEF DraftShowsItsOwn
<1>8. SendingIsUnderWay'
  <2>1. SendingIsUnderWay /\ StepTypes
    BY DEF StepInv
  <2>2. draft.requestId # Null => draft.requestId \in Calls
    BY <2>1, DraftFacts DEF CallOrNull
  <2>3. draft.streamId # Null => draft.streamId \in Calls
    BY <2>1, DraftFacts
  <2> QED
    BY <2>1, <2>2, <2>3 DEF SendingIsUnderWay
<1> QED
  BY <1>1, <1>2, <1>4, <1>5, <1>7, <1>8 DEF StepInv, RunIsCurrent

LEMMA PastKept ==
  ASSUME \A b \in Calls : kind[b] # "none" => kind'[b] = kind[b] /\ (live[b] = "no" => live'[b] = "no"),
         NEW i \in CallOrNull, Past(i)
  PROVE  PastNext(i)
  BY DEF Past, PastNext, CallOrNull

LEMMA StepFacts ==
  ASSUME CallInv, StepInv, NEW s \in steps
  PROVE  /\ s.kind \in Kinds /\ s.status \in {"ok", "error", "cancelled"} /\ s.streamId \in CallOrNull
         /\ s.status \in Statuses /\ s.status # "sending"
         /\ Past(s.streamId)
         /\ s.kind # "unary" => /\ s.streamId \in Calls /\ s.streamId \in opened /\ live[s.streamId] = "no"
                                /\ s.status \in FaceOf(entry[s.streamId].phase)
<1>1. s \in StepSet /\ Past(s.streamId)
  BY StepTypesParts DEF StepInv, IdsArePast
<1>2. s.kind \in Kinds /\ s.status \in {"ok", "error", "cancelled"} /\ s.streamId \in CallOrNull
  BY <1>1 DEF StepSet
<1>3. s.kind # "unary" => s.streamId \in opened /\ s.status \in FaceOf(entry[s.streamId].phase)
  BY DEF StepInv, StepsAreSettled
<1>4. s.streamId \in opened => s.streamId # Null
  BY IdFacts DEF CallInv, CallTypes
<1> QED
  BY <1>1, <1>2, <1>3, <1>4 DEF Past, Statuses, CallOrNull

\* The snapshots there were still show their calls after the release rule.
LEMMA StepsKept ==
  ASSUME CallInv, StepInv, NEW es \in [Calls -> Entries], NEW q \in [Calls -> Queued], NEW l, NEW rec,
         AfterStore(es, q, l, rec), steps \subseteq steps',
         \A b \in Calls : b \in opened /\ live[b] = "no" => FaceOf(es[b].phase) = FaceOf(entry[b].phase)
  PROVE  \A s \in steps : s.kind # "unary" => s.status \in FaceOf(entry'[s.streamId].phase)
<1> SUFFICES ASSUME NEW s \in steps, s.kind # "unary"
             PROVE  s.status \in FaceOf(entry'[s.streamId].phase)
  OBVIOUS
<1>1. /\ s.streamId \in Calls /\ s.streamId \in opened /\ live[s.streamId] = "no"
      /\ s.status \in FaceOf(entry[s.streamId].phase)
  BY StepFacts
<1>2. s.streamId \in Referenced(draft', steps')
  BY <1>1, RefFacts
<1> QED
  BY <1>1, <1>2, RuleFacts

\* A live call of the draft's own that neither it nor a new snapshot shows any more is over.
LEMMA HiddenIsOver ==
  ASSUME CallInv, StepInv, NEW es \in [Calls -> Entries], NEW q \in [Calls -> Queued], NEW l, NEW rec,
         AfterStore(es, q, l, rec), NEW c \in Calls, live[c] # "no", owner[c] = draft.id,
         draft'.streamId # c, \A s \in steps' \ steps : s.streamId # c
  PROVE  live'[c] = "no"
<1>1. draft.streamId = c
  BY DEF StepInv, DraftShowsItsOwn
<1>2. \A s \in steps : s.streamId # c
  BY StepFacts, IdFacts DEF Past
<1>3. c \in Referenced(draft, steps) /\ c \notin Referenced(draft', steps')
  BY <1>1, <1>2, RefFacts
<1> QED
  BY <1>3, RuleFacts

\* setDraft, clearDraft and a method selection: a draft seeded from a step, or none.
LEMMA ReplacedStep ==
  ASSUME CallInv, StepInv, AfterStore(entry, queue, live, records),
         UNCHANGED <<steps, owner, kind, gate, run, answer, opened>>,
         draft' \in DraftSlots, draft'.id = Null => draft' = NoDraft,
         draft'.id = draft.id \/ \A c \in Calls : owner[c] # draft'.id \/ draft' = NoDraft,
         NEW s \in Seeds, draft'.status = s.status, draft'.streamId = s.streamId
  PROVE  StepInv'
<1>1. StepTypes /\ RunIsCurrent /\ OwnersAreKnown /\ IdsArePast
  BY DEF StepInv
<1>2. /\ s.status \in Statuses /\ s.status # "sending" /\ s.streamId \in CallOrNull /\ Past(s.streamId)
      /\ s.streamId # Null => s \in steps
  <2>1. CASE s \in steps
    BY <2>1, StepFacts
  <2>2. CASE s = CleanSeed
    BY <2>2 DEF CleanSeed, Snapshot, Statuses, CallOrNull, Past
  <2> QED
    BY <2>1, <2>2 DEF Seeds
<1>3. entry \in [Calls -> Entries] /\ queue \in [Calls -> Queued]
  BY InvByCall DEF Keeps, StoreTypes
<1>4. \A c \in Calls : live'[c] \in {live[c], "no"}
  BY <1>3, RuleFacts
<1>5. ASSUME NEW i \in CallOrNull, Past(i) PROVE PastNext(i)
  BY <1>4, <1>5, PastKept
<1>6. StepTypes'
  <2>1. RunTypes'
    BY <1>1, StepTypesParts DEF RunTypes
  <2> QED
    BY <1>1, <2>1, StepTypesParts, RunTypesNext
<1>7. OwnersAreKnown' /\ RunIsCurrent'
  BY <1>1 DEF OwnersAreKnown, RunIsCurrent, Running
<1>8. IdsArePast'
  <2>1. \A t \in steps' : PastNext(t.streamId)
    BY <1>5, StepFacts
  <2>2. \A d \in Drafts : PastNext(run'[d].carried)
    BY <1>1, <1>5 DEF IdsArePast, StepTypes
  <2>3. PastNext(draft'.streamId)
    BY <1>2, <1>5
  <2> QED
    BY <2>1, <2>2, <2>3, IdsNext DEF PastNext
<1>9. \A t \in steps : t.kind # "unary" => t.status \in FaceOf(entry'[t.streamId].phase)
  BY <1>3, StepsKept
<1>10. StepsAreSettled'
  BY <1>9 DEF StepInv, StepsAreSettled
<1>11. SendingIsUnderWay'
  BY <1>2 DEF SendingIsUnderWay
<1>12. DraftShowsItsOwn'
  <2>1. ASSUME NEW c \in Calls, live'[c] # "no", owner[c] = draft'.id PROVE FALSE
    <3>1. live[c] # "no" /\ c # Null
      BY <1>4, <2>1, IdFacts
    <3>2. kind[c] # "none"
      BY <3>1 DEF CallInv, UnmadeIsBlank
    <3>3. owner[c] = draft.id
      BY <1>1, <2>1, <3>2 DEF OwnersAreKnown, NoDraft
    <3>4. s.streamId # c
      BY <1>2, <3>1 DEF Past
    <3> QED
      BY <1>3, <2>1, <3>1, <3>3, <3>4, HiddenIsOver
  <2>2. s.streamId \notin Carried' \cup {Null} => s.status \in FaceOf(entry'[s.streamId].phase)
    BY <1>2, <1>9 DEF Carried
  <2>3. s.streamId # Null => \E t \in steps' : t.streamId = draft'.streamId /\ t.status = draft'.status
    BY <1>2
  <2> QED
    BY <2>1, <2>2, <2>3 DEF DraftShowsItsOwn
<1> QED
  BY <1>6, <1>7, <1>8, <1>10, <1>11, <1>12 DEF StepInv

LEMMA ReplaceKeeps ==
  ASSUME CallInv, StepInv, (\E d \in Drafts : SetDraft(d)) \/ LeaveDraft \/ SelectMethod
  PROVE  StepInv'
<1>1. StepTypes /\ OwnersAreKnown
  BY DEF StepInv
<1>2. draft \in DraftSlots
  BY <1>1, DraftFacts
<1>3. /\ AfterStore(entry, queue, live, records)
      /\ UNCHANGED <<steps, owner, kind, gate, run, answer, opened>>
  BY DEF SetDraft, LeaveDraft, SelectMethod, history
<1>4. \A s \in Seeds : s.status \in Statuses /\ s.streamId \in CallOrNull
  BY StepFacts DEF Seeds, CleanSeed, Snapshot, Statuses, CallOrNull
<1>5. ASSUME NEW d \in Drafts, SetDraft(d) PROVE StepInv'
  <2>1. PICK s \in Seeds : draft' = [id |-> d, status |-> s.status, requestId |-> Null,
                                     streamId |-> s.streamId]
    BY <1>5 DEF SetDraft
  <2>2. \A c \in Calls : owner[c] # d
    BY <1>5 DEF SetDraft
  <2>3. draft' \in DraftSlots /\ draft'.id = d /\ d # Null /\ draft'.status = s.status /\ draft'.streamId = s.streamId
    BY <1>4, <2>1, IdFacts DEF DraftSlots, CallOrNull
  <2> QED
    BY <1>3, <2>2, <2>3, ReplacedStep
<1>6. CASE LeaveDraft
  <2>1. draft' = NoDraft
    BY <1>6 DEF LeaveDraft
  <2>2. CleanSeed \in Seeds /\ CleanSeed.status = "draft" /\ CleanSeed.streamId = Null
    BY DEF Seeds, CleanSeed, Snapshot
  <2>3. NoDraft \in DraftSlots /\ NoDraft.status = "draft" /\ NoDraft.streamId = Null /\ NoDraft.id = Null
    BY DEF NoDraft, DraftSlots, Statuses, CallOrNull
  <2> QED
    BY <1>3, <2>1, <2>2, <2>3, ReplacedStep
<1>7. CASE SelectMethod
  <2>1. PICK s \in Seeds : draft' = [draft EXCEPT !.status = s.status, !.streamId = s.streamId]
    BY <1>7 DEF SelectMethod
  <2>2. draft.id # Null
    BY <1>1, <1>7 DEF SelectMethod, OwnersAreKnown
  <2>3. draft' \in DraftSlots /\ draft'.id = draft.id /\ draft'.status = s.status /\ draft'.streamId = s.streamId
    BY <1>2, <1>4, <2>1 DEF DraftSlots
  <2> QED
    BY <1>3, <2>2, <2>3, ReplacedStep
<1> QED
  BY <1>5, <1>6, <1>7

-----------------------------------------------------------------------------
(* A new attempt, over the stores es and l that have lost at most a call of *)
(* the same draft that never opened.                                        *)

LEMMA AttemptSteps ==
  ASSUME CallInv, StepInv, NEW es \in [Calls -> Entries], NEW l \in [Calls -> Lives],
         NEW d \in Drafts, NEW n \in 1..2, NEW k \in Kinds, NEW c \in Calls, NEW carried \in CallOrNull,
         Past(carried), Attempt(d, n, k, c, carried, es, l), opened' = opened,
         gate' \in [Drafts -> {"none", "open", "cancelled"}], gate'[d] # "none",
         \A b \in Drafts : b # d => gate'[b] = gate[b],
         \A b \in Calls : owner[b] = d => answer[b] \notin {"pending", "ok", "refused", "cancelled"},
         \A b \in Calls : l[b] \in {live[b], "no"},
         \A b \in Calls : es[b] # entry[b] \/ l[b] # live[b] => owner[b] = d /\ b \notin opened
  PROVE  StepInv'
<1>1. /\ StepTypes /\ OwnersAreKnown /\ RunIsCurrent /\ IdsArePast /\ StepsAreSettled
      /\ DraftShowsItsOwn /\ SendingIsUnderWay
  BY DEF StepInv
<1>2. /\ kind \in [Calls -> Kinds \cup {"none"}] /\ owner \in [Calls -> Drafts \cup {Null}]
      /\ answer \in [Calls -> {"none", "pending", "ok", "refused", "cancelled", "mismatch", "settled"}]
      /\ RunTypes /\ opened \subseteq Calls /\ entry \in [Calls -> Entries] /\ queue \in [Calls -> Queued]
      /\ live \in [Calls -> Lives]
  BY <1>1, StepTypesParts, InvByCall DEF CallInv, CallTypes, Keeps, StoreTypes
<1>3. /\ kind[c] = "none" /\ \A b \in Calls : b < c => kind[b] # "none"
      /\ kind' = Set(kind, c, k) /\ owner' = Set(owner, c, d) /\ answer' = Set(answer, c, "pending")
      /\ run' = Set(run, d, [attempt |-> n, call |-> c, carried |-> carried])
      /\ draft' = Patched(d, [status |-> "sending", requestId |-> c,
                              streamId |-> IF k = "unary" THEN Null ELSE c])
      /\ steps' = steps
  BY DEF Attempt
<1>4. k # "none" /\ d # Null /\ c # Null /\ c \in Nat
  BY Bounds, IdFacts
<1>5. /\ kind'[c] = k /\ owner'[c] = d /\ answer'[c] = "pending"
      /\ run'[d] = [attempt |-> n, call |-> c, carried |-> carried]
      /\ \A b \in Calls : b # c => kind'[b] = kind[b] /\ owner'[b] = owner[b] /\ answer'[b] = answer[b]
      /\ \A b \in Drafts : b # d => run'[b] = run[b]
  BY <1>1, <1>2, <1>3 DEF Set, StepTypes
<1>6. owner[c] = Null /\ c \notin opened /\ live[c] = "no" /\ l[c] = "no"
  BY <1>1, <1>3 DEF OwnersAreKnown, CallInv, UnmadeIsBlank
<1>7. ASSUME NEW b \in Calls, kind[b] # "none" PROVE b < c /\ b # c
  <2>1. b \in Nat /\ b # c
    BY <1>3, <1>7, IdFacts
  <2>2. ~(c < b)
    BY <1>1, <1>3, <1>7 DEF OwnersAreKnown
  <2> QED
    BY <1>4, <2>1, <2>2
<1>8. PICK i : i = IF k = "unary" THEN Null ELSE c
  OBVIOUS
<1>9. /\ draft.id # d => draft' = draft
      /\ draft.id = d => /\ draft'.id = d /\ draft'.status = "sending" /\ draft'.requestId = c
                         /\ draft'.streamId = i
      /\ draft' \in DraftSlots
  <2>1. "sending" \in Statuses /\ c \in CallOrNull /\ i \in CallOrNull
    BY <1>8 DEF Statuses, CallOrNull
  <2>2. draft' = Patched(d, [status |-> "sending", requestId |-> c, streamId |-> i])
    BY <1>3, <1>8
  <2> QED
    BY ONLY <1>1, <2>1, <2>2, PatchFacts
<1>10. \E e2 \in [Calls -> Entries], l2 \in [Calls -> Lives] :
         /\ AfterStore(e2, queue, l2, records)
         /\ \A b \in Calls : b # c => e2[b] = es[b] /\ l2[b] = l[b]
         /\ k = "unary" => l2[c] = "no"
         /\ k # "unary" => l2[c] = "unopened" /\ FaceOf(e2[c].phase) = {"sending"}
  <2>1. CASE k = "unary"
    BY <1>6, <2>1 DEF Attempt
  <2>2. CASE k # "unary"
    <3>1. PICK e : e = [NoEntry EXCEPT !.phase = "opening"]
      OBVIOUS
    <3>2. e \in Entries /\ FaceOf(e.phase) = {"sending"}
      BY <3>1 DEF NoEntry, Entries, Phases, FaceOf, isLivePhase
    <3>3. AfterStore(Set(es, c, e), queue, Set(l, c, "unopened"), records)
      BY <2>2, <3>1 DEF Attempt
    <3>4. PICK e2, l2 : e2 = Set(es, c, e) /\ l2 = Set(l, c, "unopened")
      OBVIOUS
    <3>5. /\ e2 \in [Calls -> Entries] /\ l2 \in [Calls -> Lives] /\ e2[c] = e /\ l2[c] = "unopened"
          /\ \A b \in Calls : b # c => e2[b] = es[b] /\ l2[b] = l[b]
      BY <3>2, <3>4 DEF Set, Lives
    <3> QED
      BY <2>2, <3>2, <3>3, <3>4, <3>5
  <2> QED
    BY <2>1, <2>2
<1>11. PICK e2 \in [Calls -> Entries], l2 \in [Calls -> Lives] :
         /\ AfterStore(e2, queue, l2, records)
         /\ \A b \in Calls : b # c => e2[b] = es[b] /\ l2[b] = l[b]
         /\ k = "unary" => l2[c] = "no"
         /\ k # "unary" => l2[c] = "unopened" /\ FaceOf(e2[c].phase) = {"sending"}
  BY <1>10
\* The live calls after the step are the new one, or were live.
<1>12. \A b \in Calls : b # c => live'[b] \in {live[b], "no"}
  BY <1>2, <1>11, RuleFacts
<1>13. ASSUME NEW j \in CallOrNull, Past(j) PROVE PastNext(j)
  BY <1>3, <1>5, <1>12, <1>13, PastKept
<1>14. StepTypes'
  <2>1. [attempt |-> n, call |-> c, carried |-> carried] \in [attempt : 0..2, call : CallOrNull, carried : CallOrNull]
    BY DEF CallOrNull
  <2>2. run' \in [Drafts -> [attempt : 0..2, call : CallOrNull, carried : CallOrNull]]
    BY <1>2, <1>3, <2>1 DEF Set, RunTypes
  <2>3. run'[d] # NoRun
    BY <1>4, <1>5 DEF NoRun
  <2>4. \A b \in Drafts : gate'[b] = "none" <=> run'[b] = NoRun
    <3>1. ASSUME NEW b \in Drafts, b # d PROVE gate'[b] = "none" <=> run'[b] = NoRun
      BY <1>2, <1>5, <3>1 DEF RunTypes
    <3> QED
      BY <2>3, <3>1
  <2>7. RunTypes'
    BY <2>2, <2>4 DEF RunTypes
  <2>5. steps' \subseteq StepSet
    BY <1>1, <1>3, StepTypesParts
  <2>6. owner' \in [Calls -> Drafts \cup {Null}]
    BY <1>2, <1>3 DEF Set
  <2> QED
    BY <1>9, <2>7, <2>5, <2>6, RunTypesNext
<1>15. OwnersAreKnown'
  <2>1. \A b \in Calls : kind'[b] = "none" <=> owner'[b] = Null
    BY <1>1, <1>4, <1>5 DEF OwnersAreKnown
  <2>2. ASSUME NEW a \in Calls, NEW b \in Calls, a < b, kind'[a] = "none" PROVE kind'[b] = "none"
    <3>1. a # c /\ kind[a] = "none"
      BY <1>4, <1>5, <2>2
    <3>2. b # c
      BY <1>3, <2>2, <3>1
    <3> QED
      BY <1>1, <1>5, <2>2, <3>1, <3>2 DEF OwnersAreKnown
  <2>3. draft'.id = Null => draft' = NoDraft
    BY <1>1, <1>4, <1>9 DEF OwnersAreKnown
  <2> QED
    BY <2>1, <2>2, <2>3 DEF OwnersAreKnown
<1>16. RunIsCurrent'
  <2>1. ASSUME NEW b \in Calls, answer'[b] \in {"pending", "ok", "refused", "cancelled"}
        PROVE  owner'[b] # Null /\ run'[owner'[b]].call = b
    <3>1. CASE b = c
      BY <1>4, <1>5, <3>1
    <3>2. CASE b # c
      <4>1. owner[b] # Null /\ run[owner[b]].call = b /\ owner[b] # d
        BY <1>1, <1>5, <2>1, <3>2 DEF RunIsCurrent, Running
      <4> QED
        BY <1>2, <1>5, <3>2, <4>1
    <3> QED
      BY <3>1, <3>2
  <2>2. ASSUME NEW e \in Drafts, run'[e] # NoRun
        PROVE  /\ run'[e].call # Null /\ owner'[run'[e].call] = e
               /\ \A b \in Calls : owner'[b] = e => b <= run'[e].call
    <3>1. CASE e = d
      <4>1. run'[e].call = c
        BY <1>5, <3>1
      <4>2. ASSUME NEW b \in Calls, owner'[b] = d PROVE b <= c
        <5>1. CASE b = c
          BY <1>4, <5>1
        <5>2. CASE b # c
          BY <1>1, <1>4, <1>5, <1>7, <4>2, <5>2, IdFacts DEF OwnersAreKnown
        <5> QED
          BY <5>1, <5>2
      <4> QED
        BY <1>4, <1>5, <3>1, <4>1, <4>2
    <3>2. CASE e # d
      <4>1. /\ run[e].call # Null /\ owner[run[e].call] = e /\ run'[e] = run[e]
            /\ \A b \in Calls : owner[b] = e => b <= run[e].call
        BY <1>1, <1>5, <2>2, <3>2 DEF RunIsCurrent
      <4>2. run[e].call \in Calls /\ run[e].call # c
        BY <1>2, <1>6, <4>1, IdFacts DEF RunTypes, CallOrNull
      <4> QED
        BY <1>5, <3>2, <4>1, <4>2
    <3> QED
      BY <3>1, <3>2
  <2> QED
    BY <2>1, <2>2 DEF RunIsCurrent, Running
<1>17. IdsArePast'
  <2>1. \A s \in steps' : PastNext(s.streamId)
    BY <1>3, <1>13, StepFacts
  <2>2. \A b \in Drafts : PastNext(run'[b].carried)
    BY <1>1, <1>2, <1>5, <1>13 DEF IdsArePast, RunTypes
  <2>3. CASE draft.id = d
    BY <1>4, <1>5, <1>8, <1>9, <2>1, <2>2, <2>3, IdsNext DEF PastNext
  <2>4. CASE draft.id # d
    <3>1. draft'.streamId # Null => kind'[draft'.streamId] \notin {"none", "unary"} /\ draft'.streamId # c
      BY <1>1, <1>3, <1>5, <1>9, <2>4, DraftFacts DEF IdsArePast
    <3>2. draft'.streamId # Null /\ owner'[draft'.streamId] # draft'.id => PastNext(draft'.streamId)
      BY <1>1, <1>5, <1>9, <1>13, <2>4, <3>1, DraftFacts DEF IdsArePast
    <3> QED
      BY <2>1, <2>2, <3>1, <3>2, IdsNext
  <2> QED
    BY <2>3, <2>4
<1>18. StepsAreSettled'
  <2>1. \A b \in Calls : b \in opened /\ live[b] = "no" => FaceOf(e2[b].phase) = FaceOf(entry[b].phase)
    BY <1>6, <1>11
  <2>2. \A s \in steps : s.kind # "unary" => s.status \in FaceOf(entry'[s.streamId].phase)
    BY <1>2, <1>3, <1>11, <2>1, StepsKept
  <2> QED
    BY <1>1, <1>3, <2>2 DEF StepsAreSettled
<1>19. /\ c \in Referenced(draft', steps') => live'[c] = l2[c] /\ FaceOf(entry'[c].phase) = FaceOf(e2[c].phase)
  BY <1>2, <1>11, RuleFacts
<1>20. draft.id = d /\ k # "unary" => live'[c] = "unopened" /\ FaceOf(entry'[c].phase) = {"sending"}
  BY <1>8, <1>9, <1>11, <1>19, RefFacts
\* The draft's own live calls are the new one, if it made one.
<1>21. ASSUME NEW b \in Calls, b # c, live'[b] # "no", owner[b] = draft.id PROVE draft.id # d /\ live[b] # "no"
  <2>1. live[b] # "no"
    BY <1>12, <1>21
  <2>2. ASSUME draft.id = d PROVE FALSE
    <3>1. draft'.streamId # b
      BY <1>8, <1>9, <1>21, <2>2, IdFacts
    <3> QED
      BY <1>2, <1>3, <1>11, <1>21, <2>1, <3>1, HiddenIsOver
  <2> QED
    BY <2>1, <2>2
<1>22. CASE draft.id = d
  <2>1. SendingIsUnderWay'
    BY <1>4, <1>5, <1>8, <1>9, <1>20, <1>22 DEF SendingIsUnderWay
  <2>2. ASSUME NEW b \in Calls, live'[b] # "no", owner'[b] = draft'.id PROVE b = c /\ k # "unary"
    <3>1. b = c
      BY <1>5, <1>9, <1>21, <1>22, <2>2
    <3>2. k # "unary"
      BY <1>2, <1>11, <2>2, <3>1, RuleFacts
    <3> QED
      BY <3>1, <3>2
  <2>3. k # "unary" => ShowsLastCall'
    <3>1. ASSUME k # "unary", NEW b \in Calls, owner'[b] = d PROVE b <= c
      <4>1. CASE b = c
        BY <1>4, <4>1
      <4>2. CASE b # c
        BY <1>1, <1>4, <1>5, <1>7, <3>1, <4>2, IdFacts DEF OwnersAreKnown
      <4> QED
        BY <4>1, <4>2
    <3> QED
      BY <1>5, <1>8, <1>9, <1>22, <3>1 DEF ShowsLastCall
  <2>4. \E b \in Calls : owner'[b] = draft'.id
    BY <1>5, <1>9, <1>22
  <2>5. draft'.streamId # Null => draft'.status \in FaceOf(entry'[draft'.streamId].phase)
    BY <1>8, <1>9, <1>20, <1>22
  <2>6. DraftShowsItsOwn'
    BY <1>8, <1>9, <1>22, <2>2, <2>3, <2>4, <2>5 DEF DraftShowsItsOwn
  <2> QED
    BY <1>14, <1>15, <1>16, <1>17, <1>18, <2>1, <2>6 DEF StepInv
<1>23. CASE draft.id # d
  <2>1. draft' = draft
    BY <1>9, <1>23
  <2>2. \A b \in Calls : owner[b] = draft.id /\ b # c => l2[b] = live[b] /\ e2[b] = entry[b]
    BY <1>11, <1>23
  <2>3. draft.streamId # Null => draft.streamId \in Calls /\ draft.streamId # c
    BY <1>1, <1>3, DraftFacts DEF IdsArePast
  <2>4. draft.streamId # Null => draft.streamId \in Referenced(draft', steps')
    BY <2>1, <2>3, RefFacts
  <2>5. draft.status = "sending" => draft.id # Null
    BY <1>1 DEF OwnersAreKnown, NoDraft
  <2>6. SendingIsUnderWay'
    <3>1. CASE draft.streamId = Null
      <4>1. ASSUME draft.status = "sending"
            PROVE  /\ draft.requestId \in Calls /\ draft.requestId # c /\ draft.id \in Drafts
                   /\ kind[draft.requestId] = "unary" /\ run[draft.id].call = draft.requestId
        BY <1>1, <1>3, <2>5, <3>1, <4>1, DraftFacts DEF SendingIsUnderWay, CallOrNull
      <4>2. draft.status = "sending" => kind'[draft.requestId] = "unary" /\ run'[draft.id].call = draft.requestId
        BY <1>5, <1>23, <4>1
      <4> QED
        BY <2>1, <3>1, <4>1, <4>2, IdFacts DEF SendingIsUnderWay
    <3>2. CASE draft.streamId # Null
      <4>1. draft.status = "sending" =>
              draft.streamId = draft.requestId /\ live[draft.requestId] # "no" /\ owner[draft.requestId] = draft.id
        BY <1>1, <3>2 DEF SendingIsUnderWay
      <4>2. draft.status = "sending" => live'[draft.requestId] = live[draft.requestId]
        BY <1>2, <1>11, <2>2, <2>3, <2>4, <3>2, <4>1, RuleFacts
      <4> QED
        BY <1>5, <2>1, <2>3, <3>2, <4>1, <4>2 DEF SendingIsUnderWay
    <3> QED
      BY <3>1, <3>2
  <2>7. DraftShowsItsOwn'
    <3>1. ASSUME NEW b \in Calls, live'[b] # "no", owner'[b] = draft.id
          PROVE  draft.status = "sending" /\ draft.streamId = b /\ ShowsLastCall
      <4>1. b # c /\ owner[b] = draft.id
        BY <1>5, <1>23, <3>1
      <4>2. live[b] # "no"
        BY <1>21, <3>1, <4>1
      <4> QED
        BY <1>1, <4>1, <4>2 DEF DraftShowsItsOwn
    <3>2. draft.id # Null => (ShowsLastCall' <=> ShowsLastCall)
      <4>1. draft.id # Null => \A b \in Calls : owner'[b] = draft.id <=> owner[b] = draft.id
        BY <1>5, <1>6, <1>23
      <4>2. CASE draft.streamId # Null
        BY <1>5, <2>1, <2>3, <4>1, <4>2 DEF ShowsLastCall
      <4>3. CASE draft.streamId = Null
        <5>1. \A b \in Calls : ~(b <= draft.streamId)
          BY <4>3 DEF Calls, Null
        <5> QED
          BY <2>1, <4>1, <5>1 DEF ShowsLastCall
      <4> QED
        BY <4>2, <4>3
    <3>3. draft.id = Null => draft.streamId = Null /\ draft.status = "draft"
      BY <1>1 DEF OwnersAreKnown, NoDraft
    <3>4. (\A b \in Calls : owner'[b] # draft.id) /\ draft.streamId # Null =>
            \E s \in steps : s.streamId = draft.streamId /\ s.status = draft.status
      <4>1. (\A b \in Calls : owner'[b] # draft.id) /\ draft.id # Null => \A b \in Calls : owner[b] # draft.id
        BY <1>5, <1>6
      <4> QED
        BY <1>1, <3>3, <4>1 DEF DraftShowsItsOwn
    <3>5. ASSUME ShowsLastCall, draft.streamId \notin Carried \cup {Null}
          PROVE  draft.status \in FaceOf(entry'[draft.streamId].phase)
      <4>1. draft.status \in FaceOf(entry[draft.streamId].phase)
        BY <1>1, <3>5 DEF DraftShowsItsOwn
      <4>2. \A b \in Calls : es[b] # entry[b] => draft.streamId # b
        BY <1>23, <3>5, ShownIsNot
      <4>3. e2[draft.streamId] = entry[draft.streamId]
        BY <1>11, <2>3, <3>5, <4>2
      <4>4. FaceOf(entry'[draft.streamId].phase) = FaceOf(e2[draft.streamId].phase)
        BY <1>2, <1>11, <2>3, <2>4, <3>5, RuleFacts
      <4> QED
        BY ONLY <4>1, <4>3, <4>4
    <3>6. Carried' = Carried
      BY <1>3 DEF Carried
    <3>7. \A b \in Calls : live'[b] # "no" /\ owner'[b] = draft.id =>
            draft.status = "sending" /\ draft.streamId = b /\ ShowsLastCall'
      BY <3>1, <3>2, <3>3
    <3> QED
      BY <1>3, <2>1, <3>2, <3>3, <3>4, <3>5, <3>6, <3>7 DEF DraftShowsItsOwn
  <2> QED
    BY <1>14, <1>15, <1>16, <1>17, <1>18, <2>6, <2>7 DEF StepInv
<1> QED
  BY <1>22, <1>23

-----------------------------------------------------------------------------
(* Something comes of a call: the draft it was made for is patched, a       *)
(* snapshot may be added, and the call is over.                            *)

\* The attempts as a step leaves them that ends at most the one of call c.
RunGoesOn(c) ==
  /\ UNCHANGED <<kind, owner, opened>> /\ RunIsCurrent' /\ RunTypes'
  /\ \A d \in Drafts : run'[d] \in {run[d], NoRun} /\ (d # owner[c] => run'[d] = run[d])

\* Call c, which did not open or is live, is over in the stores es and l, and its draft gets
\* the status; the draft keeps its stream, or loses it (i).
Comes(c, es, l, i, status) ==
  /\ owner[c] # Null /\ (c \notin opened \/ live[c] # "no")
  /\ status \in Statuses \ {"sending"} /\ i \in {draft.streamId, Null}
  /\ \/ draft' = Patched(owner[c], [status |-> status, requestId |-> Null]) /\ i = draft.streamId
     \/ draft' = Patched(owner[c], [status |-> status, requestId |-> Null, streamId |-> i])
  /\ draft.id = owner[c] /\ ShowsLastCall /\ i # Null => i = c /\ status \in FaceOf(es[c].phase)
  /\ steps \subseteq steps' /\ steps' \subseteq StepSet
  /\ \A s \in steps' \ steps :
       \/ s.kind = "unary" /\ Past(s.streamId)
       \/ /\ s.streamId = c /\ c \in opened /\ s.status \in FaceOf(es[c].phase)
          /\ kind[c] \notin {"none", "unary"}
  /\ \A b \in Calls : b # c => FaceOf(es[b].phase) = FaceOf(entry[b].phase) /\ l[b] = live[b]
  /\ l[c] = "no"

LEMMA PatchedStep ==
  ASSUME CallInv, StepInv, NEW es \in [Calls -> Entries], NEW q \in [Calls -> Queued],
         NEW l \in [Calls -> Lives], NEW rec, AfterStore(es, q, l, rec), NEW c \in Calls,
         NEW i, NEW status, RunGoesOn(c), Comes(c, es, l, i, status)
  PROVE  StepInv'
<1> USE DEF RunGoesOn, Comes
<1>1. /\ StepTypes /\ OwnersAreKnown /\ RunIsCurrent /\ IdsArePast /\ StepsAreSettled
      /\ DraftShowsItsOwn /\ SendingIsUnderWay
  BY DEF StepInv
<1>2. i \in CallOrNull /\ (draft.streamId # Null => draft.streamId \in Calls) /\ c # Null
  BY <1>1, DraftFacts, IdFacts DEF CallOrNull
<1>3. /\ draft.id # owner[c] => draft' = draft
      /\ draft.id = owner[c] => /\ draft'.id = draft.id /\ draft'.status = status
                                /\ draft'.streamId = i
      /\ draft' \in DraftSlots
  <2>1. status \in Statuses /\ Null \in CallOrNull
    BY DEF CallOrNull
  <2>2. CASE draft' = Patched(owner[c], [status |-> status, requestId |-> Null]) /\ i = draft.streamId
    BY ONLY <1>1, <1>2, <2>1, <2>2, PatchFacts
  <2>3. CASE draft' = Patched(owner[c], [status |-> status, requestId |-> Null, streamId |-> i])
    BY ONLY <1>1, <1>2, <2>1, <2>3, PatchFacts
  <2> QED
    BY <2>2, <2>3
<1>4. \A b \in Calls : live'[b] \in {l[b], "no"} /\ (live[b] = "no" => live'[b] = "no")
  BY RuleFacts
<1>5. live'[c] = "no"
  BY <1>4
<1>6. ASSUME NEW j \in CallOrNull, Past(j) PROVE PastNext(j)
  BY <1>4, <1>6, PastKept
<1>7. StepTypes'
  BY <1>1, <1>3, StepTypesParts, RunTypesNext
<1>8. OwnersAreKnown'
  <2>1. draft'.id = Null => draft' = NoDraft
    BY <1>1, <1>3 DEF OwnersAreKnown
  <2> QED
    BY <1>1, <2>1 DEF OwnersAreKnown
<1>9. IdsArePast'
  <2>1. ASSUME NEW s \in steps' PROVE PastNext(s.streamId)
    <3>1. CASE Past(s.streamId)
      <4>1. s.streamId \in CallOrNull
        BY DEF StepSet
      <4> QED
        BY <1>6, <3>1, <4>1
    <3>2. CASE s.streamId = c /\ kind[c] \notin {"none", "unary"}
      BY <1>5, <3>2 DEF PastNext
    <3> QED
      BY <3>1, <3>2, StepFacts
  <2>2. ASSUME NEW d \in Drafts PROVE PastNext(run'[d].carried)
    <3>1. PICK j : j = run'[d].carried
      OBVIOUS
    <3>2. j = Null \/ (j \in CallOrNull /\ j = run[d].carried)
      BY <1>1, <3>1 DEF StepTypes, NoRun
    <3>3. Past(j) /\ j \in CallOrNull
      BY <1>1, <3>2 DEF IdsArePast, Past, CallOrNull
    <3> QED
      BY <1>6, <3>1, <3>3
  <2>3. draft'.id = draft.id /\ draft'.streamId \in {draft.streamId, Null}
    BY <1>3
  <2>4. draft'.streamId # Null => kind'[draft'.streamId] \notin {"none", "unary"}
    BY <1>1, <2>3 DEF IdsArePast
  <2>5. draft'.streamId # Null /\ owner'[draft'.streamId] # draft'.id => PastNext(draft'.streamId)
    BY <1>1, <1>2, <1>6, <2>3 DEF IdsArePast, CallOrNull
  <2> QED
    BY <2>1, <2>2, <2>4, <2>5, IdsNext
<1>10. StepsAreSettled'
  <2>1. \A b \in Calls : b \in opened /\ live[b] = "no" => FaceOf(es[b].phase) = FaceOf(entry[b].phase)
    OBVIOUS
  <2>2. \A s \in steps : s.kind # "unary" => s.status \in FaceOf(entry'[s.streamId].phase)
    BY <2>1, StepsKept
  <2>3. ASSUME NEW s \in steps' \ steps, s.kind # "unary"
        PROVE  s.streamId \in opened /\ s.status \in FaceOf(entry'[s.streamId].phase)
    <3>1. s.streamId = c /\ c \in opened /\ s.status \in FaceOf(es[c].phase)
      BY <2>3
    <3>2. c \in Referenced(draft', steps')
      BY <2>3, <3>1, RefFacts
    <3> QED
      BY <3>1, <3>2, RuleFacts
  <2> QED
    BY <1>1, <2>2, <2>3 DEF StepsAreSettled
<1>11. Carried \subseteq Carried'
  BY DEF Carried
<1>12. ASSUME NEW b \in Calls, live'[b] # "no", owner[b] = draft.id
       PROVE  draft.id # owner[c] /\ live[b] # "no" /\ b # c
  <2>1. live[b] # "no" /\ b # c
    BY <1>4, <1>5, <1>12
  <2>2. ASSUME draft.id = owner[c] PROVE FALSE
    <3>1. draft.streamId = b /\ ShowsLastCall
      BY <1>1, <1>12, <2>1 DEF DraftShowsItsOwn
    <3>2. i = Null
      BY <2>1, <2>2, <3>1
    <3>3. draft'.streamId # b
      BY <1>3, <2>2, <3>2, IdFacts
    <3>4. \A s \in steps' \ steps : s.streamId # b
      BY <2>1, IdFacts DEF Past
    <3> QED
      BY <1>12, <2>1, <3>3, <3>4, HiddenIsOver
  <2> QED
    BY <2>1, <2>2
<1>13. CASE draft.id = owner[c]
  <2>1. SendingIsUnderWay'
    BY <1>3, <1>13 DEF SendingIsUnderWay
  <2>2. i # Null => (ShowsLastCall' <=> ShowsLastCall)
    BY <1>3, <1>13 DEF ShowsLastCall
  <2>3. ASSUME ShowsLastCall', i # Null PROVE status \in FaceOf(entry'[i].phase)
    <3>1. i = c /\ status \in FaceOf(es[c].phase)
      BY <1>13, <2>2, <2>3
    <3>2. c \in Referenced(draft', steps')
      BY <1>3, <1>13, <3>1, RefFacts
    <3> QED
      BY <3>1, <3>2, RuleFacts
  <2>4. \A b \in Calls : ~(live'[b] # "no" /\ owner'[b] = draft'.id)
    BY <1>3, <1>12, <1>13
  <2>5. \E b \in Calls : owner'[b] = draft'.id
    BY <1>3, <1>13
  <2>6. DraftShowsItsOwn'
    BY <1>3, <1>13, <2>3, <2>4, <2>5 DEF DraftShowsItsOwn
  <2> QED
    BY <1>7, <1>8, <1>9, <1>10, <2>1, <2>6 DEF StepInv, RunIsCurrent
<1>14. CASE draft.id # owner[c]
  <2>1. draft' = draft /\ (ShowsLastCall' <=> ShowsLastCall)
    BY <1>3, <1>14 DEF ShowsLastCall
  <2>2. draft.streamId # Null => draft.streamId \in Referenced(draft', steps')
    BY <1>2, <2>1, RefFacts
  <2>3. ASSUME ShowsLastCall, draft.streamId \notin Carried \cup {Null}
        PROVE  draft.status \in FaceOf(entry'[draft.streamId].phase)
    <3>1. draft.status \in FaceOf(entry[draft.streamId].phase)
      BY <1>1, <2>3 DEF DraftShowsItsOwn
    <3>2. draft.streamId # c
      BY <1>14, <2>3, ShownIsNot
    <3> QED
      BY <1>2, <2>2, <2>3, <3>1, <3>2, RuleFacts
  <2>4. SendingIsUnderWay'
    <3>1. ASSUME draft.status = "sending"
          PROVE  draft.requestId \in Calls /\ draft.id \in Drafts
      BY <1>1, <3>1, DraftFacts DEF SendingIsUnderWay, CallOrNull, OwnersAreKnown, NoDraft
    <3>2. CASE draft.streamId = Null
      BY <1>1, <1>14, <2>1, <3>1, <3>2 DEF SendingIsUnderWay
    <3>3. CASE draft.streamId # Null
      <4>1. draft.status = "sending" => live'[draft.streamId] = live[draft.streamId]
        BY <1>1, <1>2, <1>14, <2>2, <3>3, RuleFacts DEF SendingIsUnderWay
      <4> QED
        BY <1>1, <2>1, <3>3, <4>1 DEF SendingIsUnderWay
    <3> QED
      BY <3>2, <3>3
  <2>5. \A b \in Calls : live'[b] # "no" /\ owner'[b] = draft'.id =>
          draft'.status = "sending" /\ draft'.streamId = b /\ ShowsLastCall'
    BY <1>1, <1>12, <2>1 DEF DraftShowsItsOwn
  <2>6. (\A b \in Calls : owner'[b] # draft'.id) /\ draft'.streamId # Null =>
          \E s \in steps' : s.streamId = draft'.streamId /\ s.status = draft'.status
    BY <1>1, <2>1 DEF DraftShowsItsOwn
  <2>7. DraftShowsItsOwn'
    BY <1>11, <2>1, <2>3, <2>5, <2>6 DEF DraftShowsItsOwn
  <2> QED
    BY <1>7, <1>8, <1>9, <1>10, <2>4, <2>7 DEF StepInv, RunIsCurrent
<1> QED
  BY <1>13, <1>14

LEMMA RunStays ==
  ASSUME StepInv, UNCHANGED <<owner, run, gate, answer>>
  PROVE  /\ RunIsCurrent' /\ RunTypes'
         /\ \A d \in Drafts : run'[d] = run[d]
<1>1. RunIsCurrent /\ RunTypes
  BY StepTypesParts DEF StepInv
<1> QED
  BY <1>1 DEF RunIsCurrent, RunTypes, Running

\* The stores as they are, and as a flush leaves them.
LEMMA StoreFacts ==
  ASSUME CallInv
  PROVE  /\ entry \in [Calls -> Entries] /\ queue \in [Calls -> Queued] /\ live \in [Calls -> Lives]
         /\ EmptyQueue \in [Calls -> Queued] /\ Flushed(entry, queue) \in [Calls -> Entries]
         /\ \A c \in Calls : /\ FaceOf(Flushed(entry, queue)[c].phase) = FaceOf(entry[c].phase)
                             /\ LiveEntry(Flushed(entry, queue)[c]) <=> LiveEntry(entry[c])
                             /\ LiveEntry(entry[c]) <=> live[c] # "no"
<1>1. Keeps(kind, entry, queue, live, records, shown, opened, outcome)
  BY InvByCall
<1>2. StoreTypes(entry, queue, live, records, shown)
  BY <1>1 DEF Keeps
<1>3. StoreTypes(Flushed(entry, queue), EmptyQueue, live, records, shown)
  BY <1>1, FlushedKeeps DEF Keeps
<1>4. \A c \in Calls : Flushed(entry, queue)[c] = Apply(entry[c], queue[c])
  BY DEF Flushed
<1>5. \A c \in Calls : LiveEntry(entry[c]) <=> live[c] # "no"
  BY DEF CallInv, LiveCallsAgree
<1> QED
  BY <1>2, <1>3, <1>4, <1>5, FaceStays, ApplyLive DEF StoreTypes

LEMMA SettleSteps ==
  ASSUME CallInv, StepInv, NEW es \in [Calls -> Entries], NEW q \in [Calls -> Queued],
         \A b \in Calls : FaceOf(es[b].phase) = FaceOf(entry[b].phase),
         NEW c \in Calls, live[c] # "no", NEW e \in Entries,
         NEW status \in {"ok", "error", "cancelled"}, status \in FaceOf(e.phase),
         Settle(c, status, Set(es, c, e), q),
         RunGoesOn(c)
  PROVE  StepInv'
<1>1. kind[c] \notin {"none", "unary"} /\ owner[c] # Null
  BY DEF CallInv, UnmadeIsBlank, LiveIsMarked, StepInv, OwnersAreKnown
<1>2. PICK es2, l2 : es2 = Set(es, c, e) /\ l2 = Set(live, c, "no")
  OBVIOUS
<1>3. /\ es2 \in [Calls -> Entries] /\ l2 \in [Calls -> Lives] /\ es2[c] = e /\ l2[c] = "no"
      /\ \A b \in Calls : b # c => es2[b] = es[b] /\ l2[b] = live[b]
  BY <1>2, StoreFacts DEF Set, Lives
<1>4. PICK rec : AfterStore(es2, q, l2, rec)
  BY <1>2 DEF Settle
<1>5. /\ draft' = Patched(owner[c], [status |-> status, requestId |-> Null])
      /\ steps' = IF live[c] = "opened" THEN steps \cup {Snapshot(kind[c], status, c)} ELSE steps
  BY DEF Settle
<1>6. draft.id = owner[c] => draft.streamId = c
  BY DEF StepInv, DraftShowsItsOwn
<1>7. Snapshot(kind[c], status, c) \in StepSet /\ Snapshot(kind[c], status, c).streamId = c
        /\ Snapshot(kind[c], status, c).status = status
  BY <1>1 DEF Snapshot, StepSet, CallInv, CallTypes, CallOrNull
<1>8. steps \subseteq steps' /\ steps' \subseteq StepSet
  BY <1>5, <1>7, StepTypesParts DEF StepInv
<1>9. live[c] = "opened" => c \in opened
  BY DEF CallInv, LiveIsMarked
<1>10. \A s \in steps' \ steps : /\ s.streamId = c /\ c \in opened /\ s.status \in FaceOf(es2[c].phase)
                                 /\ kind[c] \notin {"none", "unary"}
  BY <1>1, <1>3, <1>5, <1>7, <1>9
<1>11. status \in Statuses \ {"sending"}
  BY DEF Statuses
<1>12. \A b \in Calls : b # c => FaceOf(es2[b].phase) = FaceOf(entry[b].phase) /\ l2[b] = live[b]
  BY <1>3
<1>13. draft.id = owner[c] /\ ShowsLastCall /\ draft.streamId # Null =>
         draft.streamId = c /\ status \in FaceOf(es2[c].phase)
  BY <1>3, <1>6
<1>14. Comes(c, es2, l2, draft.streamId, status)
  BY <1>1, <1>3, <1>5, <1>8, <1>10, <1>11, <1>12, <1>13 DEF Comes
<1> QED
  BY <1>3, <1>4, <1>14, PatchedStep

LEMMA EndFaces ==
  ASSUME NEW e \in Entries
  PROVE  /\ "cancelled" \in FaceOf(CancelEntry(e).phase)
         /\ {"ok", "error"} \subseteq FaceOf(EndEntry(e, "end").phase)
         /\ "error" \in FaceOf(EndEntry(e, "fault").phase)
<1>1. /\ CancelEntry(e).phase = "cancelled" /\ EndEntry(e, "end").phase = "ended"
      /\ EndEntry(e, "fault").phase = "faulted"
  BY DEF CancelEntry, EndEntry, Entries
<1> QED
  BY <1>1 DEF FaceOf, isLivePhase

LEMMA CancelStreamSteps ==
  ASSUME CallInv, StepInv, NEW c \in Calls, CancelStream(c),
         RunGoesOn(c),
         live[c] = "no" => \A d \in Drafts : run'[d] = run[d]
  PROVE  StepInv'
<1>1. PICK es : es = Flushed(entry, queue)
  OBVIOUS
<1>2. /\ es \in [Calls -> Entries] /\ EmptyQueue \in [Calls -> Queued]
      /\ \A b \in Calls : FaceOf(es[b].phase) = FaceOf(entry[b].phase)
      /\ LiveEntry(es[c]) <=> live[c] # "no"
  BY <1>1, StoreFacts
<1>3. CASE live[c] # "no"
  <2>1. Settle(c, "cancelled", Set(es, c, CancelEntry(es[c])), EmptyQueue)
    BY <1>1, <1>2, <1>3 DEF CancelStream
  <2>2. CancelEntry(es[c]) \in Entries /\ "cancelled" \in FaceOf(CancelEntry(es[c]).phase)
    BY <1>2, EndFacts, EndFaces
  <2> QED
    BY <1>2, <1>3, <2>1, <2>2, SettleSteps
<1>4. CASE live[c] = "no"
  <2>1. UNCHANGED <<draft, steps, live>> /\ entry' = es
    BY <1>1, <1>2, <1>4 DEF CancelStream
  <2>2. draft.status = "sending" => draft.id \in Drafts
    BY DraftFacts DEF StepInv, OwnersAreKnown, NoDraft
  <2>3. draft.status = "sending" /\ draft.streamId = Null => run'[draft.id].call = run[draft.id].call
    BY <1>4, <2>2
  <2>4. \A b \in Calls : FaceOf(entry'[b].phase) = FaceOf(entry[b].phase)
    BY <1>2, <2>1
  <2> QED
    BY <2>1, <2>3, <2>4, QuietStep DEF RunGoesOn
<1> QED
  BY <1>3, <1>4

-----------------------------------------------------------------------------
(* The actions, once more. *)

LEMMA CallIsMade ==
  ASSUME CallInv, StepInv, NEW c \in Calls, answer[c] # "none" \/ live[c] # "no" \/ kind[c] # "none"
  PROVE  kind[c] # "none" /\ kind[c] \in Kinds /\ owner[c] # Null /\ owner[c] \in Drafts
<1>1. kind[c] # "none" /\ kind[c] \in Kinds
  BY DEF CallInv, UnmadeIsBlank, CallTypes
<1>2. owner[c] # Null /\ owner[c] \in Drafts
  BY <1>1, StepTypesParts DEF StepInv, OwnersAreKnown
<1> QED
  BY <1>1, <1>2

\* A draft that waits for a unary call does not lose its attempt to a stream call.
LEMMA NotTheUnary ==
  ASSUME StepInv, NEW c \in Calls, Running(c), kind[c] # "unary",
         draft.status = "sending", draft.streamId = Null
  PROVE  draft.id # owner[c] /\ draft.id \in Drafts
<1>1. kind[draft.requestId] = "unary" /\ run[draft.id].call = draft.requestId
  BY DEF StepInv, SendingIsUnderWay
<1>2. draft.id \in Drafts
  BY DraftFacts DEF StepInv, OwnersAreKnown, NoDraft
<1> QED
  BY <1>1, <1>2 DEF Running

\* A step that leaves the attempts too.
LEMMA StillStep ==
  ASSUME CallInv, StepInv, UNCHANGED <<draft, steps, owner, kind, run, live, opened>>,
         RunTypes', RunIsCurrent',
         \A c \in Calls : FaceOf(entry'[c].phase) = FaceOf(entry[c].phase)
  PROVE  StepInv'
<1>1. \A d \in Drafts : run'[d] \in {run[d], NoRun}
  OBVIOUS
<1>2. draft.status = "sending" /\ draft.streamId = Null => run'[draft.id].call = run[draft.id].call
  OBVIOUS
<1>3. opened \subseteq opened' /\ \A c \in Calls : live'[c] = "no" <=> live[c] = "no"
  OBVIOUS
<1> QED
  BY <1>1, <1>2, <1>3, QuietStep

LEMMA StillActions ==
  ASSUME CallInv, StepInv, NEW c,
         \/ CancelCall \/ Flush \/ UNCHANGED vars \/ SendStreamMessage(c) \/ HalfCloseStream(c)
         \/ c \in Calls /\ (SendAnswered(c) \/ HalfCloseAnswered(c))
         \/ CoreSend(c) \/ CoreHalfClose(c) \/ CoreMessage(c) \/ CoreEnd(c) \/ CoreRelease(c)
  PROVE  StepInv'
<1>1. UNCHANGED <<draft, steps, owner, kind, run, live, opened, answer>>
  BY DEF CancelCall, Flush, vars, webview, ipc, history, SendStreamMessage, HalfCloseStream, SendAnswered,
         HalfCloseAnswered, CoreSend, CoreHalfClose, CoreMessage, CoreEnd, CoreRelease
<1>2. RunIsCurrent'
  BY <1>1 DEF StepInv, RunIsCurrent, Running
<1>3. RunTypes'
  <2>1. RunTypes
    BY StepTypesParts DEF StepInv
  <2>2. CASE CancelCall
    <3>1. gate' = IF gate[draft.id] = "open" THEN Set(gate, draft.id, "cancelled") ELSE gate
      BY <2>2 DEF CancelCall
    <3> QED
      BY <1>1, <2>1, <3>1 DEF RunTypes, Set
  <2>3. CASE gate' = gate
    BY <1>1, <2>1, <2>3 DEF RunTypes
  <2>4. CancelCall \/ gate' = gate
    BY DEF Flush, vars, webview, SendStreamMessage, HalfCloseStream, SendAnswered,
           HalfCloseAnswered, CoreSend, CoreHalfClose, CoreMessage, CoreEnd, CoreRelease
  <2> QED
    BY <2>2, <2>3, <2>4
<1>4. \A b \in Calls : FaceOf(entry'[b].phase) = FaceOf(entry[b].phase)
  <2>1. CASE c \in Calls /\ (SendAnswered(c) \/ HalfCloseAnswered(c))
    <3>1. PICK change \in {"push", "half", "fault"} : OnLiveEntry(c, change)
      BY <2>1 DEF SendAnswered, HalfCloseAnswered
    <3>2. PICK es : es = Flushed(entry, queue)
      OBVIOUS
    <3>3. /\ es \in [Calls -> Entries] /\ c \in Calls
          /\ \A b \in Calls : FaceOf(es[b].phase) = FaceOf(entry[b].phase)
      BY <2>1, <3>2, StoreFacts
    <3>4. CASE ~LiveEntry(es[c])
      BY <3>1, <3>2, <3>3, <3>4 DEF OnLiveEntry
    <3>5. CASE LiveEntry(es[c])
      <4>1. PICK e : e = CASE change = "push"  -> PushOutbound(es[c])
                           [] change = "half"  -> HalfClose(es[c])
                           [] change = "fault" -> SetSendFault(es[c])
        OBVIOUS
      <4>2. entry' = Set(es, c, e)
        BY <3>1, <3>2, <3>5, <4>1 DEF OnLiveEntry
      <4>3. e \in Entries /\ LiveEntry(e)
        BY <3>3, <3>5, <4>1, TouchFacts
      <4>4. FaceOf(e.phase) = FaceOf(es[c].phase)
        BY <3>3, <3>5, <4>3, LiveFace
      <4> QED
        BY <3>3, <4>2, <4>4 DEF Set
    <3> QED
      BY <3>4, <3>5
  <2>2. CASE Flush
    BY <2>2, StoreFacts DEF Flush
  <2>3. CASE entry' = entry
    BY <2>3
  <2>4. (c \in Calls /\ (SendAnswered(c) \/ HalfCloseAnswered(c))) \/ Flush \/ entry' = entry
    BY DEF CancelCall, vars, webview, SendStreamMessage, HalfCloseStream, CoreSend, CoreHalfClose, CoreMessage,
           CoreEnd, CoreRelease
  <2> QED
    BY <2>1, <2>2, <2>3, <2>4
<1> QED
  BY <1>1, <1>2, <1>3, <1>4, StillStep

LEMMA CoreAnswerSteps ==
  ASSUME CallInv, StepInv, NEW c \in Calls, CoreAnswer(c) \/ CoreCancel(c)
  PROVE  StepInv'
<1>1. UNCHANGED <<draft, steps, owner, kind, run, live, opened, gate, entry>>
  BY DEF CoreAnswer, CoreCancel, webview, history
<1>2. RunIsCurrent /\ RunTypes
  BY StepTypesParts DEF StepInv
<1>3. answer' = answer \/ core[c] = "opening"
  BY DEF CoreAnswer, CoreCancel
<1>4. core[c] = "opening" => Running(c)
  BY <1>2 DEF CallInv, OpensWithAnswer, RunIsCurrent
<1>5. \A b \in Calls : b # c => answer'[b] = answer[b]
  BY DEF CoreAnswer, CoreCancel, CallInv, CallTypes, Set
<1>6. RunIsCurrent'
  BY <1>1, <1>2, <1>3, <1>4, <1>5 DEF RunIsCurrent, Running
<1>7. RunTypes'
  BY <1>1, <1>2 DEF RunTypes
<1> QED
  BY <1>1, <1>6, <1>7, StillStep

LEMMA CancelAnsweredSteps ==
  ASSUME CallInv, StepInv, NEW c \in Calls, CancelAnswered(c)
  PROVE  StepInv'
<1>1. UNCHANGED <<owner, kind, run, gate, answer, opened>>
  BY DEF CancelAnswered, history
<1>2. RunIsCurrent' /\ RunTypes' /\ \A d \in Drafts : run'[d] = run[d]
  BY <1>1, RunStays
<1>3. CASE kind[c] = "unary"
  <2>1. UNCHANGED <<draft, steps, live, entry>>
    BY <1>3 DEF CancelAnswered
  <2> QED
    BY <1>1, <1>2, <2>1, StillStep
<1>4. CASE kind[c] # "unary"
  <2>1. CancelStream(c)
    BY <1>4 DEF CancelAnswered
  <2>2. RunGoesOn(c)
    BY <1>1, <1>2 DEF RunGoesOn
  <2> QED
    BY <1>2, <2>1, <2>2, CancelStreamSteps
<1> QED
  BY <1>3, <1>4

LEMMA DeliverSteps ==
  ASSUME CallInv, StepInv, NEW c \in Calls, Deliver(c)
  PROVE  StepInv'
<1>1. UNCHANGED <<gate, run, kind, owner, answer>>
  BY DEF Deliver
<1>2. RunIsCurrent' /\ RunTypes' /\ \A d \in Drafts : run'[d] = run[d]
  BY <1>1, RunStays
<1>3. CASE DeliverOpened(c)
  <2>1. UNCHANGED <<draft, steps, entry>> /\ opened \subseteq opened'
    BY <1>3 DEF DeliverOpened, Mark
  <2>2. \A b \in Calls : live'[b] = "no" <=> live[b] = "no"
    BY <1>3 DEF DeliverOpened, MarkedLive, Set, CallInv, CallTypes
  <2>3. \A d \in Drafts : run'[d] \in {run[d], NoRun}
    BY <1>2
  <2>4. draft.status = "sending" /\ draft.streamId = Null => run'[draft.id].call = run[draft.id].call
    BY <1>1
  <2>5. \A b \in Calls : FaceOf(entry'[b].phase) = FaceOf(entry[b].phase)
    BY <2>1
  <2> QED
    BY <1>1, <1>2, <2>1, <2>2, <2>3, <2>4, <2>5, QuietStep
<1>4. CASE DeliverMessage(c)
  <2>1. UNCHANGED <<draft, steps, entry, live, opened>>
    BY <1>4 DEF DeliverMessage
  <2> QED
    BY <1>1, <1>2, <2>1, StillStep
<1>5. ASSUME NEW ev \in {"end", "fault"}, DeliverEnd(c, ev) PROVE StepInv'
  <2>1. CASE LiveEntry(entry[c])
    <3>1. PICK es : es = Flushed(entry, queue)
      OBVIOUS
    <3>2. PICK status \in IF ev = "end" THEN {"ok", "error"} ELSE {"error"} :
            Settle(c, status, Set(es, c, EndEntry(es[c], ev)), EmptyQueue)
      BY <1>5, <2>1, <3>1 DEF DeliverEnd
    <3>3. /\ es \in [Calls -> Entries] /\ EmptyQueue \in [Calls -> Queued] /\ live[c] # "no"
          /\ \A b \in Calls : FaceOf(es[b].phase) = FaceOf(entry[b].phase)
      BY <2>1, <3>1, StoreFacts
    <3>4. PICK e : e = EndEntry(es[c], ev)
      OBVIOUS
    <3>5. e \in Entries /\ status \in FaceOf(e.phase) /\ status \in {"ok", "error", "cancelled"}
      BY <3>2, <3>3, <3>4, EndFacts, EndFaces
    <3>6. RunGoesOn(c)
      BY <1>1, <1>2, <1>5 DEF RunGoesOn, DeliverEnd
    <3> QED
      BY <3>2, <3>3, <3>4, <3>5, <3>6, SettleSteps
  <2>2. CASE ~LiveEntry(entry[c])
    <3>1. UNCHANGED <<draft, steps, entry, live, opened>>
      BY <1>5, <2>2 DEF DeliverEnd
    <3> QED
      BY <1>1, <1>2, <3>1, StillStep
  <2> QED
    BY <2>1, <2>2
<1> QED
  BY <1>3, <1>4, <1>5 DEF Deliver

\* The command of the attempt under way is answered.
LEMMA AnswerIsTheRuns ==
  ASSUME StepInv, NEW c \in Calls, answer[c] \in {"ok", "refused", "cancelled"} \/ Running(c),
         Finish(owner[c]), answer' = Set(answer, c, "settled"), CallInv, UNCHANGED <<owner, kind>>
  PROVE  /\ Running(c) /\ owner[c] # Null /\ owner[c] \in Drafts
         /\ RunIsCurrent' /\ RunTypes'
         /\ \A d \in Drafts : run'[d] \in {run[d], NoRun} /\ (d # owner[c] => run'[d] = run[d])
<1>1. Running(c)
  BY DEF StepInv, RunIsCurrent
<1>2. owner[c] # Null /\ owner[c] \in Drafts
  BY <1>1, StepTypesParts DEF Running, StepInv
<1> QED
  BY <1>1, <1>2, FinishKeeps

LEMMA OpenResolvedSteps ==
  ASSUME CallInv, StepInv, NEW c \in Calls, OpenResolved(c)
  PROVE  StepInv'
<1>1. /\ kind[c] # "unary" /\ answer[c] = "ok" /\ answer' = Set(answer, c, "settled")
      /\ Finish(owner[c]) /\ UNCHANGED <<draft, steps, kind, owner, entry>>
      /\ live' = MarkedLive(c) /\ opened \subseteq opened'
  BY DEF OpenResolved, Mark
<1>2. /\ Running(c) /\ RunIsCurrent' /\ RunTypes'
      /\ \A d \in Drafts : run'[d] \in {run[d], NoRun} /\ (d # owner[c] => run'[d] = run[d])
  BY <1>1, AnswerIsTheRuns
<1>3. \A b \in Calls : live'[b] = "no" <=> live[b] = "no"
  BY <1>1 DEF MarkedLive, Set, CallInv, CallTypes
<1>4. draft.status = "sending" /\ draft.streamId = Null => run'[draft.id].call = run[draft.id].call
  BY <1>1, <1>2, NotTheUnary
<1>5. \A b \in Calls : FaceOf(entry'[b].phase) = FaceOf(entry[b].phase)
  BY <1>1
<1>6. \A d \in Drafts : run'[d] \in {run[d], NoRun}
  BY <1>2
<1> QED
  BY <1>1, <1>2, <1>3, <1>4, <1>5, <1>6, QuietStep

\* A call that was refused, and of which only its draft's new face is left.
LEMMA RefusedStep ==
  ASSUME CallInv, StepInv, NEW c \in Calls, NEW status \in {"draft", "error"}, NEW rec,
         answer[c] \in {"refused", "mismatch"}, Running(c), Finish(owner[c]),
         answer' = Set(answer, c, "settled"), UNCHANGED <<kind, owner, opened, steps>>,
         draft' = Patched(owner[c], [status |-> status, requestId |-> Null, streamId |-> Null]),
         AfterStore(Set(entry, c, NoEntry), Set(queue, c, NothingQueued), Set(live, c, "no"), rec)
  PROVE  StepInv'
<1>1. PICK es, q, l : es = Set(entry, c, NoEntry) /\ q = Set(queue, c, NothingQueued) /\ l = Set(live, c, "no")
  OBVIOUS
<1>2. /\ es \in [Calls -> Entries] /\ q \in [Calls -> Queued] /\ l \in [Calls -> Lives] /\ l[c] = "no"
      /\ \A b \in Calls : b # c => es[b] = entry[b] /\ l[b] = live[b]
  BY <1>1, StoreFacts, NoEntryFacts DEF Set, Lives
<1>3. RunGoesOn(c) /\ owner[c] # Null
  BY AnswerIsTheRuns DEF RunGoesOn
<1>4. c \notin opened
  BY DEF CallInv, OpensWithAnswer
<1>5. steps \subseteq steps' /\ steps' \subseteq StepSet /\ steps' \ steps = {}
  BY StepTypesParts DEF StepInv
<1>6. status \in Statuses \ {"sending"}
  BY DEF Statuses
<1>7. \A b \in Calls : b # c => FaceOf(es[b].phase) = FaceOf(entry[b].phase) /\ l[b] = live[b]
  BY <1>2
<1>8. Comes(c, es, l, Null, status)
  BY <1>2, <1>3, <1>4, <1>5, <1>6, <1>7 DEF Comes
<1>9. AfterStore(es, q, l, rec)
  BY <1>1
<1> QED
  BY <1>2, <1>3, <1>8, <1>9, PatchedStep

LEMMA OpenRejectedSteps ==
  ASSUME CallInv, StepInv, NEW c \in Calls, OpenRejected(c)
  PROVE  StepInv'
<1>1. /\ kind[c] # "unary"
      /\ answer[c] \in {"refused", "cancelled"} \/ Running(c)
      /\ answer[c] \in {"refused", "cancelled", "mismatch"}
      /\ answer[c] = "mismatch" => live[c] = "no"
      /\ answer' = Set(answer, c, "settled") /\ Finish(owner[c]) /\ UNCHANGED <<kind, owner, opened>>
  BY DEF OpenRejected
<1>2. /\ Running(c) /\ RunIsCurrent' /\ RunTypes'
      /\ \A d \in Drafts : run'[d] \in {run[d], NoRun} /\ (d # owner[c] => run'[d] = run[d])
  BY <1>1, AnswerIsTheRuns
<1>3. CASE live[c] = "no"
  <2>1. UNCHANGED <<draft, steps, live, entry>>
    BY <1>3 DEF OpenRejected
  <2>2. draft.status = "sending" /\ draft.streamId = Null => run'[draft.id].call = run[draft.id].call
    BY <1>1, <1>2, NotTheUnary DEF OpenRejected
  <2>3. \A b \in Calls : FaceOf(entry'[b].phase) = FaceOf(entry[b].phase) /\ (live'[b] = "no" <=> live[b] = "no")
    BY <2>1
  <2>4. \A d \in Drafts : run'[d] \in {run[d], NoRun}
    BY <1>2
  <2> QED
    BY <1>1, <1>2, <2>1, <2>2, <2>3, <2>4, QuietStep
<1>4. CASE live[c] # "no" /\ answer[c] = "cancelled"
  <2>1. CancelStream(c)
    BY <1>4 DEF OpenRejected
  <2>2. RunGoesOn(c)
    BY <1>1, <1>2 DEF RunGoesOn
  <2> QED
    BY <1>4, <2>1, <2>2, CancelStreamSteps
<1>5. CASE live[c] # "no" /\ answer[c] = "refused"
  <2>1. PICK rec : rec = Set(records, c, Append(records[c], 0))
    OBVIOUS
  <2>2. /\ draft' = Patched(owner[c], [status |-> "error", requestId |-> Null, streamId |-> Null])
        /\ steps' = steps
        /\ AfterStore(Set(entry, c, NoEntry), Set(queue, c, NothingQueued), Set(live, c, "no"), rec)
    BY <1>5, <2>1 DEF OpenRejected
  <2> QED
    BY <1>1, <1>2, <1>5, <2>2, RefusedStep
<1> QED
  BY <1>1, <1>3, <1>4, <1>5

LEMMA GiveUpSteps ==
  ASSUME CallInv, StepInv, NEW c \in Calls, RerouteCancelled(c) \/ SecondMismatch(c)
  PROVE  StepInv'
<1>1. PICK status \in {"draft", "error"} :
        GiveUp(c, [status |-> status, requestId |-> Null, streamId |-> Null])
  BY DEF RerouteCancelled, SecondMismatch, Unsent, Failed
<1>2. /\ Running(c) /\ answer[c] = "mismatch" /\ answer' = Set(answer, c, "settled") /\ opened' = opened
  BY DEF RerouteCancelled, SecondMismatch, Mismatch, history
<1>3. /\ draft' = Patched(owner[c], [status |-> status, requestId |-> Null, streamId |-> Null])
      /\ steps' = steps /\ Finish(owner[c]) /\ UNCHANGED <<kind, owner>>
      /\ AfterStore(Set(entry, c, NoEntry), Set(queue, c, NothingQueued), Set(live, c, "no"), records)
  BY <1>1 DEF GiveUp
<1> QED
  BY <1>2, <1>3, RefusedStep

LEMMA UnaryAnsweredSteps ==
  ASSUME CallInv, StepInv, NEW c \in Calls, UnaryAnswered(c)
  PROVE  StepInv'
<1>1. /\ kind[c] = "unary" /\ answer[c] \in {"ok", "refused", "cancelled"}
      /\ answer' = Set(answer, c, "settled") /\ Finish(owner[c]) /\ UNCHANGED <<kind, owner, opened>>
  BY DEF UnaryAnswered
<1>2. /\ Running(c) /\ owner[c] # Null /\ owner[c] \in Drafts
      /\ RunIsCurrent' /\ RunTypes'
      /\ \A d \in Drafts : run'[d] \in {run[d], NoRun} /\ (d # owner[c] => run'[d] = run[d])
  BY <1>1, AnswerIsTheRuns
<1>3. PICK carried : carried = run[owner[c]].carried
  OBVIOUS
<1>4. Past(carried) /\ carried \in CallOrNull
  BY <1>2, <1>3, StepTypesParts DEF StepInv, IdsArePast, RunTypes
<1>5. PICK status \in {"ok", "error", "draft"} :
        /\ answer[c] = "ok" => status \in {"ok", "error"}
        /\ draft' = Patched(owner[c], [status |-> status, requestId |-> Null])
        /\ steps' = IF answer[c] = "ok" THEN steps \cup {Snapshot("unary", status, carried)} ELSE steps
  <2>1. PICK status \in CASE answer[c] = "ok" -> {"ok", "error"}
                          [] answer[c] = "refused" -> {"error"}
                          [] answer[c] = "cancelled" -> {"draft"} :
          /\ draft' = Patched(owner[c], [status |-> status, requestId |-> Null])
          /\ steps' = IF answer[c] = "ok" THEN steps \cup {Snapshot("unary", status, carried)} ELSE steps
    BY <1>3 DEF UnaryAnswered
  <2>2. CASE answer[c] = "ok"
    BY <2>1, <2>2
  <2>3. CASE answer[c] = "refused"
    BY <2>1, <2>3
  <2>4. CASE answer[c] = "cancelled"
    BY <2>1, <2>4
  <2> QED
    BY <1>1, <2>2, <2>3, <2>4
<1>6. PICK rec : AfterStore(entry, queue, live, rec)
  BY DEF UnaryAnswered
<1>7. live[c] = "no" /\ c \notin opened
  BY <1>1 DEF CallInv, LiveIsMarked, OpensWithAnswer
<1>8. ASSUME draft.id = owner[c], ShowsLastCall, draft.streamId # Null PROVE FALSE
  <2>1. draft.streamId \in Calls /\ c <= draft.streamId /\ owner[draft.streamId] = owner[c]
    BY <1>8, DraftFacts DEF ShowsLastCall, StepInv
  <2>2. draft.streamId <= c
    BY <1>1, <1>2, <2>1, IdFacts DEF StepInv, RunIsCurrent, Running, NoRun
  <2>3. draft.streamId = c
    BY <2>1, <2>2, IdFacts
  <2> QED
    BY <1>1, <1>8, <2>3 DEF StepInv, IdsArePast
<1>9. answer[c] = "ok" => /\ Snapshot("unary", status, carried) \in StepSet
                          /\ Snapshot("unary", status, carried).kind = "unary"
                          /\ Snapshot("unary", status, carried).streamId = carried
  <2>1. "unary" \in Kinds
    BY <1>1, CallIsMade
  <2> QED
    BY <1>4, <1>5, <2>1 DEF Snapshot, StepSet
<1>10. /\ steps \subseteq steps' /\ steps' \subseteq StepSet
       /\ \A s \in steps' \ steps : s.kind = "unary" /\ Past(s.streamId)
  <2>1. steps \subseteq StepSet
    BY StepTypesParts DEF StepInv
  <2>2. CASE answer[c] = "ok"
    BY <1>4, <1>5, <1>9, <2>1, <2>2
  <2>3. CASE answer[c] # "ok"
    BY <1>5, <2>1, <2>3
  <2> QED
    BY <2>2, <2>3
<1>11. status \in Statuses \ {"sending"}
  BY DEF Statuses
<1>12. entry \in [Calls -> Entries] /\ queue \in [Calls -> Queued] /\ live \in [Calls -> Lives]
  BY StoreFacts
<1>13. RunGoesOn(c)
  BY <1>1, <1>2 DEF RunGoesOn
<1>14. Comes(c, entry, live, draft.streamId, status)
  BY <1>2, <1>5, <1>7, <1>8, <1>10, <1>11 DEF Comes
<1> QED
  BY <1>6, <1>12, <1>13, <1>14, PatchedStep

LEMMA DispatchSteps ==
  ASSUME CallInv, StepInv, Dispatch
  PROVE  StepInv'
<1>1. PICK k \in Kinds, c \in Calls : Attempt(draft.id, 1, k, c, draft.streamId, entry, live)
  BY DEF Dispatch
<1>2. /\ draft # NoDraft /\ draft.status # "sending" /\ gate[draft.id] = "none"
      /\ gate' = Set(gate, draft.id, "open") /\ opened' = opened
  BY DEF Dispatch, history
<1>3. RunTypes /\ owner \in [Calls -> Drafts \cup {Null}]
  BY StepTypesParts DEF StepInv
<1>4. draft.id \in Drafts /\ draft.streamId \in CallOrNull
  BY <1>2, DraftFacts DEF StepInv, OwnersAreKnown
<1>5. Past(draft.streamId)
  <2>1. CASE draft.streamId # Null /\ owner[draft.streamId] = draft.id
    <3>1. draft.streamId \in Calls /\ kind[draft.streamId] \notin {"none", "unary"}
      BY <2>1, DraftFacts DEF StepInv, IdsArePast
    <3>2. live[draft.streamId] = "no"
      BY <1>2, <2>1, <3>1 DEF StepInv, DraftShowsItsOwn
    <3> QED
      BY <3>1, <3>2 DEF Past
  <2>2. CASE draft.streamId = Null \/ owner[draft.streamId] # draft.id
    BY <2>2 DEF StepInv, IdsArePast, Past
  <2> QED
    BY <2>1, <2>2
<1>6. \A b \in Calls : owner[b] = draft.id => answer[b] \notin {"pending", "ok", "refused", "cancelled"}
  <2>1. run[draft.id] = NoRun
    BY <1>2, <1>3, <1>4 DEF RunTypes
  <2> QED
    BY <2>1, IdFacts DEF StepInv, RunIsCurrent, Running, NoRun
<1>7. /\ gate' \in [Drafts -> {"none", "open", "cancelled"}] /\ gate'[draft.id] = "open"
      /\ \A b \in Drafts : b # draft.id => gate'[b] = gate[b]
  BY <1>2, <1>3, <1>4 DEF Set, RunTypes
<1>8. entry \in [Calls -> Entries] /\ live \in [Calls -> Lives]
  BY StoreFacts
<1> QED
  BY <1>1, <1>2, <1>4, <1>5, <1>6, <1>7, <1>8, AttemptSteps

LEMMA RerouteSteps ==
  ASSUME CallInv, StepInv, NEW c \in Calls, Reroute(c)
  PROVE  StepInv'
<1>1. PICK d, carried : d = owner[c] /\ carried = run[owner[c]].carried
  OBVIOUS
<1>2. PICK es, l : es = Set(entry, c, NoEntry) /\ l = Set(live, c, "no")
  OBVIOUS
<1>3. PICK k \in Kinds, b \in Calls : Attempt(d, 2, k, b, carried, es, l)
  BY <1>1, <1>2 DEF Reroute
<1>4. /\ Running(c) /\ answer[c] = "mismatch" /\ gate[d] = "open" /\ UNCHANGED <<gate, opened>>
  BY <1>1 DEF Reroute, Mismatch, history
<1>5. RunTypes /\ owner \in [Calls -> Drafts \cup {Null}]
  BY StepTypesParts DEF StepInv
<1>6. d \in Drafts /\ Past(carried) /\ carried \in CallOrNull
  BY <1>1, <1>4, <1>5 DEF Running, StepInv, IdsArePast, RunTypes
<1>7. \A a \in Calls : owner[a] = d => answer[a] \notin {"pending", "ok", "refused", "cancelled"}
  BY <1>1, <1>4 DEF StepInv, RunIsCurrent, Running
<1>8. c \notin opened
  BY <1>4 DEF CallInv, OpensWithAnswer
<1>9. /\ es \in [Calls -> Entries] /\ l \in [Calls -> Lives] /\ l[c] = "no"
      /\ \A a \in Calls : a # c => es[a] = entry[a] /\ l[a] = live[a]
  BY <1>2, StoreFacts, NoEntryFacts DEF Set, Lives
<1>10. \A a \in Calls : l[a] \in {live[a], "no"}
  BY <1>9
<1>11. \A a \in Calls : es[a] # entry[a] \/ l[a] # live[a] => owner[a] = d /\ a \notin opened
  BY <1>1, <1>8, <1>9
<1>12. /\ gate' \in [Drafts -> {"none", "open", "cancelled"}] /\ gate'[d] # "none"
       /\ \A a \in Drafts : a # d => gate'[a] = gate[a]
  BY <1>4, <1>5 DEF RunTypes
<1>13. opened' = opened
  BY <1>4
<1> QED
  BY <1>3, <1>6, <1>7, <1>9, <1>10, <1>11, <1>12, <1>13, AttemptSteps

-----------------------------------------------------------------------------

LEMMA InitSteps ==
  Init => StepInv
<1> SUFFICES ASSUME Init PROVE StepInv
  OBVIOUS
<1>1. /\ draft = NoDraft /\ steps = {} /\ \A c \in Calls : owner[c] = Null /\ kind[c] = "none" /\ live[c] = "no"
      /\ \A c \in Calls : answer[c] = "none"
      /\ \A d \in Drafts : run[d] = NoRun /\ gate[d] = "none"
  BY DEF Init
<1>2. StepTypes
  <2>1. draft \in DraftSlots
    BY <1>1 DEF NoDraft, DraftSlots, Statuses, CallOrNull
  <2>2. RunTypes
    BY DEF Init, RunTypes, NoRun, CallOrNull
  <2>3. owner \in [Calls -> Drafts \cup {Null}] /\ steps \subseteq StepSet
    BY DEF Init
  <2> QED
    BY <2>1, <2>2, <2>3, StepTypesParts
<1>3. OwnersAreKnown
  BY <1>1 DEF OwnersAreKnown, NoDraft
<1>4. RunIsCurrent
  BY <1>1 DEF RunIsCurrent, Running
<1>5. IdsArePast
  <2>1. draft.streamId = Null /\ \A d \in Drafts : run[d].carried = Null
    BY <1>1 DEF NoDraft, NoRun
  <2> QED
    BY <1>1, <2>1 DEF IdsArePast, Past
<1>6. StepsAreSettled /\ SendingIsUnderWay /\ DraftShowsItsOwn
  BY <1>1, DraftFacts, <1>2 DEF StepsAreSettled, SendingIsUnderWay, DraftShowsItsOwn, NoDraft
<1> QED
  BY <1>2, <1>3, <1>4, <1>5, <1>6 DEF StepInv

LEMMA StepStepKeeps ==
  CallInv /\ StepInv /\ [Next]_vars => StepInv'
<1> SUFFICES ASSUME CallInv, StepInv, [Next]_vars PROVE StepInv'
  OBVIOUS
<1>1. CASE CancelCall \/ Flush \/ UNCHANGED vars
  BY <1>1, StillActions
<1>2. CASE User
  BY <1>1, <1>2, ReplaceKeeps, DispatchSteps, StillActions DEF User
<1>3. ASSUME NEW c \in Calls, Answered(c)
      PROVE  StepInv'
  BY <1>3, CancelAnsweredSteps, UnaryAnsweredSteps, OpenResolvedSteps, OpenRejectedSteps, RerouteSteps,
     GiveUpSteps, StillActions DEF Answered
<1>4. ASSUME NEW c \in Calls, Deliver(c) \/ Core(c) \/ CoreMessage(c) \/ CoreEnd(c)
      PROVE  StepInv'
  BY <1>4, DeliverSteps, CoreAnswerSteps, StillActions DEF Core
<1> QED
  BY <1>1, <1>2, <1>3, <1>4 DEF Next

\* The invariant of the draft, the workflow's snapshots and the attempts (callLifecycle.ts,
\* workflowStore, the release rule) holds throughout, besides the one of the call stores.
THEOREM StepInvariance == Spec => [](CallInv /\ StepInv)
<1>1. Init => CallInv /\ StepInv
  BY InitHolds, InitSteps
<1>2. CallInv /\ StepInv /\ [Next]_vars => (CallInv /\ StepInv)'
  BY StepKeeps, StepStepKeeps
<1> QED
  BY <1>1, <1>2, PTL DEF Spec

\* The workflow, liveCalls and the Stream store agree: a draft says "sending" only while
\* its call will end it, and every step shows the end its call has come to - whatever was
\* cancelled, re-routed, replaced or released meanwhile (settleStream, runGrpc, releaseRule).
THEOREM StoresStayTogether == Spec => []StoresAgree
<1>1. CallInv /\ StepInv => StoresAgree
  <2> SUFFICES ASSUME CallInv, StepInv PROVE StoresAgree
    OBVIOUS
  <2>1. TypeOK /\ LiveCallsAgree /\ SendingIsUnderWay
    BY DEF TypeOK, CallInv, StepInv
  <2>2. ASSUME NEW s \in steps, s.streamId \notin Carried \cup {Null}
        PROVE  s.status \in FaceOf(entry[s.streamId].phase)
    <3>1. s.kind # "unary"
      BY <2>2 DEF Carried
    <3> QED
      BY <3>1, StepFacts
  <2>3. StepsShowTheirCall
    BY <2>2 DEF StepsShowTheirCall, StepInv, DraftShowsItsOwn
  <2> QED
    BY <2>1, <2>3 DEF StoresAgree
<1> QED
  BY <1>1, StepInvariance, PTL
===============================================================================
