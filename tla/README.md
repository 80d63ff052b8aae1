# Handshaker: formal models

Handshaker is a desktop client for gRPC and HTTP calls: a Rust core
(`crates/handshaker-core`), a Tauri layer of commands (`src-tauri`) and a
webview in TypeScript (`src`). This directory holds TLA+ models of the parts of
it whose correctness depends on the order in which things happen, or on an
algorithm over data of any shape, the TLC configurations that check them on small
instances, and TLAPS proofs of what matters most for every instance.
`PROJECT.json` maps every definition to the lines it stands for.

## 1. The system

### Components, their state, and what makes them correct

| Component | State | Operations | Hard because | Correct when |
|---|---|---|---|---|
| Stream call (`stream.rs`) | the call body's place, Stream store, `cancelled`, `terminated`, outbound channel and its `tx`, Notifies, registry | spawn, body (open, pump, emit, terminate), Send message, Half-close, Cancel, release, Drop | a task, several callers and tonic run in parallel; every flag, lock and await is a separate step | rows, wire and events agree; sends are all or nothing; events follow the protocol; cancel and drop end the call; nobody stays parked |
| Call hand-off (`commands/call.rs`, `grpc.rs`, `http.rs`) | `in_flight` map of cancel Notifies, core's stream registry, per-attempt `dead` flag and handle slot | race work against cancel and timeout, hand over, cancel, release, event callback | a cancel may land between the end of the work and the registration of the call; ids may be reused; the page may be gone | a cancel always finds its call; nobody else's entry is touched; a call without a listener is freed |
| Webview call lifecycle (`callLifecycle.ts`, `streamStore.ts`, `releaseRule.ts`, `workflow/store.ts`) | draft, executed snapshots, gates, `liveCalls`, stream entries and queued events | dispatch, re-route once on a kind mismatch, cancel, settle, send, half-close, replace draft, switch method | every await lets a cancel, an event or a replaced draft in; End, cancel, rejection and release race to settle one call | the stores agree; one record per call, complete; a terminal entry is frozen; no draft is stuck in "sending"; a stream nobody shows is released |
| Send spine, token cache (`send.rs`, `auth/oauth2.rs`) | token per credential key | header for a call, one retry after a rejection, force fetch, invalidate | fetches are not deduplicated; the lock is released across a fetch; concurrent calls share a key | a rejected token is not spent again; no call is carried out twice |
| History (`history/file_store.rs`, `features/history/store.ts`) | bodies and index on disk, rows and revision in memory, the page in the webview | load and recover, append, clear, get; apply a page | a crash between two file steps; best-effort writes that fail; answers out of order | an acknowledged call survives a crash until evicted or cleared; a cleared one never returns; the page never goes back |
| Contract cache and read (`grpc/contract*.rs`, `file_contract_cache.rs`, `useContractRead.ts`) | mirror and one file per target; generation, timer and picture of the panel | get, put, invalidate, refresh; read, debounce, cancel | file and mirror are updated in two steps without a lock; a refresh races a read; answers come after the address changed | a refresh is not undone by an older contract; the panel shows its own address or says it is reading |
| Reflection, descriptors, catalog, schema (`grpc/reflection`, `descriptor.rs`, `catalog/build.rs`, `invoke/schema.rs`) | files by name, queue of names, pools, visited messages | list, crawl, fall back, assemble, prune, describe | imports with cycles and gaps, copies of one file, order of a hash map, one bad service among good ones | the crawl ends closed; the pools keep all that can be kept, whatever the order; a schema is finite and complete |
| Resolve pipeline (`vars`, `collections/resolve.rs`) | accumulated diagnosis | expand variables, pick auth, settle | chains, cycles, two scopes, several templates that fail in different ways | what is sent is expanded; every cycle and every missing name is reported |
| Catalog tree (`collections/tree.rs`, `useCatalogTree.ts`, `treeEdit.ts`, `dnd.ts`, `commands/collection.rs`) | collections in core; the picture of them in the webview | create, edit, duplicate, move, drop, delete, reload, import | every edit is written twice and made twice; a failed call is undone from a snapshot; commands overlap without a lock | the two sides agree; nothing is lost half-way; a drop lands where it is shown |
| Drafts (`workflow/store.ts`, `useAutosaveDraft.ts`, `WorkflowApp.tsx`, `methodChange.tsx`, `SaveRequestDialog.tsx`) | the one draft, its origin, dirty flag, timer, dialogs, open questions | edit, autosave, save, open, duplicate, quick add, change method, delete | every await lets the user replace, bind or edit the draft | edits reach core; what is not saved is only given up by the user; a method lands on its draft |
| Environment editor (`saveQueue.ts`, `envSync.ts`, `envSession.ts`, `useEnvEditor.ts`) | head, acknowledged and in-flight revision, timer; footprint of names in the store | edit, invalid, timer, flush, settled; plan and run a sync | edits during a write; a failed multi-step write leaves strays | the last valid edit is written; "saved" is never shown for anything else |
| Variables table (`envEditor.ts`, `envDraft.ts`, `varView.ts`, `VariablesTable.tsx`) | rows, open cell, row being added, undo; search, sort, held layout, focus | open, type, commit or cancel a cell; add, delete, undo; search, sort; leave | the layout is held while everything it depends on changes; an unsound draft is put together from two sources | what is worked on is on the screen; leaving gives up nothing that is right |
| Environment, collection, UI-state stores | mirror and file | upsert, delete, reorder | partial failure between file and mirror | mirror equals file |
| Outgoing requests (`http/request.rs`, `resolve.rs`, `tonic_impl.rs`) | none: headers or metadata of one attempt | prepare, sign, sign again for the retry | a user's row of the credential's name, in any spelling; built-ins in text that is not the user's | one credential, as it was issued; the rest as written |
| Transport, codec, IPC types, UI, updater | none of interest, or external | conversions, presentation | - | - |

### How they interact

The webview's `callLifecycle` invokes the Tauri commands `grpc_send`,
`stream_open`, `grpc_cancel`, `stream_send`, `stream_half_close` and
`stream_release`. `stream_open` races `Sender::open_stream` against a cancel
Notify registered under the request id, and hands the resulting `StreamCall` to
core's stream registry under the `in_flight` lock. The call body calls the event
callback, which sends on the Tauri channel; the webview queues the events and
applies them once per frame to its Stream store. A settled call becomes a record
in the History. The release rule watches the ids that drafts and snapshots refer
to and frees the streams that are referred to no longer.

Before any of it, the request is resolved (variables of the active environment
over those of the collection), the contract of its target is read from the cache
or by reflection, and a credential is materialized from the token cache. The
panel reads the same cache to show the methods of the address being typed. The
draft whose step all this is comes from the catalog, whose picture in the webview
runs ahead of what core has stored, and goes back there by autosave or a dialog.

## 2. The modules

| Module | Models | Role |
|---|---|---|
| `StreamProtocol` | what the event channel of a stream call promises | abstract specification |
| `StreamCall` | one stream call of `stream.rs` | detailed; implements `StreamProtocol` |
| `MCStreamCall` | instances and symmetry | TLC |
| `StreamCall_proofs` | inductive invariant, the properties, the refinement | TLAPS |
| `CallRegistry`, `MCCallRegistry` | the two registries and the hand-over between them | detailed |
| `CallRegistry_proofs` | inductive invariant, one registry per id, no cancel forgotten | TLAPS |
| `CallLifecycle`, `MCCallLifecycle` | the webview's side of a gRPC call; the scenarios of its run | detailed |
| `CallLifecycle_proofs` | the invariants of the stores and of the steps, and the three safety properties | TLAPS |
| `TokenRetry` | the token cache and the calls that share it | detailed |
| `Outbound` | what an attempt carries: headers, metadata, credential, built-ins | operators |
| `MCTokenRetry` | `TokenRetry` with what `Outbound` says of each attempt | TLC |
| `TokenRetry_proofs` | inductive invariant and both properties | TLAPS |
| `CallLog` | what the history promises of finished calls | abstract specification |
| `HistoryLog` | `FileHistoryStore`: its files, its page, crashes | detailed; implements `CallLog` |
| `HistoryView` | the commands and the webview's history store over `HistoryLog` | composition |
| `HistoryRecord` | the record a call leaves, trimmed to its bounds, and its row in the log | operators |
| `MCHistoryView` | `HistoryView` with what `HistoryRecord` says of each body | TLC |
| `History_proofs` | inductive invariants of store and view, the properties, the refinement | TLAPS |
| `ContractCache` | the mirror over its files, and the commands on it | detailed |
| `ContractView`, `MCContractView` | the panel's reads over `ContractCache` | composition |
| `Contract_proofs` | inductive invariants of cache, panel and reflection; the properties of a refresh, the panel's, and those of crawl, pools and schema | TLAPS |
| `Descriptors`, `MCDescriptors` | crawl, pools, catalog and schema; the servers tried | detailed |
| `VarResolve`, `MCVarResolve` | one resolve session; the scopes and requests tried | detailed |
| `ItemTree` | the edits of `tree.rs` and of `treeEdit.ts`, and the drop | operators |
| `Catalog`, `MCCatalog` | the picture, the store and the operations between them | composition |
| `Drafts`, `MCDrafts` | the draft slot and the ways into and out of it | detailed |
| `SaveQueue` | the save queue of one lane, as functions of its state | operators |
| `EnvSync` | the plans that write an environment, and core's commands | operators |
| `EnvEditor` | lanes, session, tail, the titlebar's list, core's store | composition |
| `VarTable` | the variables table of one pane | detailed |
| `MCEnvEditor` | `EnvEditor` and `VarTable` beside each other | TLC |
| `EnvEditor_proofs` | inductive invariant of store, lanes, tail and pane; `LanesMatchTail`, `WriteTookEffect`, `OthersUntouched` | TLAPS |
| `Editing_proofs` | inductive invariants of `Drafts` and of `VarTable`; the three properties of the draft, the two of the table | TLAPS |

### StreamCall and StreamProtocol

`StreamProtocol` is a log of events and a mode. The log follows the grammar
Opened, Headers, Message*, then one End or Fault; indices grow and may skip
(outbound rows share them); End counts the messages before it. A cancel mutes
the log; a delivery that had already passed its check may still land, once
(`Emitter::emit` loads the flag and then calls the sink).

`StreamCall` gives every load, store, lock section and await of `stream.rs` that
another thread can observe a step of its own. `bpc` is where the call body is:
`start`/`startPoll` are the biased select around `stream_dynamic` (696-710),
`pump`/`pumpPoll`/`parked` the one around `inbound.next()`, `taken` the item in
hand, `emit`/`deliver` the two steps of `Emitter::emit`, `dropTx`/`setFlag`/`wake`
the three of `Outbound::terminate`. `spc[s]` is where Send message `s` is, from
the registry's lookup to the ack. `free`, `chan` and `rxOpen` are tonic's bounded
channel: its semaphore, what is queued, and whether the receiver still exists.
A message is identified by the row it got, so `chan` and `wire` are sequences of
row numbers. `late` and `lateRows` are history variables.

Environment: tonic polls the channel or drops its receiver at any time; the
server sends items that decode or not, a status, or ends without one, or never
does anything. Repeating half-close or cancel changes nothing, so each happens
once. Bodies are encoded or not; what they contain does not matter here.

### CallRegistry

An attempt is one invocation of `grpc_send`/`http_send` or `stream_open`; `pc[a]`
follows it through `race_cancel_handoff` and the rest of `stream_open_impl`.
`inFlight` and `streams` are the two maps; `WithoutOwn` is the `Arc::ptr_eq`
removal both use. `dead`, `slot` and `inCallback` are the event callback's flag,
its `OnceLock`, and the window in it. `latest`, `handed`, `freed` and `aimed` are
history. A cancel holds the `in_flight` lock, and the hand-off is one section of
it, so each is one action.

### CallLifecycle

JavaScript runs a handler without interruption to its next await, so an action
is the code between two awaits that wait for core. `run[d]` is the `runGrpc` in
progress for draft `d` (its `attempt`, its call, and the stream id its step showed
when it was dispatched), `gate[d]` the entry of `gates`, `live[c]` the
entry of `liveCalls`, `entry[c]` the Stream store's entry, `queue[c]` what of its
events waits for the next frame (whether Opened does, and how many messages). Core is the environment: commands are answered in
any order, the events of one call arrive in order, and `stream_release` finds a
call only if it is registered. `AfterStore` applies the release rule, which
subscribes to the workflow store, within the action that changed the store.
Simplifications: every caller passes a `recording`; a command begins before one
that was invoked later; a call has one cancel in flight at a time; the status an
End brings (ok or error) is chosen freely. `runHttp` is not modelled.

### TokenRetry

`pc[c]` follows a call through `materialize`, the attempt, `invalidate`, the
forced fetch and the second attempt, with a step for every await and every lock
of the cache; `cache` is `TokenCache::entries` and `aged` the tokens within
`EXPIRY_SKEW` of their end. Sends, stream opens and Get token (which forces a
fetch) share it. The server accepts, rejects or fails an attempt as it likes, but
a call it rejects it has not carried out; the identity provider never issues a
token twice, and a token may expire at any time. A cancel or timeout drops the
call's future at any await. `refused` and `acted` are history.

### Outbound

Pure functions, evaluated for every few rows and every credential. A name is a word
in some spelling, because HTTP and the wire of gRPC do not tell spellings apart
while the maps in between do; a text says whose it is and whether a built-in in it
is still literal, which is what distinguishes text the user wrote from a token.
`HttpHeaders` is `prepare` with `with_auth`, `Wires` the metadata that
`inject_ascii_metadata` may put on the wire. `CivilFromDays` is the calendar that
`$isoTimestamp` computes by hand, compared day by day with the calendar's own rule.

### ContractCache and ContractView

A contract is the version of the server it was reflected from. `put` writes the
file and then the mirror, `invalidate` removes the file and then the mirror's
entry, and neither holds a lock in between; `ops` are the commands, each at the
point it has come to. `Crash` loses the mirror and every command; `Start` loads
the files. `floor[t]` is the oldest contract that may still be served for `t`:
a refresh raises it when it has dropped what was cached, provided no other
command on the target was under way (what happens otherwise is under "known
disagreements").

`ContractView` adds the panel: `addr` (all that decides the target), the timer of
400 ms, the generation (`current`) and what is shown. A refresh, a change of
address, a change of method and a cancel each begin, supersede or end a read;
answers arrive in any order.

### Descriptors

A file is a name, what it imports, and for each declaration the types it refers
to; names are numbers in the order of the code's strings, because ties are broken
by it. The crawl is a step per reflection session, with its fallback from v1 to
v1alpha; the pools are built in a step each from whatever order the hash map hands
the files over in; the schema is a step per message. `asked`, `visited` are
history or the code's own sets. What a file imports, directly or not, is the least set
closed under imports, which the code finds by walking. What `prost-reflect` accepts as a
pool is external: a set of files closed under imports without two declarations of a name.

### VarResolve

A template is the sequence of the names it refers to, so an expanded one is empty
or what is left literal. The step is one pass over one template; the passes stop
at a fixed point or at `MAX_PASSES`, what remains is diagnosed (a cycle, found by
a walk over the names from what is left, or the names missing), and the diagnoses
of all templates accumulate. Rows that are off are skipped, and the auth is picked
from request, environment, and collection. A built-in is a name like any other: a
variable may have it, and is substituted first. The reference definition, in
the properties, is by reachability: a template expands iff nothing reachable from
it is missing or lies on a cycle. Templates in which a variable of a built-in's name
is left after the last pass (`TakenForBuiltin`) are excepted, and only they: see the
known disagreements.

### ItemTree and Catalog

An item is a folder or a request by a field of its own, not by its id, because an
import may turn one into the other (`Imported`, `tree.rs:193`).
`ItemTree` has each tree edit twice, once as `tree.rs` makes it and once as
`treeEdit.ts` does (different clamps, refusals and copies), and the two steps from
a drop on a row to a position, with and without a filter. `Catalog` runs them: an
operation begins with the local edit and a snapshot, its command reads the
collection, edits the copy and upserts it in a step each, it may be refused or
fail at the disk, and its answer is applied or its snapshot put back. Reload and
import are operations too. `torn`, `clean` and `doubled` are history: a collection in
which two commands overlapped, or whose picture came back with somebody else's snapshot,
is left out of the agreement until the next load; one in which an import put a folder of
the file in the place of a request, with items that are elsewhere too, is left out of the
agreement and of `IdsAreUnique` for good.

### Drafts

There is one draft slot; a draft's content is its method and its body, and a
collection holds one request. `armed` is autosave's timer, `tree` the picture of
the requests and `stored` core's, `calls` the commands under way with the tree each
rolls back to. `saveOpen`, `discardOpen` and `pending` are `guardedRun` and its
dialogs, `saving` a submit that outlives its dialog, `gate` the question a change
of method asks ("asking", "committing"), `reads` the skeletons being read.
`wanted`, `rough`, `dropped` and `overtaken` are history. Two actions that look
the same to the user are kept apart when the code does: a patch that carries no
content re-arms the timer all the same; binding a draft is skipped by it.
Left out: the restore at start-up, the rename of a request after its method, a
recorded call run again, the recents, and the palette's reload.

### CallLog, HistoryLog and HistoryView

`CallLog` is a set of calls and whether the program runs. While it does, calls
leave the set only when `HISTORY_CAP` newer ones are in it, or all at once by a
clear; only the files of a program that is not running can suffer otherwise.

`HistoryLog` has the files as sets of calls: `bodies`, those of them that are
`damaged`, and what the `index` lists. `rows` and `revision` are the page in
memory, `pc` is the file step the one writer (it holds the write lock) has come
to, and `Crash` may follow any step. `Readable` is what a load would find, and
`Newest` what `retain_newest` leaves of it. A call is the rank of its start time,
so `Calls` are numbers and a page is a set. What the code does with `let _ =` or a
logged warning may take effect or not (`AppendIndex`, the removals of
`AppendFinish` and `LoadRows`, `LoadIndex`). A step that fails with an error
changes nothing, and is not an action. Every file is replaced by a rename, so a
torn file is not a state; `.tmp` files and the `.clearing` directory are never
read, and left out.

`HistoryView` adds the webview: the `view` shown, the `answers` under way, the
`records` of the detail pane and the `get` that fetches one. Commands wait for the
writer and answer in any order; the process takes the webview with it. A reload
of the page alone is not modelled: a page that reloads while its record is being
written shows the record with the next page.

### HistoryRecord

How a call can end in the webview (`UnaryFinishes`, `StreamFinishes`, ...), the
outcome `buildRecord` makes of it, what `fit_budget` leaves of that, and the row
`summary` reads from it. A JSON text is its size, so that the budget is met below,
at and above its bound.

### SaveQueue, EnvSync and EnvEditor

The pure halves of the editor are operators, as they are pure functions in the
code: `SaveQueue` is `stepQueue` and `queueStatus`, `EnvSync` is `planSync`,
`planDelete`, `afterSync` and the effect of each command on the store. A footprint
is what a lane knows to be its own in the store, its name, place and strays.

`EnvEditor` is the state machine around them. `lanes[i]` is an `EnvLane` (footprint,
draft, queue, and the names it has last seen), `byName` the module's `Map` of them,
`pane` the session and what is left of the controller (which lane it shows, the
delete dialog, the save timer, where it is going while a clean-up runs), `tail` the
jobs chained on `syncTail`, `envs` the list in `WorkflowEnvControl`. JavaScript
runs from one await to the next without interruption and through all of these, so
they are passed on as one record: `Put` is `advance` (the lane, its name in the
Map, the job it sends), `SetEnvs` the effect that shows a new list to the lane,
`Attach` is `laneFor` and what follows it, and `Become` makes the end of a chain
the next state. A job observes the store when its turn comes and then takes one
command per step, any of which may fail; the calls nobody awaits (`envList` after a
store, `envActiveSet` of the switcher and of `onStored`) interleave freely with all
of it.

Simplifications: an open field counts as applied when it is left, because the code
commits it on the way to any other intent; a variable list is a value and whether
it is wrong (`VarTable` is what these two stand for); `observe` reads list and selection at once (both change only through
the tail, except by the switcher); the drag that reorders the list is left out.
Core's env commands are one step each, `env_active_set` excepted when it is not
awaited: there the check and the write are two.

### VarTable

`table` is the `EditorState` of one stored environment without its name and colour:
rows with their ids, the open `field`, the row being `adding`, `undo`, the query, the
`hold` on the layout, the rows shown anyway, and the queue of `SaveQueue`. `OnScreen`
is `viewRows` over `project`: what is filtered and sorted, or held where it was.
Keys are numbers in the collator's order and a query is the set of keys it matches,
so that a key can move in and out of a search as it is typed.

The focus decides when the layout is held and released. `inside` is whether it is in
the table's region; an open cell is committed by its blur before the region hears
of it, and the region hears of nothing when the element that had the focus leaves
the page: `FocusLost` is either. A delete is a press: it takes the focus, so what is
open is committed, and the region, which can have the focus itself (`tabIndex` -1), holds
the layout before the row goes. `deleteRow` alone does not: with an older layout still
held, for another sort, a row deleted, filtered and brought back could come back
hidden. The proof of `WorkIsOnScreen` rests on the press coming first. `SalvagedRows` is what `salvage` makes of a draft
that cannot be written. `fresh`, the rows added or brought back during this search,
is history.

Left out: the name and the colour (an unsound name is salvaged in the same place, to
the acknowledged one) and two rows of one key in the store.

## 3. The runs

| Run | Checks | Bounds |
|---|---|---|
| `stream_safety` | wire order; store, wire and events agree; sends are honest; nobody is left parked; the refinement of `StreamProtocol` | 2 senders, 2 inbound messages, senders symmetric |
| `stream_live` | `HalfClosedIsBounded`, `CallStops` (after a cancel or a drop the body ends) | 1 sender, 1 message |
| `registry` | an id is in exactly one registry and nobody's cleanup touches another's entry; a cancel is on record until it takes effect, and reaches the attempt it was aimed at; a dead call is freed | 2 attempts under 1 id, the first named begins first |
| `lifecycle` | the webview's stores agree and steps show their call; one complete record per call; frozen terminal entries; a cancel ends the sending | 2 drafts of which the second is only opened in the place of the first, 2 calls; a two-way call only alone, with 1 message each way |
| `history` | restart and crash properties, the refinement of `CallLog`, the webview's page, and that what a record keeps fits and is the newest | 3 calls, a log of 2, 4 revisions; records of up to 4 rows and texts of up to 4 bytes, with room for 3 rows and 3 bytes |
| `env_editor` | jobs and lanes agree and "saved" is the last edit; an acknowledged write took effect, kept its place and left no stray; others are untouched; what is worked on is on the screen; leaving gives up nothing that is right | 2 stored names and a free one, 2 lanes; 2 edits and 2 openings, or 2 edits and 1 delete, or 1 edit, 1 opening, 1 delete and 1 selection; 1 failing command; 1 list under way when a job settles. Of the table: 2 stored variables, 2 keys and 2 values, 1 search, 2 sort modes, 3 turns |
| `token` | a refused token is forgotten and not spent again; a call is carried out at most once; an attempt carries one credential, and the rest as written | 3 calls, 1 configuration, 3 tokens, calls symmetric; requests of up to 2 rows; 147000 days |
| `contract` | a refresh sticks, answers with what the server had; the panel is current | 2 targets, 2 commands, 2 methods, 2 versions, targets and methods symmetric |
| `descriptors` | the crawl ends closed; the pools do not depend on an order and lose nothing they could keep; a schema is finite and closed | every server of up to 3 files, 2 types, 2 services; up to 2 files where only v1alpha is served |
| `resolve` | the verdict is right: what settles is expanded, what fails is explained, by reachability | 3 names and a built-in, values of up to 2 references, 2 passes, 3 shapes of request; where a variable has the built-in's name, values of up to 1 reference |
| `catalog` | both sides agree and every tree is sound; no item is lost; a drop keeps folders first | 3 operations, 2 at a time, the third when two are over; a filtered drop only as the first; 3 import files, two of them with an item of the other kind; a second tree only for the import that leaves an id twice |
| `drafts` | edits reach core; what is not saved is kept; a method lands on its draft | 2 saved requests, a third to be made, 2 methods, 2 commands, five budgets |

Why the bounds are enough. Two senders are what it takes to interleave
`store_push` and `permit.send`, and to park one behind a full channel; two
messages are what it takes for an index to grow past an outbound row. Attempts
under different ids do not meet in the registries; two under one id make every
collision, and which of them begins first makes no difference. A run re-routes at
most once, so two calls cover it. Of two drafts one is replaced, wherever its calls are, and
the other need not be sent: no draft reads another's gate or run. Both versions of
the reflection service crawl alike, so the older is taken with two files. Three calls over a log of two are the fewest that evict, also
the one just recorded when it is the oldest; four revisions allow a record, a
clear and two more records in one life of the program, and lives are not bounded.
In the editor the second edit is what happens during, or after the failure of, the
first; two lanes meet in one name; one failing command leaves strays, and which of
a job's commands fails is free. Configurations share nothing in the token cache,
so one is enough; a third call is what stores or drops a token between the two
steps of two others, and of three tokens two calls share one and each gets one for its retry. Two
commands race on one target while the panel is at the other. Two passes make a
chain of two the longest that settles, so that three names have chains that are
too long, cycles with and without a tail, and a gap behind either. Three files
are a cycle beside, or a diamond with, an importer. Of the catalog's operations
only those on one collection meet; two overlap, and the third sees what they
left. A budget of the drafts covers one way of losing an edit: what takes two
edits, an opening and a failed command has them.
In the table two stored variables and one added are enough for a duplicate beside a
good row, and for a row that a search or a held layout hides; a turn is the beginning
of something (a cell, a search, a delete), and three of them are an edit that is in
flight, one that makes the draft unsound, and the leave, or a search, a cell and a row
added; what goes on in between (typing, committing, undoing, the store's answers) has
no bound. A record
of one row and one byte over the bound is trimmed in both ways. 147000 days reach
past the year 2370: every kind of century, and a whole era of the calendar.
What the user, the disk or the server may do for ever has a budget (`left`, `turns`,
`MaxVersion`, `begun`); what follows from it (retries, clean-ups, refreshes) has
none.

`CHECK_DEADLOCK FALSE` is set for CallLifecycle, ContractView, Descriptors, Drafts,
MCEnvEditor, TokenRetry and VarResolve: there the user may be idle after the bounded
number of calls or the budget is used up, or the crawl or session is over.

### Fairness

`StreamCall`: the tokio runtime polls a woken task, timers fire, and a caller that
has begun a synchronous section finishes it - weak fairness of the body, the
timer, each sender's steps, the two notifies and Drop. Nothing is assumed of the
server, of tonic, or of anybody calling anything, so `CallStops` holds with a
server that never answers. `CallRegistry`: a running command is polled, a callback
that has begun returns, a call without handle is aborted; the work itself may
never complete. `CallLifecycle`: core answers commands, promises settle, events
arrive, frames are drawn; the server may stream for ever. The other modules
state no fairness, their properties are safety.

### Known disagreements

What follows holds of the models and was confirmed with TLC on them; none of it is
a run, because each concerns a state the rest of the code copes with, or a
sentence that can be read more weakly. The named formulas are for a reader who
wants to see the counterexample; the ones in a module are beside its properties.

- A re-route after the draft was replaced starts its second attempt all the same.
  The stream is shown by no step, so nothing ever releases it (`releaseRule.ts:15`
  speaks of every id that is referred to).
- The snapshot of a unary call keeps the stream id its step showed before the
  dispatch (`callLifecycle.ts:175`), and a unary answer patches its draft by id,
  although the draft was meanwhile switched to a method whose last stream it now
  shows (`callLifecycle.ts:171`). `StepsShowTheirCall`, a part of `StoresAgree`, states
  what is left: it leaves out the ids that unary snapshots carry by the first, and looks
  at the draft only while the second cannot have struck: while the stream it shows is
  that of the last call it made, or it has made none (`ShowsLastCall`). A draft whose
  method was switched to a step of a later call of another draft needs three calls to
  be struck, and was found by the proof, not by the run.
- A release that arrives while the call is still opening finds nothing, and is not
  repeated (`releaseRule.ts:29`).
- A rename fails and the pane is left. The leave sends the rename once more and
  queues a clean-up behind it, but with the goal and footprint from before. The
  rename succeeds; the clean-up then stores the old name again and deletes the new
  one with the edit in it (`envEditor.ts:724`).
- A write can get behind the delete of its environment and bring it back
  (`NothingBehindDelete`, beside the properties of `EnvEditor`; found by the proof). A
  rename there and back is stored, the list of before is still the one the lane has
  seen, and the draft, made bad and sound again, is invalid because its own name is
  taken there: the lane is idle, and the delete is confirmed. Then the list arrives,
  the draft is valid, and the timer, which the dialog does not hold
  (`useEnvEditor.ts:345`, `envEditor.ts:372`), sends it. It takes two lists on their way; the
  run's bound is one. `DeleteKnowsItsNames` states what holds: no write of the lane is
  before the delete.
- Leaving a pane with an unsound draft goes back to what is acknowledged, not to the
  write under way (`envEditor.ts:669`). A variable is deleted, the write is on its way,
  another row is made unsound, the pane is left: the lane shows the deleted variable
  again, the write removes it from the store, and nothing is left to be sent
  (`DraftIsStored`). Its status stays "invalid" although the draft is sound again
  (699). A row being added is given up when anything else is wrong (663).
- The layout stays held when the element with the focus leaves the page, since no
  blur reaches the region (`VariablesTable.tsx:182`): a row that has become a
  duplicate, and that a search has hidden, may stay hidden with nobody in the table
  (`IssuesAreShown`).
- Two metadata rows whose keys differ only in case go on the wire as one, and which
  depends on the order of a hash map (`tonic_impl.rs:182`); a user's row may so win
  against the credential. HTTP compares names without case (`request.rs:112`).
- The invalidation after a rejection goes by configuration and not by token
  (`send.rs:40` says "the cached token behind this call's header"): it may drop the
  newer token another call has just stored. The cost is a fetch.
- A name that is missing behind a chain longer than `MAX_PASSES` is not reported as
  missing (`vars/mod.rs:48`); the request is not sent either.
- A variable of a built-in's name wins as long as the passes suffice
  (`vars/mod.rs:466`). What is left of it after the last pass is sorted among the
  built-ins by its name (188) and counts as resolved: `$guid = {{$guid}}`, or a chain of
  `MAX_PASSES` names that ends in a `$guid` of the user's, settles, and the literal is
  replaced by a generated value when it is sent. No cycle is looked for from it (87).
  `UserVariableWins`, beside the properties of `VarResolve`, says otherwise; without
  `TakenForBuiltin` all three parts of `VerdictIsRight` are violated.
- An import deletes: a request of the file with the id of a folder takes its place, and
  what was in the folder is gone unless the file has it (`tree.rs:193`, tested at 413,
  against "Nothing is ever deleted", `commands/bundle.rs:43`; `ImportDeletesNothing`).
  `StoreKeepsItems` allows an import just that.
- An import can leave an id twice: a folder of the file takes the place of a request and
  brings an item that the collection has elsewhere (`tree.rs:193`;
  `ImportKeepsIdsUnique`). From then on core edits the first (`find_item`) and the webview
  all of them (`mapItemsDeep`, `removeItemsDeep`), so the picture and the store may part
  (`CatalogMatchesStore` is violated without `doubled`).
- A duplicate that answers late replaces an unbound draft begun meanwhile, with what was
  typed in it, without asking (`FocusView.tsx:42`, whose comment speaks of bound drafts
  only). `UnsavedIsKept` leaves that out (`overtaken`) and is violated without.
- An edit made within 500 ms before a bound draft is replaced is never sent: the
  timer is dropped with its draft (`FocusView.tsx:39`, `discardGuard.ts:5`).
  `EditsArrive` counts it as `dropped` and states what holds of all others.
- What is typed while a skeleton is read is reset when it arrives
  (`actions.ts:107`).
- Two methods picked for one draft and answered out of order leave the older one;
  closing the Save dialog during its submit binds whatever is the draft by then;
  a bound draft opened from the history shows content that is not stored, and the
  next patch of any kind saves it; a submit that failed half-way and is tried again
  makes its new collection or folder twice.
- A drop made while the sidebar is filtered counts its index among the rows that
  are shown, and may put a request above a folder that is hidden
  (`CollectionTree.tsx`, against `dnd.ts:105`): `FoldersOnTop` says otherwise,
  `DropKeepsFolders` leaves the filter out.

Hazards that no property covers (`PROJECT.json` lists the most important): a
lane judged against a list that is not yet read after a rename there and back; the
timer dropped with its pane while the queue's is not; a selection of an environment
just deleted; a get, edit and upsert of a collection without a lock, where one
command loses the other's edit; the rollback of the whole picture; a message
accepted by the channel and lost to the wire when the stream ends first (by design;
`NothingLostWhileOpen` says what holds while the receiver lives); a row stored by
core after the webview's entry was frozen.

Two smaller facts that the comments in `stream.rs` state more strongly: an event
that is past its check when `cancel` returns is still delivered (the "muting" mode
of `StreamProtocol`); and two reads of a contract that overlap a refresh may put an
older one back (`contract_read.rs:72`), or leave mirror and file apart
(`file_contract_cache.rs:138`) until the next write.

## 4. The proofs

`StreamCall_proofs` proves, for any set of senders and any bound on inbound
messages (`MaxInbound \in Nat` is the only assumption):

- `Invariance`: `Spec => []IInv`, from which follow
- `TypeCorrect`, `WireOrder`, `HonestSend`, `EventRows`,
  `NoSenderStuck`, `StoreIsRight`: `TypeOK`, `WireInStoreOrder`, `SendIsHonest` (with
  its parts `SendIsAllOrNothing` and `LateSendRefused`), `EventsReadable`,
  `NobodyLeftParked` and `StoreAgrees`, and
- `Refinement`: `Spec => ImplementsProtocol`, every step of the call is a step of
  `StreamProtocol` or leaves its log and mode alone.

None of the properties is inductive. `IInv` adds: at most one sender holds the
channel's only permit, and then the channel is empty (`SlotInv`, what the order
on the wire rests on); rows and acks determine each other (`RowInv`); wire, then
channel, then the sender between its two steps, have growing indices (`WireInv`);
what has closed the outbound side stays visible (`LateInv`); whoever waits after
the wake-up has received it (`WakeInv`); and the body's place determines how far
the log has got (`GrammarInv`, for the refinement). Each conjunct has a lemma that
a step preserves it, split by who makes the step; four frame lemmas say what each
kind of step leaves alone.

`CallRegistry_proofs` proves, for any attempts under any ids (`None` being no attempt),
`Invariance`, `ExactlyOne` (`ExactlyOneRegistry`) and `CancelFinds`
(`CancelFindsItsCall`: that, and `CancelOnRecord`). What makes them inductive is where an entry's attempt can be:
in `in_flight` only while its work races the cancel (`InFlightIsRacing`), in the
stream registry only from the hand-off on (`StreamsAreHandedOver`), and in `in_flight`
only the latest under its id, which has begun (`LatestHasBegun`). `CancelOnRecord`
follows a cancel from permit to raced flag to cancelled call; that something then
comes of it (`CancelReachesCall`) is liveness and TLC's.

`CallLifecycle_proofs` proves, for any number of drafts, calls and messages and any
kinds, in two layers:

- `Invariance`: `Spec => []CallInv`, with `OneRecordPerCall` (`OneFullRecord`),
  `LiveCallsAreLive` (`LiveCallsAgree`) and `EntriesFreeze` (`TerminalIsFrozen`). The
  argument is by call: `Sound` says of one call how its entry, its queue, `liveCalls`,
  its record and the rows shown go together, and every operator of the model (`Told`,
  `Flushed`, `Settle`, `AfterStore`, `Attempt`) keeps that of every call, whatever it
  is handed. `AfterStoreKeeps` does the release rule once for all actions.
  `OneFullRecord` alone is not inductive: a record is complete because what a live
  entry has and what waits for it is what was shown (`RowsAreShown`), and a call is
  recorded once because an outcome comes only with its command's answer and before it
  opened (`OpensWithAnswer`).
- `StepInvariance`: `Spec => [](CallInv /\ StepInv)`, with `StoresStayTogether`
  (`StoresAgree`). `StepInv` is about the draft, the snapshots and the attempts:
  ids are made in order and for a draft (`OwnersAreKnown`), an attempt is under way
  until its answer was taken and is its draft's last (`RunIsCurrent`), what snapshots and attempts refer
  to is over (`IdsArePast`), and a live call of the draft shown is the one it shows
  (`DraftShowsItsOwn`). The actions fall into four shapes, each a lemma: nothing
  the steps can see changes (`QuietStep`), the draft is replaced by a seeded one
  (`ReplacedStep`), an attempt begins (`AttemptSteps`), something comes of a call
  (`PatchedStep`).

`History_proofs` proves of `HistoryLog`, for any `HISTORY_CAP` above zero and any number of
calls, `Invariance` and from it `TypeCorrect`, `RestartShowsThePage`,
`AppendAtomicity` (`TypeOK`, `PageSurvivesRestart`, `AppendIsAtomic`), and
`Refinement`: `Spec => ImplementsLog`. The invariant says, for every place the
writer can be at, what a load would list at that instant; `PageSurvivesRestart`
alone is not inductive because an append passes through states whose page is
old. The argument is about `Newest` and not about the steps: any set between
`Newest(S)` and `S` has the same newest calls as `S` (`NewestOfBetween`), which is
why it does not matter which of the best-effort steps take effect; and adding a
call to a set and to its newest ones gives the same newest calls
(`NewestAfterAdding`). The first looks at the newest call that was lost (`Extremes`, where
the finiteness of `Calls` is used): everything newer than it is still there, so it
would have been among the newest itself.

Of the composition `HistoryView` it proves `ViewInvariance`, `ViewShowsTheLog`
(`ViewIsCurrent`), and that the properties of the store hold in it too, refinement
included (`ViewedLogSurvives`, `ViewedLogRefines`: a step of the webview changes
nothing of the store's). A revision stands for one page, whatever page is on its way
core has reached, and the newest is among them (`NewestIsKnown`): so the last answer
taken, which `keepNewest` compares by revision, is the log's.

`TokenRetry_proofs` proves, for any calls, configurations and number of tokens,
`Invariance`, `Forgotten` (`RefusedStaysRefused`) and `AtMostOnce`. What has to be
added is where a token can still be: whatever is in the cache, a header or an
answer on its way has been issued before (`TokensAreKnown`); what is on its way to
be stored nobody has been refused with, the provider not issuing a token twice
(`OnItsWay`); a call spends the token of its own configuration and holds it from
header to verdict (`OneConfig`, `HeaderInHand`); and a call that may still make an
attempt has not been carried out (`NotActedYet`).

`Contract_proofs` proves of `ContractCache`, for any targets, commands and versions,
`Invariance`, `Sticks` (`RefreshSticks`) and `FreshAnswer` (`RefreshIsFresh`). The
invariant follows a refresh that began alone point by point (`RefreshSoFar`): once
it has removed the file, what comes back to disk, mirror or answer is no older
than what the server had when it began; and what a command has just reflected is
never older than the floor of its target (`CarriedIsFresh`), because floors are
raised to what a server once had and servers only go forward (`DeployedSince`).

Of the composition `ContractView` it proves `PanelInvariance`, `PanelTellsTheTruth`
(`PanelIsCurrent`), and that a refresh still sticks and is fresh with the panel's
reads among the commands (`ViewedRefresh`). The panel loads only while it awaits the
read it last began (`LoadingIsAwaiting`), and what it shows is an answer for the
address it has (`AnswerIsShown`), because an address change begins a generation.

Of `Descriptors` it proves `ReflectInvariance`, and from it `CrawlEndsClosed`,
`PoolsAreSettled` and `SchemaEndsClosed` (`CrawlIsClosed`, `PoolSetIsSettled`,
`SchemaIsClosed`), for any server of finitely many files with a name each, and finitely
many types (`CorporaAssumption`). In the crawl, what was requested is what has come and
what is queued, with every import of what has come among it (`CrawlSoFar`): an empty queue
is a closed set. The pools are shown to depend on the set of files alone. The order of the hash map is any
numbering of the files (`OrdersAreOnto`); the lists the pools are made of are sorted by name,
and a finite set has such a list, each place being the number of names up to it
(`ByNameLists`). What a pool then holds is said by closure, without order
(`ClosureParts`, `IsolatedParts`, `PoolSetParts`), and catalog and calls both take the
first pool that declares a service (`CopiesAgree`). In the walk through a schema, what
was visited is the schema and what is pending (`WalkGoesOn`), and no reference leaves
the pool (`RefersInPool`).

`Editing_proofs` proves of `Drafts`, for any methods, stored requests, number of commands under way
and budget of the user, `Invariance`, `EditsReachCore` (`EditsArrive`), `UnsavedStays`
(`UnsavedIsKept`) and `MethodLands` (`MethodFindsItsDraft`). An edit is in the tree, or in
the bound draft with its timer armed (`WantedIsHeld`); of a request whose commands did
not overlap at most one is under way and carries what the tree shows, and without one
core has it (`OneCommand`); a dialog's submit, and a duplicate, come back to another
draft than they began with if that is bound (`SubmitsApart`); only the answer that the
gate waits for closes it (`GateIsHeld`); and a skeleton's read knows the draft it was
begun for by its identity, not by its binding (`ReadsKnowTheirDraft`). The
assumptions say that the constants standing for nothing are nothing else, and that
what is stored at the start are contents.

Of `VarTable` it proves, for any keys, values, stored variables of distinct names,
searches and number of turns (`TableAssumption`), `TableInvariance`, `WorkStaysOnScreen`
(`WorkIsOnScreen`) and `LeaveGivesUpIssues` (`LeaveKeepsVariables`). Ids come from a counter
and rows keep theirs (`RowsAreApart`); what is stored or being written is sound
(`GoalsAreSound`); the row being added and the one that can be brought back are
neither in the draft nor hidden by a held layout, be it one of another
sort (`OthersAreApart`). `WorkIsOnScreen` is not inductive because the screen is
computed: what keeps a row on it is that the held layout does not hide it (`WorkIsHeld`),
or that no search does (`FreshIsShown`). The argument is by operator: each keeps
the table sound whatever it is handed (`CommitFieldKeeps`, `CommitAddingKeeps`,
`HoldKeeps`, `SoundTableKeeps`). What is sorted or filtered is listed by counting how many
come before (`InOrderLists`, `FilteredParts`), the prover having no induction. Of salvage it
says that the ids it mints differ from each other and from all others, and that
every good row and every acknowledged variable is in what it makes
(`SalvagedParts`).

`EnvEditor_proofs` proves, for any names, contents, lanes and budgets and any initial
store without a name twice, `Invariance` and from it `LanesMatch` (`LanesMatchTail`).
An action is a chain of operators over the record that lanes, Map, tail, pane and
list share; so the argument is by operator: each keeps `WellFormed` of that record,
whatever it is handed (`PutKeeps`, `SetEnvsKeeps`, `AttachKeeps`, `LeaveNowKeeps`,
`BecomeKeeps`), and an action's lemma only puts the chain together. What `LanesMatchTail`
needs besides itself: in a queue, what is acknowledged and what is in flight are never
newer than the head, and of the same revision only if the same (`QueueOK`); what Map,
pane and tail refer to is a lane in use (`Linked`), so that no lane is garbage while a job
will report to it; a clean-up or a delete is the pane's, and the pane waits for it
(`PaneJobs`). Of core's store it proves that no command of a plan, whatever lanes wrote in
between, puts a name in it twice (`StoreAfterKeeps`); a reorder is accepted by length and
set of names, and that these make it a permutation is a counting argument
(`ReorderKeeps`). That a plan is made of commands of core at all rests on `EveryOrder`: the
elements of a sequence that are in a set can be put in its order, which is shown by the
least number that cannot, the prover having no induction.

From these it proves what a job does to core's store: `WritesTakeEffect`
(`WriteTookEffect`) and `OthersStay` (`OthersUntouched`). The plan is made once and runs
over several steps, between which the user edits, lists come in and other calls
settle; so the invariant (`HeadActs`) is about what is left of the plan of the job that
runs, on the store as it then is. `StepsAreMine`: what is left upserts the goal, deletes the
footprint's names, and reorders so that any two names of others keep their order.
`EndsWell`: the goal is there once its upsert ran, every other name of the footprint
that is still there is yet to be deleted, and the names as the last step will leave
them (`Wanted`: the reorder's, or what the deletes leave) have the goal where the plan said.
The plan establishes both (`PlanWriteActs`), each command keeps them for the rest
(`ActsGoesOn`), and nothing else touches the store or the first job (`Extends`: other
actions put only jobs behind it that have not begun). Order is a relation on the
elements, `Before`: each operator of the plan says what it does to it (`KeptOrder`,
`RemoveOrder`, `InsertOrder`, `AppendOrder`), and two sequences without
repetition that have the same elements in the same order are one (`SameSequence`).

Only model-checked: every liveness property (the prover has no ENABLED); what
recursive operators compute (`VerdictIsRight` of `VarResolve`; the tree edits of `ItemTree`,
and with them the properties of `Catalog`, whose state is such trees); and what the
folds of `Outbound` and `HistoryRecord` compute (`SentIsAsMeant`, `BodiesAreFit`).

## 5. Plan

In this order: that a save ends, under fairness, for one lane (TLC); `runHttp`; the
split of an address into a target; the recents.

## 6. Not modelled, and why

Transport, codec, invoke, and the URL and body of an HTTP request, convert data and
keep no state (the headers and metadata of a request are in `Outbound`).
IPC types and bindings are mirrors, partly generated. Body view, editors, shell,
settings, splash and updater are presentation. The file format of import and
export and the assembly of stream rows to a document are one-shot conversions.
They are listed in `PROJECT.json` with their reasons. Much of the repository is of this
kind: components and dialogs of the webview, its message catalogue, the design
handoff, generated bindings. What is mapped is therefore a small share of all lines.
