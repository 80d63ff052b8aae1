----------------------------- MODULE Descriptors -----------------------------
(***************************************************************************)
(* How a server's contract is found and assembled: the reflection crawl    *)
(* (crates/handshaker-core/src/grpc/reflection), the pools built from what *)
(* it found (grpc/descriptor.rs), the catalog over them (grpc/catalog) and *)
(* the flat schema of one message (grpc/invoke/schema.rs).                 *)
(*                                                                         *)
(* A file has a name, the names it imports and, for every type or service  *)
(* it declares, the types that one refers to.  Names are numbers, ordered  *)
(* as the code orders strings.                                             *)
(***************************************************************************)
EXTENDS Naturals, SequencesExt

CONSTANTS
  Names,     \* file names
  Types,     \* full names of messages
  Services,  \* full names of services
  Corpora    \* the sets of files a server may have

VARIABLES
  corpus,    \* the server's files
  version,   \* the reflection version asked: "v1" or "v1alpha"
  phase,     \* "list", "symbols", "crawl", "assemble", "describe", "done", "failed"
  listed,    \* the services of pass 1
  byName,    \* by_name: the files received
  queue,     \* names to ask for in the next session
  requested, \* names never to queue again
  asked,     \* history: the names each session of the crawl asked for
  pools,     \* PoolSet::pools, each the set of its files
  byService, \* PoolSet::by_service
  schema,    \* the messages of a schema, in order
  pending,   \* messages queued for it
  visited    \* messages queued ever

crawl == <<version, listed, byName, queue, requested, asked>>
shape == <<schema, pending, visited>>
reflectVars == <<corpus, phase, crawl, pools, byService, shape>>

Declares(f) == DOMAIN f.refs
Uses(f) == UNION {f.refs[s] : s \in Declares(f)}
Declared(files) == UNION {Declares(f) : f \in files}
NamesOf(files) == {f.name : f \in files}
ImportsOf(files) == UNION {f.deps : f \in files}

\* Names reached from ns by imports, ns included: what is in every set that has ns
\* and the imports of its files.
Imported(files, ns) ==
  LET closed == {r \in SUBSET Names : ns \subseteq r /\ \A f \in files : f.name \in r => f.deps \subseteq r}
  IN  {n \in Names : \A r \in closed : n \in r}

\* The files that f reaches, f among them.
Reached(files, f) == {g \in files : g.name \in Imported(files, {f.name})}

ByName(files) ==
  CHOOSE o \in SetToSeqs(files) : \A i, j \in DOMAIN o : i < j => o[i].name < o[j].name

\* A server's files: a name stands for one file, and messages refer to messages.
ServedFiles(files) ==
  /\ IsFiniteSet(files)
  /\ \A f \in files : f.name \in Names /\ f.deps \subseteq Names /\ Uses(f) \subseteq Types
  /\ \A f, g \in files : f.name = g.name => f = g

ASSUME CorporaAssumption ==
  /\ Names \subseteq Nat /\ IsFiniteSet(Types)
  /\ \A files \in Corpora : ServedFiles(files)

-----------------------------------------------------------------------------
(* The crawl: each session sends a batch and drains the answers. *)

\* The answers to the asked files.  A server answers with the file, or with the
\* file and all it imports.
Session(files) ==
  {files \cup {g \in corpus : g.name \in Imported(corpus, NamesOf(whole))} : whole \in SUBSET files}

\* Mutant: a name is marked when its file arrives, not when it is queued.
BugTakeFiles(files) ==
  /\ byName' = byName \cup files
  /\ requested' = requested \cup NamesOf(files)
  /\ queue' = ImportsOf(files) \ requested

\* The files of one session: what they import and nobody asked for is queued.
\* A file that comes after the one that imports it is asked for once more.
TakeFiles(files) ==
  /\ byName' = byName \cup files
  /\ requested' = requested \cup NamesOf(files) \cup ImportsOf(files)
  /\ LET new == ImportsOf(files) \ requested IN
       \E early \in SUBSET (new \cap NamesOf(files)) : queue' = new \ early

StartOver(v) ==
  /\ version' = v /\ phase' = "list"
  /\ listed' = {} /\ byName' = {} /\ queue' = {} /\ requested' = {} /\ asked' = <<>>

\* A session fails.  Unimplemented, of v1, starts over with v1alpha.
SessionFails ==
  /\ phase \in {"list", "symbols", "crawl"}
  /\ \/ phase' = "failed" /\ UNCHANGED crawl
     \/ version = "v1" /\ StartOver("v1alpha")
  /\ UNCHANGED <<corpus, pools, byService, shape>>

\* Pass 1: list_services; an empty list is an error.
ListServices ==
  /\ phase = "list"
  /\ listed' = Declared(corpus) \cap Services
  /\ phase' = IF listed' = {} THEN "failed" ELSE "symbols"
  /\ UNCHANGED <<corpus, version, byName, queue, requested, asked, pools, byService, shape>>

\* Pass 2: file_containing_symbol of every service.
FetchSymbols ==
  /\ phase = "symbols"
  /\ \E found \in {p \in [listed -> corpus] : \A s \in listed : s \in Declares(p[s])} :
       \E files \in Session({found[s] : s \in listed}) : TakeFiles(files)
  /\ phase' = "crawl"
  /\ UNCHANGED <<corpus, version, listed, asked, pools, byService, shape>>

\* file_by_filename for the whole queue; a name the server lacks is an error.
CrawlBatch ==
  /\ phase = "crawl" /\ queue # {}
  /\ asked' = Append(asked, queue)
  /\ IF queue \subseteq NamesOf(corpus)
     THEN \E files \in Session({f \in corpus : f.name \in queue}) :
            TakeFiles(files) /\ UNCHANGED phase
     ELSE phase' = "failed" /\ UNCHANGED <<byName, queue, requested>>
  /\ UNCHANGED <<corpus, version, listed, pools, byService, shape>>

Crawled ==
  /\ phase = "crawl" /\ queue = {}
  /\ phase' = "assemble"
  /\ UNCHANGED <<corpus, crawl, pools, byService, shape>>

-----------------------------------------------------------------------------
(* The pools; once built they do not change. *)

\* DescriptorPool::add_file_descriptor_protos: imports are there, references
\* resolve in what a file imports, and no symbol is declared twice.
Builds(files) ==
  /\ files # {}
  /\ \A f \in files :
       /\ f.deps \subseteq NamesOf(files)
       /\ \A g \in files \ {f} : Declares(f) \cap Declares(g) = {}
       /\ Uses(f) \subseteq Declared(Reached(files, f))

\* service_closure: the root, then the rest by name.
Closure(files, root) ==
  <<root>> \o ByName({f \in files : f.name \in Imported(files, root.deps)} \ {root})

\* owner, in prune_duplicate_symbols: the first of the files that declares s.
Owner(files, s) == Min({i \in DOMAIN files : s \in Declares(files[i])})

\* prune_duplicate_symbols: the first file keeps a symbol, the others import it.
Prune(files) ==
  LET Keeps(i) == {s \in Declares(files[i]) : Owner(files, s) = i}
      Owners(i) == {files[Owner(files, s)].name : s \in Declares(files[i]) \ Keeps(i)}
  IN  [i \in DOMAIN files |-> [name |-> files[i].name,
                               refs |-> Restrict(files[i].refs, Keeps(i)),
                               deps |-> files[i].deps \cup Owners(i)]]

\* The pool of one root: its closure, else its closure pruned, else nothing.
Isolated(files, root) ==
  LET closure == Closure(files, root)
      pruned  == ToSet(Prune(closure))
  IN  IF Builds(ToSet(closure)) THEN ToSet(closure) ELSE IF Builds(pruned) THEN pruned ELSE {}

\* A file that declares a service and can be assembled.
Salvaged(files, f) == Declares(f) \cap Services # {} /\ Isolated(files, f) # {}

\* Mutant: in the order they came.
BugRoots(files) == SelectSeq(files, LAMBDA f : Salvaged(ToSet(files), f))

\* The roots of pools, by name.
Roots(files) == ByName({f \in ToSet(files) : Salvaged(ToSet(files), f)})

\* build_pool_set, of the files in the order the crawl's map hands them over.
BuildPoolSet(files) ==
  LET roots == Roots(files) IN
  IF Builds(ToSet(files)) THEN <<ToSet(files)>>
  ELSE [i \in DOMAIN roots |-> Isolated(ToSet(files), roots[i])]

\* PoolSet::push: the first pool that declares a service keeps it.
IndexServices(set) ==
  [s \in Services \cap UNION {Declared(set[i]) : i \in DOMAIN set} |->
     Min({i \in DOMAIN set : s \in Declared(set[i])})]

Orders(files) == SetToSeqs(files)

Assemble ==
  /\ phase = "assemble"
  /\ \E files \in Orders(byName) : pools' = BuildPoolSet(files)
  /\ byService' = IndexServices(pools')
  /\ phase' = IF pools' = <<>> THEN "failed" ELSE "describe"
  /\ UNCHANGED <<corpus, crawl, shape>>

\* build_catalog: the services of all pools, sorted (stably) by name; of equal
\* names the first stays.  The entries are <<service, pool>>.
Catalog ==
  LET entries == UNION {{<<s, i>> : s \in Declared(pools[i]) \cap Services} : i \in DOMAIN pools}
  IN  {e \in entries : \A d \in entries : d[1] = e[1] => e[2] <= d[2]}

-----------------------------------------------------------------------------
(* build_schema of one message in the pool of a service. *)

Refers(pool, t) == UNION {f.refs[t] : f \in {g \in pool : t \in Declares(g)}}

\* find_method and the root of its input or output.
Describe ==
  /\ phase = "describe" /\ visited = {}
  /\ \E s \in DOMAIN byService : \E t \in Refers(pools[byService[s]], s) :
       /\ visited' = {t} /\ pending' = <<<<byService[s], t>>>>
  /\ UNCHANGED <<corpus, phase, crawl, pools, byService, schema>>

\* Mutant: enqueue_message does not look whether the message was queued.
BugEnqueue(pool, t) == SetToSeq(Refers(pool, t))

\* enqueue_message for every field of t.
Enqueue(pool, t) == SetToSeq(Refers(pool, t) \ visited)

\* The bound on the schema's length only cuts off a walk that repeats itself.
Emit ==
  /\ phase = "describe" /\ pending # <<>> /\ Len(schema) <= Cardinality(Types)
  /\ LET i == Head(pending)[1]
         t == Head(pending)[2]
         new == Enqueue(pools[i], t)
     IN  /\ schema' = Append(schema, t)
         /\ visited' = visited \cup ToSet(new)
         /\ pending' = Tail(pending) \o [k \in DOMAIN new |-> <<i, new[k]>>]
  /\ UNCHANGED <<corpus, phase, crawl, pools, byService>>

Described ==
  /\ phase = "describe" /\ visited # {} /\ pending = <<>>
  /\ phase' = "done"
  /\ UNCHANGED <<corpus, crawl, pools, byService, shape>>

-----------------------------------------------------------------------------
ReflectInit ==
  /\ corpus \in Corpora
  /\ version = "v1" /\ phase = "list"
  /\ listed = {} /\ byName = {} /\ queue = {} /\ requested = {} /\ asked = <<>>
  /\ pools = <<>> /\ byService = [s \in {} |-> 0]
  /\ schema = <<>> /\ pending = <<>> /\ visited = {}

ReflectNext ==
  \/ SessionFails \/ ListServices \/ FetchSymbols \/ CrawlBatch \/ Crawled
  \/ Assemble \/ Describe \/ Emit \/ Described

ReflectSpec == ReflectInit /\ [][ReflectNext]_reflectVars

-----------------------------------------------------------------------------
(* The inductive invariant. *)

AskedApart == \A i, j \in DOMAIN asked : i < j => asked[i] \cap asked[j] = {}

\* What was requested has come or is queued, every import of a file that came among it;
\* what a session asked for has come.
CrawlSoFar ==
  /\ corpus \in Corpora /\ byName \subseteq corpus
  /\ queue \subseteq Names /\ asked \in Seq(SUBSET Names) /\ AskedApart
  /\ phase # "failed" =>
       /\ requested = NamesOf(byName) \cup queue
       /\ ImportsOf(byName) \subseteq requested
       /\ \A i \in DOMAIN asked : asked[i] \subseteq requested \ queue
  /\ phase \in {"list", "symbols", "assemble", "describe", "done"} => queue = {}
  /\ phase \in {"crawl", "assemble", "describe", "done"} => listed \subseteq Declared(byName)

PoolsSoFar ==
  phase \in {"describe", "done"} =>
    /\ \E files \in Orders(byName) : pools = BuildPoolSet(files)
    /\ byService = IndexServices(pools)

\* The messages queued ever are those of the schema and those pending, all declared
\* in pool i; what a message of the schema refers to was queued.
WalkIsIn(i) ==
  /\ visited \subseteq Declared(pools[i])
  /\ visited = ToSet(schema) \cup {pending[k][2] : k \in DOMAIN pending}
  /\ \A k \in DOMAIN pending : pending[k][1] = i
  /\ \A t \in ToSet(schema) : Refers(pools[i], t) \subseteq visited

WalkSoFar ==
  /\ schema \in Seq(Types) /\ pending \in Seq(Nat \X Types)
  /\ IsInjective(schema)
  /\ \A k, l \in DOMAIN pending : pending[k][2] = pending[l][2] => k = l
  /\ \A k \in DOMAIN schema, l \in DOMAIN pending : schema[k] # pending[l][2]
  /\ visited = {} => schema = <<>> /\ pending = <<>>
  /\ visited # {} => phase \in {"describe", "done"} /\ \E i \in DOMAIN pools : WalkIsIn(i)
  /\ phase = "done" => visited # {} /\ pending = <<>>

ReflectInv == CrawlSoFar /\ PoolsSoFar /\ WalkSoFar

-----------------------------------------------------------------------------
\* The crawl ends with a file for every service listed and every import of a
\* file it has, and asks for no name twice however the files import each other,
\* so that it needs at most one session per file.
CrawlIsClosed ==
  /\ AskedApart
  /\ phase \in {"assemble", "describe", "done"} =>
       /\ listed \subseteq Declared(byName)
       /\ ImportsOf(byName) \subseteq NamesOf(byName)

\* A file that can be assembled with what it imports keeps its services,
\* whatever the rest of the corpus is like, and a service is only served from
\* a pool that holds it and can be built.
ServiceIsSalvaged ==
  phase = "describe" /\ visited = {} =>
    /\ \A f \in byName :
         Builds(Reached(byName, f)) => Declares(f) \cap Services \subseteq DOMAIN byService
    /\ \A s \in DOMAIN byService :
         LET pool == pools[byService[s]] IN Builds(pool) /\ s \in Declared(pool)

\* The order in which the crawl's map hands the files over decides nothing, and
\* the catalog shows of each service the copy that calls use.
CopyIsSettled ==
  phase = "describe" /\ visited = {} =>
    /\ \A files \in Orders(byName) : BuildPoolSet(files) = pools
    /\ Catalog = {<<s, byService[s]>> : s \in DOMAIN byService}

\* The pools keep what can be kept, the same whatever the order.
PoolSetIsSettled == ServiceIsSalvaged /\ CopyIsSettled

\* The schema has no message twice, however messages contain each other, so that
\* its walk ends; it ends with every message its messages refer to, all of them
\* in one pool.
SchemaIsClosed ==
  /\ IsInjective(schema)
  /\ phase = "done" =>
       \E i \in DOMAIN pools : \A t \in ToSet(schema) :
            t \in Declared(pools[i]) /\ Refers(pools[i], t) \subseteq ToSet(schema)

=============================================================================
