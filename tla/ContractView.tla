----------------------------- MODULE ContractView -----------------------------
(***************************************************************************)
(* The contract as the call panel sees it                                  *)
(* (src/features/workflow/useContractRead.ts) over the cache of            *)
(* ContractCache, joined by the grpc_contract_read command.  A change of   *)
(* what is read waits 400 ms, a change of method reads at once; answers    *)
(* come in any order.  The panel lives and dies with the process.          *)
(*                                                                         *)
(* The address stands for all that decides the target: template, tls,      *)
(* collection and environment.                                             *)
(***************************************************************************)
EXTENDS ContractCache

CONSTANT Methods  \* the methods the panel may focus

ASSUME NoneAssumption ==
  None \notin Targets \cup Ops \cup Methods \cup [target : Targets, version : Nat]

VARIABLES
  addr,      \* the target of addressTemplate, None when blank or not enabled
  method,    \* methodKey
  fetched,   \* fetchedKey
  timer,     \* whether the debounce timer is armed
  current,   \* the read of this generation
  reads,     \* the reads not settled, each with its methodKey
  inFlight,  \* the read that cancel cancels
  cancels,   \* the reads cancelled
  loading, error, catalog, held,
  gaveUp     \* history: the last answer shown was that of a cancel

read == <<current, reads, inFlight, cancels>>
shown == <<loading, error, catalog, held, gaveUp>>
view == <<addr, method, fetched, timer, read, shown>>
allVars == <<vars, view>>

NotShown == loading' = FALSE /\ error' = FALSE /\ catalog' = None /\ held' = None /\ gaveUp' = FALSE

\* run and the effect without an address: a generation that reads nothing.
Blank ==
  /\ current' = None
  /\ NotShown
  /\ UNCHANGED <<vars, reads, inFlight, cancels>>

\* run of target t and method m.
Run(o, t, m, force) ==
  /\ Begin(o, t, force)
  /\ current' = o /\ inFlight' = o
  /\ reads' = [reads EXCEPT ![o] = m]
  /\ loading' = TRUE /\ error' = FALSE /\ gaveUp' = FALSE
  /\ UNCHANGED <<cancels, catalog, held>>

Arm == timer' = TRUE

\* The effect after a render with target a and method m.
Effect(a, m) ==
  /\ addr' = a /\ method' = m
  /\ \/ a = None /\ timer' = FALSE /\ fetched' = fetched /\ Blank
     \/ /\ a # None /\ fetched # m
        /\ timer' = FALSE /\ fetched' = m
        /\ \E o \in Ops : Run(o, a, m, FALSE)
     \/ /\ a # None /\ fetched = m
        /\ Arm
        /\ UNCHANGED <<fetched, vars, read, shown>>

ChangeAddress == \E a \in Targets \cup {None} : Effect(a, method)

ChangeMethod == \E m \in Methods \ {method} : Effect(addr, m)

Debounced ==
  /\ timer
  /\ timer' = FALSE
  /\ \E o \in Ops : Run(o, addr, method, FALSE)
  /\ UNCHANGED <<addr, method, fetched>>

Refresh ==
  /\ IF addr = None THEN Blank ELSE \E o \in Ops : Run(o, addr, method, TRUE)
  /\ UNCHANGED <<addr, method, fetched, timer>>

Cancel ==
  /\ inFlight # None
  /\ cancels' = cancels \cup {inFlight}
  /\ UNCHANGED <<vars, addr, method, fetched, timer, current, reads, inFlight, shown>>

\* Mutant: any answer is shown.
BugLive(o) == reads[o] = method

Live(o) == current = o /\ reads[o] = method

Outcome(o) ==
  \/ /\ ops[o].pc = "done"
     /\ catalog' = [target |-> ops[o].target, version |-> ops[o].found]
     /\ held' = [method |-> reads[o], target |-> ops[o].target, version |-> ops[o].found]
     /\ gaveUp' = FALSE /\ UNCHANGED error
  \/ /\ ops[o].pc = "failed"
     /\ catalog' = None /\ held' = None /\ error' = TRUE /\ gaveUp' = FALSE
  \/ /\ ops[o].pc = "cancelled"
     /\ gaveUp' = TRUE /\ UNCHANGED <<catalog, held, error>>

\* The answer of a read; one that is not live any more is ignored.
Settle(o) ==
  /\ reads[o] # None /\ ops[o].pc \in Over
  /\ reads' = [reads EXCEPT ![o] = None]
  /\ IF Live(o) THEN Outcome(o) /\ inFlight' = None /\ loading' = FALSE
     ELSE UNCHANGED <<inFlight, shown>>
  /\ UNCHANGED <<vars, addr, method, fetched, timer, current, cancels>>

\* A send reads the contract too; a command of either kind runs on its own.
Send(t) == (\E o \in Ops : Begin(o, t, FALSE)) /\ UNCHANGED view

Proceeds(o) ==
  /\ \/ RemoveFile(o) \/ Forget(o) \/ Get(o) \/ Persist(o) \/ Insert(o)
     \/ Fail(o, "failed")
     \/ o \in cancels /\ Fail(o, "cancelled")
  /\ UNCHANGED view

Deploys == (\E t \in Targets : Deploy(t)) /\ UNCHANGED view

\* A panel opens on any target and method, with its timer armed.
ViewInit ==
  /\ Init
  /\ addr \in Targets \cup {None} /\ method \in Methods
  /\ fetched = method /\ timer = (addr # None)
  /\ current = None /\ reads = [o \in Ops |-> None] /\ inFlight = None /\ cancels = {}
  /\ loading = FALSE /\ error = FALSE /\ catalog = None /\ held = None /\ gaveUp = FALSE

Reopens ==
  /\ Restart
  /\ addr' \in Targets \cup {None} /\ method' \in Methods
  /\ fetched' = method' /\ timer' = (addr' # None)
  /\ current' = None /\ reads' = [o \in Ops |-> None] /\ inFlight' = None /\ cancels' = {}
  /\ NotShown

ViewNext ==
  \/ ChangeAddress \/ ChangeMethod \/ Debounced \/ Refresh \/ Cancel
  \/ \E o \in Ops : Settle(o) \/ Proceeds(o)
  \/ \E t \in Targets : Send(t)
  \/ Deploys \/ Reopens

ViewSpec == ViewInit /\ [][ViewNext]_allVars

-----------------------------------------------------------------------------
Awaited == {o \in Ops : reads[o] # None /\ Live(o)}

\* The panel says it is loading exactly while a read is awaited whose answer
\* will be shown, and that read is the one the cancel button cancels.
LoadingIsHonest ==
  /\ loading <=> Awaited # {}
  /\ loading => inFlight \in Awaited

\* With no timer armed and no read awaited the panel shows the contract of its
\* address, catalog and schemas from one answer, or the error of reading it -
\* whatever was changed, refreshed or answered late before.  Only after a
\* cancel does it keep what it showed.
CatalogIsCurrent ==
  /\ addr = None => catalog = None /\ ~error /\ ~loading
  /\ addr # None /\ ~timer /\ Awaited = {} /\ ~gaveUp =>
       \/ error /\ catalog = None /\ held = None
       \/ /\ ~error /\ catalog # None /\ catalog.target = addr
          /\ held = [method |-> method, target |-> addr, version |-> catalog.version]

\* The panel tells the truth: of the read under way, and of its contract without one.
PanelIsCurrent == LoadingIsHonest /\ CatalogIsCurrent

PanelTypeOK ==
  /\ addr \in Targets \cup {None} /\ method \in Methods /\ fetched \in Methods
  /\ current \in Ops \cup {None} /\ reads \in [Ops -> Methods \cup {None}]
  /\ inFlight \in Ops \cup {None} /\ cancels \subseteq Ops
  /\ timer \in BOOLEAN /\ loading \in BOOLEAN /\ error \in BOOLEAN /\ gaveUp \in BOOLEAN

\* Without an address nothing is armed, read or shown; with one, a read of the
\* method shown has been asked for, or waits for the timer.
AddressRules ==
  IF addr = None THEN current = None /\ ~timer /\ ~loading /\ ~error /\ catalog = None
                 ELSE fetched = method

\* A read that is not settled is a command that has begun, so no later command
\* is taken for it; one that is awaited is of the method the panel shows.
ReadsHaveBegun ==
  /\ \A o \in Ops : reads[o] # None \/ current = o => ops[o].pc # "idle"
  /\ current # None => reads[current] \in {method, None}

\* Between the asking and the answer.
LoadingIsAwaiting ==
  /\ loading <=> (current # None /\ reads[current] # None)
  /\ loading => inFlight = current /\ ~error
  /\ loading /\ ~timer => ops[current].target = addr

\* What the panel shows once the answer is in.
AnswerIsShown ==
  addr # None /\ ~timer /\ ~loading /\ ~gaveUp =>
    \/ error /\ catalog = None /\ held = None
    \/ /\ ~error /\ catalog # None /\ catalog.target = addr
       /\ held = [method |-> method, target |-> addr, version |-> catalog.version]

\* The inductive invariant of the panel over the cache (Contract_proofs).
PanelInv == IInv /\ PanelTypeOK /\ AddressRules /\ ReadsHaveBegun /\ LoadingIsAwaiting
            /\ AnswerIsShown
=============================================================================
