---------------------------- MODULE ContractCache ----------------------------
(***************************************************************************)
(* The contracts kept between calls (crates/handshaker-core/src/grpc:      *)
(* contract.rs, contract_read.rs, file_contract_cache.rs): a mirror in     *)
(* memory over one file per target.  Commands run concurrently on the      *)
(* thread pool; a put and an invalidate each touch the file first and the  *)
(* mirror later, and hold no lock in between.                              *)
(*                                                                         *)
(* A contract is the version of the server it was reflected from.          *)
(***************************************************************************)
EXTENDS Naturals

CONSTANTS
  Targets,     \* ContractKey: address and tls
  Ops,         \* the commands that read a contract: grpc_contract_read and sends
  MaxVersion,  \* bound: deployments of a server, and one server at a time
  None

ASSUME VersionAssumption == MaxVersion \in Nat \ {0}

VARIABLES
  server,  \* the version deployed at a target (external)
  mirror,  \* FileContractCache::inner, 0 when absent
  disk,    \* the file of a target, 0 when absent
  ops,     \* the commands, at the point they have reached
  floor    \* history: no contract older than this is to be served

vars == <<server, mirror, disk, ops, floor>>

\* alone, since and removed are history: whether no other command on the
\* target was under way when this one began, the version deployed then, and
\* whether it left no file behind.
Idle == [pc |-> "idle", target |-> None, refresh |-> FALSE, found |-> 0,
         since |-> 0, alone |-> FALSE, removed |-> FALSE]

Over == {"done", "failed", "cancelled"}
UnderWay(t) == {o \in Ops : ops[o].target = t /\ ops[o].pc \notin Over \cup {"idle"}}

Goto(o, pc) == ops' = [ops EXCEPT ![o].pc = pc]

\* read and activate; a refresh drops the contract first.
Begin(o, t, refresh) ==
  /\ ops[o].pc = "idle"
  /\ ops' = [ops EXCEPT ![o] =
       [pc |-> IF refresh THEN "invalidate" ELSE "get", target |-> t, refresh |-> refresh,
        found |-> 0, since |-> server[t], alone |-> UnderWay(t) = {}, removed |-> FALSE]]
  /\ UNCHANGED <<server, mirror, disk, floor>>

\* Mutant: an invalidation only forgets the mirror.
BugRemoveFile(o) ==
  /\ ops[o].pc = "invalidate"
  /\ ops' = [ops EXCEPT ![o].pc = "forget", ![o].removed = TRUE]
  /\ UNCHANGED <<server, mirror, disk, floor>>

\* invalidate: the file; a failure is only logged.
RemoveFile(o) ==
  /\ ops[o].pc = "invalidate"
  /\ \/ /\ disk' = [disk EXCEPT ![ops[o].target] = 0]
        /\ ops' = [ops EXCEPT ![o].pc = "forget", ![o].removed = TRUE]
     \/ disk' = disk /\ Goto(o, "forget")
  /\ UNCHANGED <<server, mirror, floor>>

\* Mutant: an invalidation leaves the mirror.
BugForget(o) ==
  /\ ops[o].pc = "forget"
  /\ Goto(o, "get")
  /\ UNCHANGED <<server, mirror, disk, floor>>

\* invalidate: the mirror.
Forget(o) ==
  /\ ops[o].pc = "forget"
  /\ mirror' = [mirror EXCEPT ![ops[o].target] = 0]
  /\ floor' = IF ops[o].alone /\ ops[o].removed /\ ops[o].since > floor[ops[o].target]
              THEN [floor EXCEPT ![ops[o].target] = ops[o].since] ELSE floor
  /\ Goto(o, "get")
  /\ UNCHANGED <<server, disk>>

\* A hit answers; a miss dials and asks the server.
Get(o) ==
  /\ ops[o].pc = "get"
  /\ LET held == mirror[ops[o].target] IN
     ops' = [ops EXCEPT ![o].pc = IF held # 0 THEN "done" ELSE "reflect",
                        ![o].found = IF held # 0 THEN held ELSE server[ops[o].target]]
  /\ UNCHANGED <<server, mirror, disk, floor>>

\* A command ends early only where it waits: an error or the timeout, or the
\* cancel of the webview.
Fail(o, how) ==
  /\ ops[o].pc = "reflect"
  /\ Goto(o, how)
  /\ UNCHANGED <<server, mirror, disk, floor>>

\* The server answered.  put: the file; a failure is only logged.
Persist(o) ==
  /\ ops[o].pc = "reflect"
  /\ \/ disk' = [disk EXCEPT ![ops[o].target] = ops[o].found]
     \/ disk' = disk
  /\ Goto(o, "insert")
  /\ UNCHANGED <<server, mirror, floor>>

\* put: the mirror.
Insert(o) ==
  /\ ops[o].pc = "insert"
  /\ mirror' = [mirror EXCEPT ![ops[o].target] = ops[o].found]
  /\ Goto(o, "done")
  /\ UNCHANGED <<server, disk, floor>>

Deploy(t) ==
  /\ \A u \in Targets : server[u] < MaxVersion
  /\ server' = [server EXCEPT ![t] = @ + 1]
  /\ UNCHANGED <<mirror, disk, ops, floor>>

\* The process ends at any point and FileContractCache::load reads the files;
\* an entry that cannot be read is skipped.
Restart ==
  /\ \E unreadable \in SUBSET {t \in Targets : disk[t] # 0} :
       mirror' = [t \in Targets |-> IF t \in unreadable THEN 0 ELSE disk[t]]
  /\ ops' = [o \in Ops |-> IF ops[o].pc \in Over \cup {"idle"} THEN ops[o]
                           ELSE [ops[o] EXCEPT !.pc = "failed"]]
  /\ UNCHANGED <<server, disk, floor>>

Init ==
  /\ server = [t \in Targets |-> 1]
  /\ mirror = [t \in Targets |-> 0] /\ disk = [t \in Targets |-> 0]
  /\ ops = [o \in Ops |-> Idle]
  /\ floor = [t \in Targets |-> 0]

Next ==
  \/ \E o \in Ops, t \in Targets, refresh \in BOOLEAN : Begin(o, t, refresh)
  \/ \E o \in Ops : \/ RemoveFile(o) \/ Forget(o) \/ Get(o) \/ Persist(o) \/ Insert(o)
                    \/ \E how \in {"failed", "cancelled"} : Fail(o, how)
  \/ \E t \in Targets : Deploy(t)
  \/ Restart

Spec == Init /\ [][Next]_vars

-----------------------------------------------------------------------------
Points == Over \cup {"idle", "invalidate", "forget", "get", "reflect", "insert"}
Versions == 0 .. MaxVersion

TypeOK ==
  /\ server \in [Targets -> Versions] /\ mirror \in [Targets -> Versions]
  /\ disk \in [Targets -> Versions] /\ floor \in [Targets -> Versions]
  /\ ops \in [Ops -> [pc : Points, target : Targets \cup {None}, refresh : BOOLEAN,
                      found : Versions, since : Versions, alone : BOOLEAN, removed : BOOLEAN]]
  /\ \A o \in Ops : ops[o].pc # "idle" => ops[o].target \in Targets

\* Once a refresh that was the only command on its target has dropped the old
\* contract and its file, no older contract comes back: not by a command that
\* began later, nor by a crash at any point and the restart.
RefreshSticks ==
  \A t \in Targets : (mirror[t] # 0 => mirror[t] >= floor[t]) /\ (disk[t] # 0 => disk[t] >= floor[t])

\* Such a refresh answers with what the server had when it began, or newer.
RefreshIsFresh ==
  \A o \in Ops : ops[o].refresh /\ ops[o].alone /\ ops[o].pc = "done" => ops[o].found >= ops[o].since

Refreshing(o) == ops[o].refresh /\ ops[o].alone /\ ops[o].pc \in {"invalidate", "forget", "get"}

\* What a command carries is not older than the floor, nor than a refresh that
\* began alone on the target and has not looked the contract up yet.
CarriedIsFresh ==
  \A o \in Ops : ops[o].pc \in {"reflect", "insert"} =>
    /\ ops[o].found >= floor[ops[o].target]
    /\ \A r \in Ops : Refreshing(r) /\ ops[r].target = ops[o].target => ops[o].found >= ops[r].since

\* The way of a refresh that began alone, point by point.
RefreshSoFar ==
  \A r \in Ops : ops[r].refresh /\ ops[r].alone =>
    /\ ops[r].pc = "forget" /\ ops[r].removed /\ disk[ops[r].target] # 0 =>
         disk[ops[r].target] >= ops[r].since
    /\ ops[r].pc = "get" /\ mirror[ops[r].target] # 0 => mirror[ops[r].target] >= ops[r].since
    /\ ops[r].pc \in {"reflect", "insert", "done"} => ops[r].found >= ops[r].since

RefreshesOnly ==
  \A o \in Ops :
    /\ ops[o].pc \in {"invalidate", "forget"} => ops[o].refresh
    /\ ops[o].pc = "invalidate" => ~ops[o].removed

DeployedSince ==
  /\ \A t \in Targets : floor[t] <= server[t]
  /\ \A o \in Ops : ops[o].pc # "idle" => ops[o].since <= server[ops[o].target]

IInv == TypeOK /\ RefreshSticks /\ CarriedIsFresh /\ RefreshSoFar /\ RefreshesOnly
        /\ DeployedSince
=============================================================================
