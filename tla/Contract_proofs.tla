--------------------------- MODULE Contract_proofs ---------------------------
(***************************************************************************)
(* Theorems about a server's contract.  ContractCache and ContractView     *)
(* first, for any targets, any commands, any methods and any number of     *)
(* deployments; then Descriptors, how a contract is found.  The cache's    *)
(* invariant follows a refresh from its first step: what it has dropped so *)
(* far, and that nothing older is carried by a command that could put it   *)
(* back.  The panel's follows the read it awaits: that it is of the method *)
(* and the address shown, unless the timer is armed.                       *)
(***************************************************************************)
EXTENDS ContractView, Descriptors, FiniteSetTheorems, SequenceTheorems, WellFoundedInduction, TLAPS

\* The invariant holds of an empty cache.
LEMMA InitInv == Init => IInv
  <1> SUFFICES ASSUME Init PROVE IInv
    OBVIOUS
  <1> USE VersionAssumption DEF Init, Idle
  <1>1. TypeOK
    BY DEF TypeOK, Versions, Points, Over
  <1>2. RefreshSticks /\ RefreshesOnly /\ DeployedSince
    BY DEF RefreshSticks, RefreshesOnly, DeployedSince
  <1>3. CarriedIsFresh /\ RefreshSoFar
    BY DEF CarriedIsFresh, RefreshSoFar
  <1>4. QED BY <1>1, <1>2, <1>3 DEF IInv

\* Every step is of one command, of a server or of the whole process.
CommandStep(o) ==
  \/ \E t \in Targets, refresh \in BOOLEAN : Begin(o, t, refresh)
  \/ RemoveFile(o) \/ Forget(o) \/ Get(o) \/ Persist(o) \/ Insert(o)
  \/ \E how \in {"failed", "cancelled"} : Fail(o, how)

\* A step is one of a command, a deployment or a restart.
LEMMA NextCases ==
  ASSUME [Next]_vars
  PROVE  (\E o \in Ops : CommandStep(o)) \/ (\E t \in Targets : Deploy(t)) \/ Restart \/ UNCHANGED vars
  BY DEF Next, CommandStep

\* Every step keeps the types.
LEMMA TypeStep == IInv /\ [Next]_vars => TypeOK'
  <1> SUFFICES ASSUME IInv, [Next]_vars PROVE TypeOK'
    OBVIOUS
  <1> USE VersionAssumption DEF TypeOK, Versions, Points, Over
  <1>0. TypeOK
    BY DEF IInv
  <1>1. ASSUME NEW o \in Ops, CommandStep(o) PROVE TypeOK'
    <2>1. ASSUME NEW t \in Targets, NEW refresh \in BOOLEAN, Begin(o, t, refresh) PROVE TypeOK'
      BY <1>0, <2>1 DEF Begin
    <2>2. CASE RemoveFile(o)
      <3>1. ops[o].target \in Targets
        BY <1>0, <2>2 DEF RemoveFile
      <3>2. UNCHANGED <<server, mirror, floor>> /\ disk' \in [Targets -> Versions]
        BY <1>0, <2>2, <3>1 DEF RemoveFile
      <3>r. PICK r \in BOOLEAN : ops' = [ops EXCEPT ![o].pc = "forget", ![o].removed = r]
        <4>1. CASE ops' = [ops EXCEPT ![o].pc = "forget", ![o].removed = TRUE]
          BY ONLY <4>1
        <4>2. CASE Goto(o, "forget")
          <5>1. ops' = [ops EXCEPT ![o].pc = "forget", ![o].removed = ops[o].removed]
            BY <1>0, <4>2 DEF Goto
          <5>2. ops[o].removed \in BOOLEAN
            BY <1>0
          <5>3. QED BY ONLY <5>1, <5>2
        <4>3. QED BY ONLY <2>2, <4>1, <4>2 DEF RemoveFile
      <3>3. ops' \in [Ops -> [pc : Points, target : Targets \cup {None}, refresh : BOOLEAN,
                      found : Versions, since : Versions, alone : BOOLEAN, removed : BOOLEAN]]
        <4> DEFINE Command == [pc : Points, target : Targets \cup {None}, refresh : BOOLEAN,
                      found : Versions, since : Versions, alone : BOOLEAN, removed : BOOLEAN]
        <4>1. ops \in [Ops -> Command]
          BY ONLY <1>0 DEF TypeOK
        <4>2. [ops[o] EXCEPT !.pc = "forget", !.removed = r] \in Command
          <5>1. ops[o] \in Command /\ "forget" \in Points /\ r \in BOOLEAN
            BY <4>1
          <5> HIDE DEF Points, Versions
          <5>2. QED BY <5>1
        <4>3. ops' = [ops EXCEPT ![o] = [ops[o] EXCEPT !.pc = "forget", !.removed = r]]
          BY ONLY <3>r, <4>1
        <4> HIDE DEF Command
        <4>4. ops' \in [Ops -> Command]
          BY ONLY <4>1, <4>2, <4>3
        <4>5. QED BY <4>4 DEF Command
      <3>4. \A p \in Ops : ops'[p].target = ops[p].target /\ (ops'[p].pc # "idle" => ops[p].pc # "idle" \/ p = o)
        BY <1>0, <3>r
      <3>5. QED BY <1>0, <3>1, <3>2, <3>3, <3>4
    <2>3. CASE Forget(o)
      BY <1>0, <2>3 DEF Forget, Goto
    <2>4. CASE Get(o)
      <3>1. ops[o].target \in Targets
        BY <1>0, <2>4 DEF Get
      <3>2. mirror[ops[o].target] \in Versions /\ server[ops[o].target] \in Versions
        BY <1>0, <3>1
      <3>3. \E pc \in Points, found \in Versions :
              ops' = [ops EXCEPT ![o].pc = pc, ![o].found = found]
        BY <2>4, <3>2 DEF Get
      <3>4. PICK pc \in Points, found \in Versions :
              ops' = [ops EXCEPT ![o].pc = pc, ![o].found = found]
        BY <3>3
      <3>5. UNCHANGED <<server, mirror, disk, floor>>
        BY <2>4 DEF Get
      <3>6. ops'[o].target = ops[o].target /\ \A r \in Ops \ {o} : ops'[r] = ops[r]
        BY <1>0, <3>4
      <3>7. ops' \in [Ops -> [pc : Points, target : Targets \cup {None}, refresh : BOOLEAN,
                      found : Versions, since : Versions, alone : BOOLEAN, removed : BOOLEAN]]
        <4> DEFINE Command == [pc : Points, target : Targets \cup {None}, refresh : BOOLEAN,
                      found : Versions, since : Versions, alone : BOOLEAN, removed : BOOLEAN]
        <4>1. ops \in [Ops -> Command] /\ pc \in Points /\ found \in Versions
          BY <1>0, <3>4
        <4>2. [ops[o] EXCEPT !.pc = pc, !.found = found] \in Command
          <5>1. ops[o] \in Command
            BY <4>1
          <5> HIDE DEF Points, Versions
          <5>2. QED BY <4>1, <5>1
        <4>3. ops' = [ops EXCEPT ![o] = [ops[o] EXCEPT !.pc = pc, !.found = found]]
          BY <3>4
        <4> HIDE DEF Command
        <4>4. ops' \in [Ops -> Command]
          BY <4>1, <4>2, <4>3
        <4>5. QED BY <4>4 DEF Command
      <3>8. QED BY <1>0, <3>1, <3>5, <3>6, <3>7
    <2>5. CASE Persist(o)
      BY <1>0, <2>5 DEF Persist, Goto
    <2>6. CASE Insert(o)
      BY <1>0, <2>6 DEF Insert, Goto
    <2>7. ASSUME NEW how \in {"failed", "cancelled"}, Fail(o, how) PROVE TypeOK'
      BY <1>0, <2>7 DEF Fail, Goto
    <2>8. QED BY <1>1, <2>1, <2>2, <2>3, <2>4, <2>5, <2>6, <2>7 DEF CommandStep
  <1>2. ASSUME NEW t \in Targets, Deploy(t) PROVE TypeOK'
    BY <1>0, <1>2 DEF Deploy
  <1>3. CASE Restart
    BY <1>0, <1>3 DEF Restart
  <1>4. CASE UNCHANGED vars
    BY <1>0, <1>4 DEF vars
  <1>5. QED BY <1>1, <1>2, <1>3, <1>4, NextCases

\* The floor is never above what is deployed, nor is the start of a command.
LEMMA DeployedStep == IInv /\ [Next]_vars => DeployedSince'
  <1> SUFFICES ASSUME IInv, [Next]_vars PROVE DeployedSince'
    OBVIOUS
  <1> USE VersionAssumption DEF TypeOK, Versions, DeployedSince
  <1>0. TypeOK /\ DeployedSince
    BY DEF IInv
  <1>1. ASSUME NEW o \in Ops, CommandStep(o) PROVE DeployedSince'
    <2>1. ASSUME NEW t \in Targets, NEW refresh \in BOOLEAN, Begin(o, t, refresh) PROVE DeployedSince'
      BY <1>0, <2>1 DEF Begin
    <2>2. CASE RemoveFile(o)
      BY <1>0, <2>2 DEF RemoveFile, Goto
    <2>3. CASE Forget(o)
      BY <1>0, <2>3 DEF Forget, Goto
    <2>4. CASE Get(o)
      BY <1>0, <2>4 DEF Get
    <2>5. CASE Persist(o)
      BY <1>0, <2>5 DEF Persist, Goto
    <2>6. CASE Insert(o)
      BY <1>0, <2>6 DEF Insert, Goto
    <2>7. ASSUME NEW how \in {"failed", "cancelled"}, Fail(o, how) PROVE DeployedSince'
      BY <1>0, <2>7 DEF Fail, Goto
    <2>8. QED BY <1>1, <2>1, <2>2, <2>3, <2>4, <2>5, <2>6, <2>7 DEF CommandStep
  <1>2. ASSUME NEW t \in Targets, Deploy(t) PROVE DeployedSince'
    BY <1>0, <1>2 DEF Deploy
  <1>3. CASE Restart
    BY <1>0, <1>3 DEF Restart
  <1>4. CASE UNCHANGED vars
    BY <1>0, <1>4 DEF vars
  <1>5. QED BY <1>1, <1>2, <1>3, <1>4, NextCases

\* Only a command that carries a contract writes, and only a refresh that has
\* dropped everything older raises the floor.
LEMMA SticksStep == IInv /\ [Next]_vars => RefreshSticks'
  <1> SUFFICES ASSUME IInv, [Next]_vars PROVE RefreshSticks'
    OBVIOUS
  <1> USE VersionAssumption DEF TypeOK, Versions, RefreshSticks
  <1>0. TypeOK /\ RefreshSticks /\ CarriedIsFresh /\ RefreshSoFar
    BY DEF IInv
  <1>1. ASSUME NEW o \in Ops, CommandStep(o) PROVE RefreshSticks'
    <2>1. ASSUME NEW t \in Targets, NEW refresh \in BOOLEAN, Begin(o, t, refresh) PROVE RefreshSticks'
      BY <1>0, <2>1 DEF Begin
    <2>2. CASE RemoveFile(o)
      BY <1>0, <2>2 DEF RemoveFile
    <2>3. CASE Forget(o)
      <3>1. ops[o].refresh
        BY <1>0, <2>3 DEF Forget, IInv, RefreshesOnly
      <3>2. (ops[o].alone /\ ops[o].removed /\ disk[ops[o].target] # 0) =>
              disk[ops[o].target] >= ops[o].since
        BY <1>0, <2>3, <3>1 DEF Forget, RefreshSoFar
      <3>3. QED BY <1>0, <2>3, <3>2 DEF Forget
    <2>4. CASE Get(o)
      BY <1>0, <2>4 DEF Get
    <2>5. CASE Persist(o)
      BY <1>0, <2>5 DEF Persist, CarriedIsFresh
    <2>6. CASE Insert(o)
      BY <1>0, <2>6 DEF Insert, CarriedIsFresh
    <2>7. ASSUME NEW how \in {"failed", "cancelled"}, Fail(o, how) PROVE RefreshSticks'
      BY <1>0, <2>7 DEF Fail
    <2>8. QED BY <1>1, <2>1, <2>2, <2>3, <2>4, <2>5, <2>6, <2>7 DEF CommandStep
  <1>2. ASSUME NEW t \in Targets, Deploy(t) PROVE RefreshSticks'
    BY <1>0, <1>2 DEF Deploy
  <1>3. CASE Restart
    BY <1>0, <1>3 DEF Restart
  <1>4. CASE UNCHANGED vars
    BY <1>0, <1>4 DEF vars
  <1>5. QED BY <1>1, <1>2, <1>3, <1>4, NextCases

\* Only a refresh goes by the invalidation, and has removed nothing when it gets there.
LEMMA RefreshesOnlyStep == IInv /\ [Next]_vars => RefreshesOnly'
  <1> SUFFICES ASSUME IInv, [Next]_vars PROVE RefreshesOnly'
    OBVIOUS
  <1> USE VersionAssumption DEF TypeOK, Versions, RefreshesOnly
  <1>0. TypeOK /\ RefreshesOnly
    BY DEF IInv
  <1>1. ASSUME NEW o \in Ops, CommandStep(o) PROVE RefreshesOnly'
    <2>1. ASSUME NEW t \in Targets, NEW refresh \in BOOLEAN, Begin(o, t, refresh) PROVE RefreshesOnly'
      BY <1>0, <2>1 DEF Begin
    <2>2. CASE RemoveFile(o)
      BY <1>0, <2>2 DEF RemoveFile, Goto
    <2>3. CASE Forget(o)
      BY <1>0, <2>3 DEF Forget, Goto
    <2>4. CASE Get(o)
      BY <1>0, <2>4 DEF Get
    <2>5. CASE Persist(o)
      BY <1>0, <2>5 DEF Persist, Goto
    <2>6. CASE Insert(o)
      BY <1>0, <2>6 DEF Insert, Goto
    <2>7. ASSUME NEW how \in {"failed", "cancelled"}, Fail(o, how) PROVE RefreshesOnly'
      BY <1>0, <2>7 DEF Fail, Goto
    <2>8. QED BY <1>1, <2>1, <2>2, <2>3, <2>4, <2>5, <2>6, <2>7 DEF CommandStep
  <1>2. ASSUME NEW t \in Targets, Deploy(t) PROVE RefreshesOnly'
    BY <1>0, <1>2 DEF Deploy
  <1>3. CASE Restart
    BY <1>0, <1>3 DEF Restart, Over
  <1>4. CASE UNCHANGED vars
    BY <1>0, <1>4 DEF vars
  <1>5. QED BY <1>1, <1>2, <1>3, <1>4, NextCases

\* A refresh that begins alone finds nothing carried on its target; a command
\* that asks later carries what is deployed then.
LEMMA CarriedStep == IInv /\ [Next]_vars => CarriedIsFresh'
  <1> SUFFICES ASSUME IInv, [Next]_vars PROVE CarriedIsFresh'
    OBVIOUS
  <1> USE VersionAssumption DEF TypeOK, Versions, CarriedIsFresh, Refreshing
  <1>0. TypeOK /\ RefreshSticks /\ CarriedIsFresh /\ RefreshSoFar /\ RefreshesOnly /\ DeployedSince
    BY DEF IInv
  <1>1. ASSUME NEW o \in Ops, CommandStep(o) PROVE CarriedIsFresh'
    <2>1. ASSUME NEW t \in Targets, NEW refresh \in BOOLEAN, Begin(o, t, refresh) PROVE CarriedIsFresh'
      BY <1>0, <2>1 DEF Begin, UnderWay, Over
    <2>2. CASE RemoveFile(o)
      BY <1>0, <2>2 DEF RemoveFile, Goto
    <2>3. CASE Forget(o)
      <3>1. ops[o].target \in Targets /\ ops[o].refresh /\ ops[o].pc = "forget"
        BY <1>0, <2>3 DEF Forget, RefreshesOnly
      <3>2. \A r \in Ops \ {o} : ops'[r] = ops[r]
        BY <1>0, <2>3 DEF Forget, Goto
      <3>3. ops'[o] = [ops[o] EXCEPT !.pc = "get"]
        BY <1>0, <2>3 DEF Forget, Goto
      <3>4. \A r \in Ops : ops'[r].target = ops[r].target /\ ops'[r].since = ops[r].since
                           /\ (Refreshing(r)' => Refreshing(r))
        BY <1>0, <3>1, <3>2, <3>3
      <3>5. ASSUME NEW c \in Ops, (ops[c].pc \in {"reflect", "insert"})'
            PROVE  ops'[c] = ops[c] /\ ops[c].found >= floor'[ops[c].target]
        <4>1. ops'[c] = ops[c]
          BY <1>0, <3>2, <3>3, <3>5
        <4>2. floor' # floor => floor' = [floor EXCEPT ![ops[o].target] = ops[o].since] /\ ops[o].alone
          BY <2>3 DEF Forget
        <4>3. QED BY <1>0, <3>1, <3>5, <4>1, <4>2
      <3>6. QED BY <1>0, <3>4, <3>5
    <2>4. CASE Get(o)
      <3>1. ops[o].target \in Targets /\ floor' = floor /\ ops'[o].target = ops[o].target
        BY <1>0, <2>4 DEF Get
      <3>2. \A r \in Ops \ {o} : ops'[r] = ops[r]
        BY <1>0, <2>4 DEF Get
      <3>3. ~Refreshing(o)'
        BY <1>0, <2>4 DEF Get
      <3>4. \A r \in Ops \ {o} : Refreshing(r)' => Refreshing(r)
        BY <3>2
      <3>5. ops'[o].pc = "reflect" => ops'[o].found = server[ops[o].target]
        BY <1>0, <2>4 DEF Get
      <3>6. \A r \in Ops : Refreshing(r) /\ ops[r].target = ops[o].target => server[ops[o].target] >= ops[r].since
        BY <1>0, <3>1 DEF DeployedSince
      <3>7. ops'[o].pc # "insert" /\ server[ops[o].target] >= floor[ops[o].target]
        BY <1>0, <2>4, <3>1 DEF Get, DeployedSince
      <3>8. QED BY <1>0, <3>1, <3>2, <3>3, <3>4, <3>5, <3>6, <3>7
    <2>5. CASE Persist(o)
      BY <1>0, <2>5 DEF Persist, Goto
    <2>6. CASE Insert(o)
      BY <1>0, <2>6 DEF Insert, Goto
    <2>7. ASSUME NEW how \in {"failed", "cancelled"}, Fail(o, how) PROVE CarriedIsFresh'
      BY <1>0, <2>7 DEF Fail, Goto
    <2>8. QED BY <1>1, <2>1, <2>2, <2>3, <2>4, <2>5, <2>6, <2>7 DEF CommandStep
  <1>2. ASSUME NEW t \in Targets, Deploy(t) PROVE CarriedIsFresh'
    BY <1>0, <1>2 DEF Deploy
  <1>3. CASE Restart
    BY <1>0, <1>3 DEF Restart, Over
  <1>4. CASE UNCHANGED vars
    BY <1>0, <1>4 DEF vars
  <1>5. QED BY <1>1, <1>2, <1>3, <1>4, NextCases

\* What a refresh has dropped stays dropped, or is replaced by something newer.
LEMMA SoFarStep == IInv /\ [Next]_vars => RefreshSoFar'
  <1> SUFFICES ASSUME IInv, [Next]_vars PROVE RefreshSoFar'
    OBVIOUS
  <1> USE VersionAssumption DEF TypeOK, Versions, RefreshSoFar
  <1>0. TypeOK /\ RefreshSticks /\ CarriedIsFresh /\ RefreshSoFar /\ RefreshesOnly /\ DeployedSince
    BY DEF IInv
  <1>1. ASSUME NEW o \in Ops, CommandStep(o) PROVE RefreshSoFar'
    <2>1. ASSUME NEW t \in Targets, NEW refresh \in BOOLEAN, Begin(o, t, refresh) PROVE RefreshSoFar'
      BY <1>0, <2>1 DEF Begin, UnderWay, Over
    <2>2. CASE RemoveFile(o)
      <3>1. ops[o].target \in Targets /\ mirror' = mirror
        BY <1>0, <2>2 DEF RemoveFile
      <3>2. \A r \in Ops \ {o} : ops'[r] = ops[r]
        BY <1>0, <2>2 DEF RemoveFile, Goto
      <3>3. ops'[o].pc = "forget" /\ ops'[o].target = ops[o].target
        BY <1>0, <2>2 DEF RemoveFile, Goto
      <3>4. CASE disk' = [disk EXCEPT ![ops[o].target] = 0]
        BY <1>0, <3>1, <3>2, <3>3, <3>4
      <3>5. CASE disk' = disk /\ Goto(o, "forget")
        <4>1. ops'[o].removed = ops[o].removed /\ ops[o].pc = "invalidate"
          BY <1>0, <2>2, <3>5 DEF Goto, RemoveFile
        <4>2. ~ops[o].removed
          BY <1>0, <4>1 DEF RefreshesOnly
        <4>3. QED BY <1>0, <3>1, <3>2, <3>3, <3>5, <4>1, <4>2
      <3>6. QED BY <2>2, <3>4, <3>5 DEF RemoveFile
    <2>3. CASE Forget(o)
      BY <1>0, <2>3 DEF Forget, Goto
    <2>4. CASE Get(o)
      <3>1. ops[o].target \in Targets /\ UNCHANGED <<server, mirror, disk, floor>>
        BY <1>0, <2>4 DEF Get
      <3>2. \A r \in Ops \ {o} : ops'[r] = ops[r]
        BY <1>0, <2>4 DEF Get
      <3>3. ops'[o].refresh = ops[o].refresh /\ ops'[o].alone = ops[o].alone
            /\ ops'[o].since = ops[o].since
        BY <1>0, <2>4 DEF Get
      <3>4. CASE mirror[ops[o].target] # 0
        <4>1. ops'[o].pc = "done" /\ ops'[o].found = mirror[ops[o].target]
          BY <1>0, <2>4, <3>4 DEF Get
        <4>2. QED BY <1>0, <2>4, <3>1, <3>2, <3>3, <3>4, <4>1 DEF Get
      <3>5. CASE mirror[ops[o].target] = 0
        <4>1. ops'[o].pc = "reflect" /\ ops'[o].found = server[ops[o].target]
          BY <1>0, <2>4, <3>5 DEF Get
        <4>2. server[ops[o].target] >= ops[o].since
          BY <1>0, <2>4, <3>1 DEF Get, DeployedSince
        <4>3. QED BY <1>0, <3>1, <3>2, <3>3, <4>1, <4>2
      <3>6. QED BY <3>4, <3>5
    <2>5. CASE Persist(o)
      <3> SUFFICES ASSUME NEW r \in Ops, (ops[r].refresh /\ ops[r].alone)'
                   PROVE  (/\ ops[r].pc = "forget" /\ ops[r].removed /\ disk[ops[r].target] # 0 =>
                                disk[ops[r].target] >= ops[r].since
                           /\ ops[r].pc = "get" /\ mirror[ops[r].target] # 0 =>
                                mirror[ops[r].target] >= ops[r].since
                           /\ ops[r].pc \in {"reflect", "insert", "done"} => ops[r].found >= ops[r].since)'
        OBVIOUS
      <3>1. CASE r = o
        BY <1>0, <2>5, <3>1 DEF Persist, Goto
      <3>2. CASE r # o
        <4>1. Refreshing(r) /\ ops[r].target = ops[o].target => ops[o].found >= ops[r].since
          BY <1>0, <2>5 DEF Persist, CarriedIsFresh
        <4>2. ops'[r] = ops[r] /\ mirror' = mirror /\ ops[o].target \in Targets
          BY <1>0, <2>5, <3>2 DEF Persist, Goto
        <4>3. CASE ops[r].target = ops[o].target
          BY <1>0, <2>5, <4>1, <4>2, <4>3 DEF Persist, Refreshing
        <4>4. CASE ops[r].target # ops[o].target
          BY <1>0, <2>5, <4>2, <4>4 DEF Persist
        <4>5. QED BY <4>3, <4>4
      <3>3. QED BY <3>1, <3>2
    <2>6. CASE Insert(o)
      <3> SUFFICES ASSUME NEW r \in Ops, (ops[r].refresh /\ ops[r].alone)'
                   PROVE  (/\ ops[r].pc = "forget" /\ ops[r].removed /\ disk[ops[r].target] # 0 =>
                                disk[ops[r].target] >= ops[r].since
                           /\ ops[r].pc = "get" /\ mirror[ops[r].target] # 0 =>
                                mirror[ops[r].target] >= ops[r].since
                           /\ ops[r].pc \in {"reflect", "insert", "done"} => ops[r].found >= ops[r].since)'
        OBVIOUS
      <3>1. CASE r = o
        BY <1>0, <2>6, <3>1 DEF Insert, Goto
      <3>2. CASE r # o
        <4>1. Refreshing(r) /\ ops[r].target = ops[o].target => ops[o].found >= ops[r].since
          BY <1>0, <2>6 DEF Insert, CarriedIsFresh
        <4>2. ops'[r] = ops[r] /\ disk' = disk /\ ops[o].target \in Targets
          BY <1>0, <2>6, <3>2 DEF Insert, Goto
        <4>3. CASE ops[r].target = ops[o].target
          BY <1>0, <2>6, <4>1, <4>2, <4>3 DEF Insert, Refreshing
        <4>4. CASE ops[r].target # ops[o].target
          BY <1>0, <2>6, <4>2, <4>4 DEF Insert
        <4>5. QED BY <4>3, <4>4
      <3>3. QED BY <3>1, <3>2
    <2>7. ASSUME NEW how \in {"failed", "cancelled"}, Fail(o, how) PROVE RefreshSoFar'
      BY <1>0, <2>7 DEF Fail, Goto
    <2>8. QED BY <1>1, <2>1, <2>2, <2>3, <2>4, <2>5, <2>6, <2>7 DEF CommandStep
  <1>2. ASSUME NEW t \in Targets, Deploy(t) PROVE RefreshSoFar'
    BY <1>0, <1>2 DEF Deploy
  <1>3. CASE Restart
    BY <1>0, <1>3 DEF Restart, Over
  <1>4. CASE UNCHANGED vars
    BY <1>0, <1>4 DEF vars
  <1>5. QED BY <1>1, <1>2, <1>3, <1>4, NextCases

\* Every step keeps the invariant.
LEMMA NextInv == IInv /\ [Next]_vars => IInv'
  BY TypeStep, SticksStep, CarriedStep, SoFarStep, RefreshesOnlyStep, DeployedStep DEF IInv

\* The invariant holds in every reachable state.
THEOREM Invariance == Spec => []IInv
  <1>1. QED BY InitInv, NextInv, PTL DEF Spec

\* Once a refresh that was the only command on its target has dropped the old
\* contract and its file, no older contract comes back, not even by a crash and
\* the restart.
THEOREM Sticks == Spec => []RefreshSticks
  <1>1. IInv => RefreshSticks
    BY DEF IInv
  <1>2. QED BY Invariance, <1>1, PTL

\* Such a refresh answers with what the server had when it began, or newer.
THEOREM FreshAnswer == Spec => []RefreshIsFresh
  <1>1. IInv => RefreshIsFresh
    BY DEF IInv, RefreshSoFar, RefreshIsFresh
  <1>2. QED BY Invariance, <1>1, PTL

-----------------------------------------------------------------------------
(* The panel over the cache. *)

\* What a change of the panel comes to: it reads nothing any more ...
Blanks ==
  /\ addr' = None /\ method' \in Methods /\ fetched' \in Methods /\ timer' = FALSE
  /\ Blank

\* ... or it begins a read of what it shows now ...
Reads(o) ==
  /\ addr' \in Targets /\ method' \in Methods /\ fetched' = method' /\ timer' \in BOOLEAN
  /\ \E force \in BOOLEAN : Run(o, addr', method', force)

\* ... or it waits for the timer, the old read going on.
Waits ==
  /\ addr' \in Targets /\ method' \in Methods /\ fetched' = method' /\ timer' = TRUE
  /\ UNCHANGED <<vars, fetched, read, shown>>

\* A command goes on, or one of a send begins; the panel does not see it.
Goes ==
  /\ UNCHANGED view
  /\ \E o \in Ops : CommandStep(o)

\* Every step of the whole is one of these.
LEMMA PanelCases ==
  ASSUME PanelInv, [ViewNext]_allVars
  PROVE  \/ Blanks \/ (\E o \in Ops : Reads(o)) \/ Waits
         \/ (\E o \in Ops : Settle(o)) \/ Cancel
         \/ Goes \/ Deploys \/ Reopens \/ UNCHANGED allVars
  <1> DEFINE Goal == \/ Blanks \/ (\E o \in Ops : Reads(o)) \/ Waits
  <1>0. PanelTypeOK /\ AddressRules
    BY DEF PanelInv
  <1>1. ASSUME NEW a \in Targets \cup {None}, NEW m \in Methods, Effect(a, m) PROVE Goal
    <2>1. addr' = a /\ method' = m
      BY <1>1 DEF Effect
    <2>2. CASE a = None
      BY <1>0, <1>1, <2>1, <2>2 DEF Effect, Blanks, PanelTypeOK
    <2>3. CASE a # None /\ fetched # m
      <3>1. PICK o \in Ops : Run(o, a, m, FALSE)
        BY <1>1, <2>3 DEF Effect
      <3>2. Run(o, addr', method', FALSE) /\ fetched' = m /\ timer' = FALSE
        BY <1>1, <2>1, <2>3, <3>1 DEF Effect
      <3>3. Reads(o)
        BY <2>1, <2>3, <3>2 DEF Reads
      <3>4. QED BY <3>3
    <2>4. CASE a # None /\ fetched = m
      BY <1>1, <2>1, <2>4 DEF Effect, Waits, Arm
    <2>5. QED BY <2>2, <2>3, <2>4
  <1>2. CASE ChangeAddress \/ ChangeMethod
    BY <1>0, <1>1, <1>2 DEF ChangeAddress, ChangeMethod, PanelTypeOK
  <1>3. CASE Debounced
    <2>1. addr \in Targets /\ fetched = method
      BY <1>0, <1>3 DEF Debounced, AddressRules, PanelTypeOK
    <2>2. PICK o \in Ops : Run(o, addr, method, FALSE)
      BY <1>3 DEF Debounced
    <2>3. Run(o, addr', method', FALSE) /\ UNCHANGED <<addr, method, fetched>> /\ timer' = FALSE
      BY <1>3, <2>2 DEF Debounced
    <2>4. Reads(o)
      BY <1>0, <2>1, <2>3 DEF Reads, PanelTypeOK
    <2>5. QED BY <2>4
  <1>4. CASE Refresh
    <2>1. CASE addr = None
      BY <1>0, <1>4, <2>1 DEF Refresh, Blanks, AddressRules, PanelTypeOK
    <2>2. CASE addr # None
      <3>1. PICK o \in Ops : Run(o, addr, method, TRUE)
        BY <1>4, <2>2 DEF Refresh
      <3>2. Run(o, addr', method', TRUE) /\ UNCHANGED <<addr, method, fetched, timer>>
        BY <1>4, <3>1 DEF Refresh
      <3>3. Reads(o)
        BY <1>0, <2>2, <3>2 DEF Reads, AddressRules, PanelTypeOK
      <3>4. QED BY <3>3
    <2>3. QED BY <2>1, <2>2
  <1>5. ASSUME NEW o \in Ops, Proceeds(o) PROVE Goes
    BY <1>5 DEF Proceeds, Goes, CommandStep
  <1>6. ASSUME NEW t \in Targets, Send(t) PROVE Goes
    BY <1>6 DEF Send, Goes, CommandStep
  <1>7. QED BY <1>2, <1>3, <1>4, <1>5, <1>6 DEF ViewNext

\* Every step of the whole is a step of the cache, or leaves it as it is.
LEMMA ViewStepsAreCacheSteps == PanelInv /\ [ViewNext]_allVars => [Next]_vars
  <1> SUFFICES ASSUME PanelInv, [ViewNext]_allVars PROVE Next \/ UNCHANGED vars
    BY DEF vars
  <1>1. CASE Blanks \/ Waits \/ Cancel
    BY <1>1 DEF Blanks, Blank, Waits, Cancel, vars
  <1>2. ASSUME NEW o \in Ops, Reads(o) PROVE Next
    BY <1>2 DEF Reads, Run, Next
  <1>3. ASSUME NEW o \in Ops, Settle(o) PROVE UNCHANGED vars
    BY <1>3 DEF Settle
  <1>4. CASE Goes
    BY <1>4 DEF Goes, CommandStep, Next
  <1>5. CASE Deploys \/ Reopens
    BY <1>5 DEF Deploys, Reopens, Next
  <1>6. CASE UNCHANGED allVars
    BY <1>6 DEF allVars
  <1>7. QED BY <1>1, <1>2, <1>3, <1>4, <1>5, <1>6, PanelCases

\* A command that has begun has begun for good, and keeps its target.
LEMMA CommandsGoOn ==
  ASSUME TypeOK, NEW o \in Ops, CommandStep(o), NEW r \in Ops, ops[r].pc # "idle"
  PROVE  ops'[r].pc # "idle" /\ ops'[r].target = ops[r].target
  <1> USE DEF TypeOK, Goto
  <1>1. ASSUME NEW t \in Targets, NEW refresh \in BOOLEAN, Begin(o, t, refresh)
        PROVE  ops'[r] = ops[r]
    BY <1>1 DEF Begin
  <1>2. CASE RemoveFile(o)
    BY <1>2 DEF RemoveFile
  <1>3. CASE Forget(o)
    BY <1>3 DEF Forget
  <1>4. CASE Get(o)
    BY <1>4 DEF Get
  <1>5. CASE Persist(o)
    BY <1>5 DEF Persist
  <1>6. CASE Insert(o)
    BY <1>6 DEF Insert
  <1>7. ASSUME NEW how \in {"failed", "cancelled"}, Fail(o, how)
        PROVE  ops'[r].pc # "idle" /\ ops'[r].target = ops[r].target
    BY <1>7 DEF Fail
  <1>8. QED BY <1>1, <1>2, <1>3, <1>4, <1>5, <1>6, <1>7 DEF CommandStep

\* The panel's part of the invariant.
Panel == PanelTypeOK /\ AddressRules /\ ReadsHaveBegun /\ LoadingIsAwaiting /\ AnswerIsShown

\* A panel without an address shows nothing and waits for nothing.
LEMMA BlanksStep == ASSUME PanelInv, Blanks PROVE Panel'
  <1>1. PanelTypeOK /\ ReadsHaveBegun
    BY DEF PanelInv
  <1>2. PanelTypeOK'
    BY <1>1 DEF Blanks, Blank, NotShown, PanelTypeOK
  <1>3. AddressRules' /\ LoadingIsAwaiting' /\ AnswerIsShown'
    BY DEF Blanks, Blank, NotShown, AddressRules, LoadingIsAwaiting, AnswerIsShown
  <1>4. ReadsHaveBegun'
    BY <1>1, NoneAssumption DEF Blanks, Blank, vars, ReadsHaveBegun
  <1>5. QED BY <1>2, <1>3, <1>4 DEF Panel

\* A read begins with a command that has not begun: the answer the panel awaits
\* is that of no earlier read.
LEMMA ReadsStep == ASSUME PanelInv, NEW o \in Ops, Reads(o) PROVE Panel'
  <1> USE NoneAssumption
  <1>0. TypeOK /\ PanelTypeOK /\ ReadsHaveBegun
    BY DEF PanelInv, IInv
  <1>1. PICK force \in BOOLEAN : Run(o, addr', method', force)
    BY DEF Reads
  <1>2. /\ addr' \in Targets /\ method' \in Methods /\ fetched' = method' /\ timer' \in BOOLEAN
        /\ current' = o /\ inFlight' = o /\ reads' = [reads EXCEPT ![o] = method']
        /\ loading' = TRUE /\ error' = FALSE /\ gaveUp' = FALSE /\ UNCHANGED cancels
    BY <1>1 DEF Reads, Run
  <1>3. /\ ops'[o].pc # "idle" /\ ops'[o].target = addr'
        /\ \A r \in Ops \ {o} : ops'[r] = ops[r]
    BY <1>0, <1>1 DEF Run, Begin, TypeOK
  <1>4. PanelTypeOK'
    BY <1>0, <1>2 DEF PanelTypeOK
  <1>5. reads'[o] = method' /\ \A r \in Ops \ {o} : reads'[r] = reads[r]
    BY <1>0, <1>2 DEF PanelTypeOK
  <1>6. AddressRules'
    BY <1>2 DEF AddressRules
  <1>7. ReadsHaveBegun'
    BY <1>0, <1>2, <1>3, <1>5 DEF ReadsHaveBegun
  <1>8. LoadingIsAwaiting' /\ AnswerIsShown'
    BY <1>2, <1>3, <1>5 DEF LoadingIsAwaiting, AnswerIsShown
  <1>9. QED BY <1>4, <1>6, <1>7, <1>8 DEF Panel

\* While the timer is armed the panel may be awaiting the old address, but only
\* for the method it shows.
LEMMA WaitsStep == ASSUME PanelInv, Waits PROVE Panel'
  <1> USE NoneAssumption
  <1>0. PanelTypeOK /\ AddressRules /\ ReadsHaveBegun /\ LoadingIsAwaiting
    BY DEF PanelInv
  <1>1. /\ UNCHANGED <<ops, fetched, current, reads, inFlight, cancels, loading, error, catalog, held, gaveUp>>
        /\ addr' \in Targets /\ method' \in Methods /\ fetched' = method' /\ timer' = TRUE
    BY DEF Waits, vars, read, shown
  <1>2. PanelTypeOK' /\ AddressRules' /\ LoadingIsAwaiting' /\ AnswerIsShown'
    BY <1>0, <1>1 DEF PanelTypeOK, AddressRules, LoadingIsAwaiting, AnswerIsShown
  <1>3. ReadsHaveBegun'
    <2>1. current # None => method' = method
      BY <1>0, <1>1 DEF AddressRules
    <2>2. QED BY <1>0, <1>1, <2>1 DEF ReadsHaveBegun
  <1>4. QED BY <1>2, <1>3 DEF Panel

\* An answer is shown only if it is awaited, and then it is the contract of the
\* address shown, unless the timer is armed.
LEMMA SettleStep == ASSUME PanelInv, NEW o \in Ops, Settle(o) PROVE Panel'
  <1> USE NoneAssumption
  <1>0. TypeOK /\ PanelTypeOK /\ AddressRules /\ ReadsHaveBegun /\ LoadingIsAwaiting /\ AnswerIsShown
    BY DEF PanelInv, IInv
  <1>1. /\ UNCHANGED <<ops, addr, method, fetched, timer, current, cancels>>
        /\ reads' = [reads EXCEPT ![o] = None] /\ reads[o] # None
    BY DEF Settle, vars
  <1>2. reads'[o] = None /\ \A r \in Ops \ {o} : reads'[r] = reads[r]
    BY <1>0, <1>1 DEF PanelTypeOK
  <1>3. ReadsHaveBegun'
    BY <1>0, <1>1, <1>2 DEF ReadsHaveBegun
  <1>4. CASE ~Live(o)
    <2>1. UNCHANGED <<inFlight, loading, error, catalog, held, gaveUp>>
      BY <1>4 DEF Settle, shown
    <2>2. PanelTypeOK' /\ AddressRules' /\ AnswerIsShown'
      BY <1>0, <1>1, <2>1 DEF PanelTypeOK, AddressRules, AnswerIsShown
    <2>3. current # o
      BY <1>0, <1>1, <1>4 DEF ReadsHaveBegun, Live
    <2>4. current # None => reads'[current] = reads[current]
      BY <1>0, <1>2, <2>3 DEF PanelTypeOK
    <2>5. LoadingIsAwaiting'
      BY <1>0, <1>1, <2>1, <2>4 DEF LoadingIsAwaiting
    <2>6. QED BY <1>3, <2>2, <2>5 DEF Panel
  <1>5. CASE Live(o)
    <2>1. /\ current = o /\ reads[o] = method /\ Outcome(o)
          /\ inFlight' = None /\ loading' = FALSE
      BY <1>5 DEF Settle, Live
    <2>2. loading /\ ~error /\ addr # None /\ fetched = method
      BY <1>0, <1>1, <2>1 DEF LoadingIsAwaiting, AddressRules
    <2>3. ~timer => ops[o].target = addr
      BY <1>0, <2>1, <2>2 DEF LoadingIsAwaiting
    <2>4. error' \in BOOLEAN /\ gaveUp' \in BOOLEAN
      BY <1>0, <2>1 DEF Outcome, PanelTypeOK
    <2>5. PanelTypeOK'
      BY <1>0, <1>1, <2>1, <2>4 DEF PanelTypeOK
    <2>6. AddressRules' /\ LoadingIsAwaiting'
      BY <1>1, <1>2, <2>1, <2>2 DEF AddressRules, LoadingIsAwaiting
    <2>7. AnswerIsShown'
      <3>1. CASE /\ catalog' = [target |-> ops[o].target, version |-> ops[o].found]
                 /\ held' = [method |-> reads[o], target |-> ops[o].target, version |-> ops[o].found]
                 /\ error' = error
        <4>1. ops[o].target \in Targets /\ ops[o].found \in Nat
          BY <1>0, <1>1 DEF TypeOK, Versions, ReadsHaveBegun
        <4>2. catalog' # None
          BY <3>1, <4>1
        <4>3. catalog'.target = ops[o].target /\ catalog'.version = ops[o].found
          BY <3>1
        <4>4. QED BY <1>1, <2>1, <2>2, <2>3, <3>1, <4>2, <4>3 DEF AnswerIsShown
      <3>2. CASE catalog' = None /\ held' = None /\ error' = TRUE
        BY <3>2 DEF AnswerIsShown
      <3>3. CASE gaveUp' = TRUE
        BY <3>3 DEF AnswerIsShown
      <3>4. QED BY <2>1, <3>1, <3>2, <3>3 DEF Outcome
    <2>8. QED BY <1>3, <2>5, <2>6, <2>7 DEF Panel
  <1>6. QED BY <1>4, <1>5

\* Commands that go on keep the panel's reads begun and their targets.
LEMMA GoesStep ==
  ASSUME PanelInv, UNCHANGED view,
         \A r \in Ops : ops[r].pc # "idle" => ops'[r].pc # "idle" /\ ops'[r].target = ops[r].target
  PROVE  Panel'
  <1>0. PanelTypeOK /\ AddressRules /\ ReadsHaveBegun /\ LoadingIsAwaiting /\ AnswerIsShown
    BY DEF PanelInv
  <1>1. UNCHANGED <<addr, method, fetched, timer, current, reads, inFlight, cancels,
                    loading, error, catalog, held, gaveUp>>
    BY DEF view, read, shown
  <1>2. PanelTypeOK' /\ AddressRules' /\ AnswerIsShown'
    BY <1>0, <1>1 DEF PanelTypeOK, AddressRules, AnswerIsShown
  <1>3. ReadsHaveBegun'
    BY <1>0, <1>1 DEF ReadsHaveBegun
  <1>4. LoadingIsAwaiting'
    BY <1>0, <1>1 DEF LoadingIsAwaiting, ReadsHaveBegun, PanelTypeOK
  <1>5. QED BY <1>2, <1>3, <1>4 DEF Panel

\* Every step keeps the panel's part.
LEMMA PanelStep == PanelInv /\ [ViewNext]_allVars => Panel'
  <1> SUFFICES ASSUME PanelInv, [ViewNext]_allVars PROVE Panel'
    OBVIOUS
  <1> USE NoneAssumption
  <1>0. TypeOK /\ PanelTypeOK /\ AddressRules /\ ReadsHaveBegun /\ LoadingIsAwaiting /\ AnswerIsShown
    BY DEF PanelInv, IInv
  <1>1. CASE Goes
    <2>1. PICK o \in Ops : CommandStep(o)
      BY <1>1 DEF Goes
    <2>2. QED BY <1>0, <1>1, <2>1, CommandsGoOn, GoesStep DEF Goes
  <1>2. CASE Deploys
    BY <1>2, GoesStep DEF Deploys, Deploy
  <1>3. CASE UNCHANGED allVars
    BY <1>3, GoesStep DEF allVars, vars
  <1>4. CASE Cancel
    <2>1. PanelTypeOK'
      BY <1>0, <1>4 DEF Cancel, shown, PanelTypeOK
    <2>2. AddressRules' /\ ReadsHaveBegun' /\ LoadingIsAwaiting' /\ AnswerIsShown'
      BY <1>0, <1>4 DEF Cancel, shown, vars, AddressRules, ReadsHaveBegun, LoadingIsAwaiting,
                        AnswerIsShown
    <2>3. QED BY <2>1, <2>2 DEF Panel
  <1>5. CASE Reopens
    <2>1. PanelTypeOK'
      BY <1>5 DEF Reopens, NotShown, PanelTypeOK
    <2>2. AddressRules' /\ LoadingIsAwaiting' /\ AnswerIsShown'
      BY <1>5 DEF Reopens, NotShown, AddressRules, LoadingIsAwaiting, AnswerIsShown
    <2>3. ReadsHaveBegun'
      BY <1>5 DEF Reopens, ReadsHaveBegun
    <2>4. QED BY <2>1, <2>2, <2>3 DEF Panel
  <1>6. QED
    BY <1>1, <1>2, <1>3, <1>4, <1>5, PanelCases, BlanksStep, ReadsStep, WaitsStep, SettleStep

\* A panel that opens has its timer armed and shows nothing yet.
LEMMA PanelInit == ViewInit => PanelInv
  <1> SUFFICES ASSUME ViewInit PROVE PanelInv
    OBVIOUS
  <1> USE NoneAssumption DEF ViewInit
  <1>1. IInv
    BY InitInv
  <1>2. PanelTypeOK
    BY DEF PanelTypeOK
  <1>3. AddressRules /\ ReadsHaveBegun /\ LoadingIsAwaiting /\ AnswerIsShown
    BY DEF AddressRules, ReadsHaveBegun, LoadingIsAwaiting, AnswerIsShown
  <1>4. QED BY <1>1, <1>2, <1>3 DEF PanelInv

\* The invariant holds of the cache and the panel together, in every reachable
\* state.
THEOREM PanelInvariance == ViewSpec => []PanelInv
  <1>1. PanelInv /\ [ViewNext]_allVars => PanelInv'
    BY ViewStepsAreCacheSteps, NextInv, PanelStep DEF PanelInv, Panel
  <1>2. QED BY PanelInit, <1>1, PTL DEF ViewSpec

\* The panel tells the truth: it is loading exactly while an answer is awaited
\* that will be shown, and without timer and read it shows the contract of its
\* address and method, catalog and schemas from one answer, whatever was
\* changed, refreshed or answered late before (useContractRead.ts).
THEOREM PanelTellsTheTruth == ViewSpec => []PanelIsCurrent
  <1>1. ASSUME PanelInv PROVE Awaited = IF loading THEN {current} ELSE {}
    BY <1>1, NoneAssumption
       DEF PanelInv, PanelTypeOK, ReadsHaveBegun, LoadingIsAwaiting, Awaited, Live
  <1>2. PanelInv => LoadingIsHonest
    BY <1>1 DEF PanelInv, LoadingIsAwaiting, LoadingIsHonest
  <1>3. PanelInv => CatalogIsCurrent
    BY <1>1 DEF PanelInv, AddressRules, AnswerIsShown, CatalogIsCurrent
  <1>4. QED BY <1>2, <1>3, PanelInvariance, PTL DEF PanelIsCurrent

\* With the panels, sends and restarts that use it, a refresh still sticks and
\* still answers with what the server had when it began, or newer.
THEOREM ViewedRefresh == ViewSpec => [](RefreshSticks /\ RefreshIsFresh)
  <1>1. PanelInv => RefreshSticks /\ RefreshIsFresh
    BY DEF PanelInv, IInv, RefreshSoFar, RefreshIsFresh
  <1>2. QED BY <1>1, PanelInvariance, PTL

-----------------------------------------------------------------------------
(***************************************************************************)
(* Descriptors: the reflection, for any servers of finitely many files and *)
(* any messages, as CorporaAssumption states them.                         *)
(***************************************************************************)

(* The crawl. *)

\* The names in the files are names, and stand for one file each.
LEMMA ServedNames ==
    ASSUME NEW files, files \in Corpora
    PROVE  /\ \A f \in files : f.name \in Names /\ f.deps \subseteq Names
           /\ \A f, g \in files : f.name = g.name => f = g
  BY CorporaAssumption DEF ServedFiles

\* A session's files have what was asked for and are the server's.
LEMMA SessionParts ==
    ASSUME NEW wanted \in SUBSET corpus, NEW files \in Session(wanted)
    PROVE  wanted \subseteq files /\ files \subseteq corpus
  BY DEF Session

\* Taking the files of a session keeps the crawl's account, once the queue has come.
LEMMA TakeKeepsCrawl ==
    ASSUME CrawlSoFar, phase # "failed", corpus' = corpus,
           NEW files \in SUBSET corpus, queue \subseteq NamesOf(files), TakeFiles(files),
           asked' = asked \/ asked' = Append(asked, queue)
    PROVE  /\ byName' \subseteq corpus /\ queue' \subseteq Names
           /\ requested' = NamesOf(byName') \cup queue'
           /\ ImportsOf(byName') \subseteq requested'
           /\ asked' \in Seq(SUBSET Names) /\ AskedApart'
           /\ \A i \in DOMAIN asked' : asked'[i] \subseteq requested' \ queue'
  <1>1. /\ requested = NamesOf(byName) \cup queue
        /\ ImportsOf(byName) \subseteq requested
        /\ \A i \in DOMAIN asked : asked[i] \subseteq requested \ queue
        /\ byName \subseteq corpus /\ asked \in Seq(SUBSET Names) /\ queue \subseteq Names
    BY DEF CrawlSoFar
  <1>2. PICK early \in SUBSET NamesOf(files) :
              queue' = (ImportsOf(files) \ requested) \ early
    BY DEF TakeFiles
  <1>3. /\ byName' = byName \cup files
        /\ requested' = requested \cup NamesOf(files) \cup ImportsOf(files)
    BY DEF TakeFiles
  <1>4. NamesOf(byName') = NamesOf(byName) \cup NamesOf(files)
    BY <1>3 DEF NamesOf
  <1>5. requested' = NamesOf(byName') \cup queue'
    BY <1>1, <1>2, <1>3, <1>4
  <1>6. ImportsOf(byName') \subseteq requested'
    BY <1>1, <1>3 DEF ImportsOf
  <1>7. queue' \cap requested = {} /\ requested \subseteq requested' /\ queue \subseteq requested
    BY <1>1, <1>2, <1>3
  <1>q. queue' \subseteq Names
    <2>1. \A f \in files : f.deps \subseteq Names
      BY ServedNames DEF CrawlSoFar
    <2>2. QED BY <1>2, <2>1 DEF ImportsOf
  <1>8. CASE asked' = asked
    BY <1>q, <1>1, <1>3, <1>5, <1>6, <1>7, <1>8 DEF AskedApart, CrawlSoFar
  <1>9. CASE asked' = Append(asked, queue)
    <2>1. /\ asked' \in Seq(SUBSET Names) /\ DOMAIN asked' = 1 .. Len(asked) + 1
          /\ \A i \in 1 .. Len(asked) : asked'[i] = asked[i]
          /\ asked'[Len(asked) + 1] = queue
      BY <1>1, <1>9
    <2>2. DOMAIN asked = 1 .. Len(asked) /\ Len(asked) \in Nat
      BY <1>1
    <2>3. \A i \in DOMAIN asked' : asked'[i] \subseteq requested' \ queue'
      BY <1>1, <1>7, <2>1, <2>2
    <2>4. AskedApart'
      <3>1. ASSUME NEW i \in DOMAIN asked', NEW j \in DOMAIN asked', i < j
            PROVE  asked'[i] \cap asked'[j] = {}
        <4>1. CASE j = Len(asked) + 1
          BY <1>1, <2>1, <2>2, <3>1, <4>1
        <4>2. CASE j # Len(asked) + 1
          <5>1. i \in DOMAIN asked /\ j \in DOMAIN asked
            BY <2>1, <2>2, <3>1, <4>2
          <5>2. asked[i] \cap asked[j] = {}
            BY <3>1, <5>1 DEF CrawlSoFar, AskedApart
          <5>3. QED BY <2>1, <2>2, <5>1, <5>2
        <4>3. QED BY <4>1, <4>2
      <3>2. QED BY <3>1 DEF AskedApart
    <2>5. QED BY <1>3, <1>1, <1>5, <1>6, <1>q, <2>1, <2>3, <2>4
  <1>10. QED BY <1>8, <1>9

\* Nothing has been asked for at first.
LEMMA CrawlInit == ReflectInit => CrawlSoFar
  BY DEF ReflectInit, CrawlSoFar, AskedApart, NamesOf, ImportsOf

\* Steps after the crawl leave it alone.
LEMMA CrawlIsOver ==
    ASSUME CrawlSoFar, UNCHANGED <<corpus, crawl>>,
           \/ phase' = "failed"
           \/ phase' = phase
           \/ phase \in {"assemble", "describe"} /\ phase' \in {"describe", "done"}
    PROVE  CrawlSoFar'
  BY DEF CrawlSoFar, AskedApart, crawl, NamesOf, ImportsOf, Declared, Declares

\* Every step keeps the account of the crawl.
LEMMA CrawlStep == CrawlSoFar /\ [ReflectNext]_reflectVars => CrawlSoFar'
  <1> SUFFICES ASSUME CrawlSoFar, [ReflectNext]_reflectVars PROVE CrawlSoFar'
    OBVIOUS
  <1>1. CASE SessionFails
    <2>1. CASE phase' = "failed" /\ UNCHANGED crawl
      BY <1>1, <2>1, CrawlIsOver DEF SessionFails
    <2>2. CASE StartOver("v1alpha")
      BY <1>1, <2>2 DEF SessionFails, StartOver, CrawlSoFar, AskedApart, NamesOf, ImportsOf
    <2>3. QED BY <1>1, <2>1, <2>2 DEF SessionFails
  <1>2. CASE ListServices
    BY <1>2 DEF ListServices, CrawlSoFar, AskedApart, NamesOf, ImportsOf
  <1>3. CASE FetchSymbols
    <2>1. PICK found \in [listed -> corpus] :
               /\ \A s \in listed : s \in Declares(found[s])
               /\ \E files \in Session({found[s] : s \in listed}) : TakeFiles(files)
      BY <1>3 DEF FetchSymbols
    <2> DEFINE wanted == {found[s] : s \in listed}
    <2>2. PICK files \in Session(wanted) : TakeFiles(files)
      BY <2>1
    <2>3. wanted \in SUBSET corpus
      BY <2>1
    <2>4. wanted \subseteq files /\ files \subseteq corpus
      <3> HIDE DEF wanted
      <3>1. QED BY <2>2, <2>3, SessionParts
    <2>5. phase = "symbols" /\ phase' = "crawl" /\ UNCHANGED <<corpus, listed, asked>> /\ queue = {}
      BY <1>3 DEF FetchSymbols, CrawlSoFar
    <2>6. /\ byName' \subseteq corpus
          /\ requested' = NamesOf(byName') \cup queue'
          /\ ImportsOf(byName') \subseteq requested'
          /\ queue' \subseteq Names /\ asked' \in Seq(SUBSET Names) /\ AskedApart'
          /\ \A i \in DOMAIN asked' : asked'[i] \subseteq requested' \ queue'
      <3> HIDE DEF wanted
      <3>1. QED BY <2>2, <2>4, <2>5, TakeKeepsCrawl
    <2>7. listed \subseteq Declared(byName')
      <3>1. files \subseteq byName'
        BY <2>2 DEF TakeFiles
      <3>2. QED BY <2>1, <2>4, <3>1 DEF Declared
    <2>8. (listed \subseteq Declared(byName))'
      BY <2>5, <2>7 DEF Declared, Declares
    <2>9. (NamesOf(byName))' = NamesOf(byName') /\ (ImportsOf(byName))' = ImportsOf(byName')
      BY DEF NamesOf, ImportsOf
    <2>10. corpus' \in Corpora /\ byName' \subseteq corpus'
      BY <2>5, <2>6 DEF CrawlSoFar
    <2>11. QED BY <2>5, <2>6, <2>8, <2>9, <2>10 DEF CrawlSoFar
  <1>4. CASE CrawlBatch
    <2>1. /\ phase = "crawl" /\ UNCHANGED <<corpus, listed>> /\ asked' = Append(asked, queue)
      BY <1>4 DEF CrawlBatch
    <2>2. CASE queue \subseteq NamesOf(corpus)
      <3> DEFINE wanted == {f \in corpus : f.name \in queue}
      <3>1. PICK files \in Session(wanted) : TakeFiles(files)
        BY <1>4, <2>2 DEF CrawlBatch
      <3>2. wanted \in SUBSET corpus /\ phase' = phase
        BY <1>4, <2>2 DEF CrawlBatch
      <3>3. wanted \subseteq files /\ files \subseteq corpus
        <4> HIDE DEF wanted
        <4>1. QED BY <3>1, <3>2, SessionParts
      <3>4. queue \subseteq NamesOf(files)
        BY <2>2, <3>3 DEF NamesOf
      <3>6. /\ byName' \subseteq corpus
            /\ requested' = NamesOf(byName') \cup queue'
            /\ ImportsOf(byName') \subseteq requested'
            /\ queue' \subseteq Names /\ asked' \in Seq(SUBSET Names) /\ AskedApart'
            /\ \A i \in DOMAIN asked' : asked'[i] \subseteq requested' \ queue'
        <4> HIDE DEF wanted
        <4>1. QED BY <2>1, <3>1, <3>3, <3>4, TakeKeepsCrawl
      <3>7. (listed \subseteq Declared(byName))'
        <4>1. byName \subseteq byName' /\ listed \subseteq Declared(byName)
          BY <2>1, <3>1 DEF TakeFiles, CrawlSoFar
        <4>2. QED BY <2>1, <4>1 DEF Declared, Declares
      <3>8. (NamesOf(byName))' = NamesOf(byName') /\ (ImportsOf(byName))' = ImportsOf(byName')
        BY DEF NamesOf, ImportsOf
      <3>9. corpus' \in Corpora /\ byName' \subseteq corpus'
        BY <2>1, <3>6 DEF CrawlSoFar
      <3>10. QED BY <2>1, <3>2, <3>6, <3>7, <3>8, <3>9 DEF CrawlSoFar
    <2>3. CASE ~(queue \subseteq NamesOf(corpus))
      <3>1. phase' = "failed" /\ UNCHANGED byName
        BY <1>4, <2>3 DEF CrawlBatch
      <3>2. /\ asked \in Seq(SUBSET Names) /\ queue \subseteq Names /\ AskedApart
            /\ \A i \in DOMAIN asked : asked[i] \cap queue = {}
        BY <2>1 DEF CrawlSoFar
      <3>3. AskedApart' /\ asked' \in Seq(SUBSET Names)
        <4>1. /\ asked' \in Seq(SUBSET Names) /\ DOMAIN asked' = 1 .. Len(asked) + 1
              /\ \A i \in 1 .. Len(asked) : asked'[i] = asked[i]
              /\ asked'[Len(asked) + 1] = queue
          BY <2>1, <3>2
        <4>2. DOMAIN asked = 1 .. Len(asked) /\ Len(asked) \in Nat
          BY <3>2
        <4>3. ASSUME NEW i \in DOMAIN asked', NEW j \in DOMAIN asked', i < j
              PROVE  asked'[i] \cap asked'[j] = {}
          <5>1. CASE j = Len(asked) + 1
            BY <3>2, <4>1, <4>2, <4>3, <5>1
          <5>2. CASE j # Len(asked) + 1
            BY <3>2, <4>1, <4>2, <4>3, <5>2 DEF AskedApart
          <5>3. QED BY <5>1, <5>2
        <4>4. QED BY <4>1, <4>3 DEF AskedApart
      <3>4. UNCHANGED <<queue, requested>>
        BY <1>4, <2>3 DEF CrawlBatch
      <3>5. QED BY <2>1, <3>1, <3>2, <3>3, <3>4 DEF CrawlSoFar
    <2>4. QED BY <2>2, <2>3
  <1>5. CASE Crawled
    BY <1>5 DEF Crawled, CrawlSoFar, crawl, AskedApart, NamesOf, ImportsOf, Declared, Declares
  <1>6. CASE Assemble
    BY <1>6, CrawlIsOver DEF Assemble
  <1>7. CASE Describe
    BY <1>7, CrawlIsOver DEF Describe
  <1>8. CASE Emit
    BY <1>8, CrawlIsOver DEF Emit
  <1>9. CASE Described
    BY <1>9, CrawlIsOver DEF Described
  <1>10. CASE UNCHANGED reflectVars
    BY <1>10, CrawlIsOver DEF reflectVars
  <1>11. QED
    BY <1>1, <1>2, <1>3, <1>4, <1>5, <1>6, <1>7, <1>8, <1>9, <1>10 DEF ReflectNext

-----------------------------------------------------------------------------
(* Lists of files, and what the files of one reach. *)

\* A set of numbers has a least one, and Min is it.
LEMMA LeastIsThere ==
    ASSUME NEW S \in SUBSET Nat, S # {}
    PROVE  Min(S) \in S /\ \A y \in S : Min(S) <= y
  <1> DEFINE R == {p \in Nat \X Nat : p[1] < p[2]}
  <1>1. IsWellFoundedOn(R, Nat)
    BY NatLessThanWellFounded DEF OpToRel
  <1>2. PICK x \in S : \A y \in S : ~(<<y, x>> \in R)
    <2> HIDE DEF R
    <2>1. QED BY <1>1, WFMin
  <1>3. \A y \in S : ~(y < x)
    BY <1>2
  <1>4. \A y \in S : x <= y
    BY <1>3
  <1>5. QED BY <1>4 DEF Min

\* The orders of a finite set have just its members.
LEMMA OrdersAreOnto ==
    ASSUME NEW S, IsFiniteSet(S), NEW o \in SetToSeqs(S)
    PROVE  o \in Seq(S) /\ ToSet(o) = S
  <1> DEFINE n == Cardinality(S)
  <1>1. n \in Nat
    BY FS_CardinalityType
  <1>2. o \in [1 .. n -> S] /\ \A i, j \in 1 .. n : i # j => o[i] # o[j]
    BY DEF SetToSeqs
  <1> HIDE DEF n
  <1>3. o \in Injection(1 .. n, S)
    BY <1>2 DEF Injection, IsInjective
  <1>4. Cardinality(1 .. n) = n
    BY <1>1, FS_Interval
  <1>5. o \in Surjection(1 .. n, S)
    BY <1>3, <1>4, FS_Injection DEF n
  <1>6. QED BY <1>1, <1>2, <1>5 DEF Surjection, ToSet

\* Files with names of their own can be listed by name: the place of a file is the number
\* of names up to its own.
LEMMA ByNameLists ==
    ASSUME NEW S, IsFiniteSet(S), \A f \in S : f.name \in Nat,
           \A f, g \in S : f.name = g.name => f = g
    PROVE  ByName(S) \in Seq(S) /\ ToSet(ByName(S)) = S
  <1> DEFINE n == Cardinality(S)
             upTo(f) == {g \in S : g.name <= f.name}
             rank == [f \in S |-> Cardinality(upTo(f))]
  <1>1. n \in Nat
    BY FS_CardinalityType
  <1>2. \A f \in S : /\ IsFiniteSet(upTo(f)) /\ Cardinality(upTo(f)) \in Nat
                     /\ Cardinality(upTo(f)) <= n /\ Cardinality(upTo(f)) # 0
    <2> TAKE f \in S
    <2>1. upTo(f) \in SUBSET S /\ f \in upTo(f)
      OBVIOUS
    <2> HIDE DEF upTo
    <2>2. IsFiniteSet(upTo(f)) /\ Cardinality(upTo(f)) <= Cardinality(S)
      BY <2>1, FS_Subset
    <2>3. Cardinality(upTo(f)) \in Nat /\ Cardinality(upTo(f)) # 0
      BY <2>1, <2>2, FS_CardinalityType, FS_EmptySet
    <2>4. QED BY <2>2, <2>3
  <1>3. \A f, g \in S : f.name < g.name => Cardinality(upTo(f)) < Cardinality(upTo(g))
    <2> TAKE f, g \in S
    <2> HAVE f.name < g.name
    <2>1. upTo(f) \in SUBSET upTo(g) /\ g \in upTo(g) /\ g \notin upTo(f)
      OBVIOUS
    <2>2. IsFiniteSet(upTo(g)) /\ Cardinality(upTo(g)) \in Nat /\ Cardinality(upTo(f)) \in Nat
      BY <1>2
    <2> HIDE DEF upTo
    <2>3. Cardinality(upTo(f)) <= Cardinality(upTo(g)) /\ Cardinality(upTo(f)) # Cardinality(upTo(g))
      BY <2>1, <2>2, FS_Subset
    <2>4. QED BY <2>2, <2>3
  <1>4. rank \in [S -> 1 .. n]
    <2> HIDE DEF upTo, n
    <2>1. QED BY <1>1, <1>2
  <1>5. rank \in Injection(S, 1 .. n)
    <2>1. ASSUME NEW f \in S, NEW g \in S, rank[f] = rank[g] PROVE f = g
      <3> DEFINE low == Cardinality(upTo(f))
                 high == Cardinality(upTo(g))
      <3>1. low = high /\ low \in Nat /\ high \in Nat
        BY <1>2, <2>1
      <3>2. f.name < g.name => low < high
        BY <1>3
      <3>3. g.name < f.name => high < low
        BY <1>3
      <3> HIDE DEF low, high
      <3>4. QED BY <3>1, <3>2, <3>3
    <2> HIDE DEF rank
    <2>2. QED BY <1>4, <2>1 DEF Injection, IsInjective
  <1>6. rank \in Surjection(S, 1 .. n)
    <2>1. IsFiniteSet(1 .. n) /\ Cardinality(1 .. n) = n
      <3> HIDE DEF n
      <3>1. QED BY <1>1, FS_Interval
    <2> HIDE DEF rank
    <2>2. QED BY <1>5, <2>1, FS_Injection
  <1> DEFINE o == [i \in 1 .. n |-> CHOOSE f \in S : rank[f] = i]
  <1>7. \A i \in 1 .. n : o[i] \in S /\ rank[o[i]] = i
    <2> HIDE DEF rank, n
    <2>1. QED BY <1>6 DEF Surjection
  <1>8. o \in SetToSeqs(S)
    <2> HIDE DEF rank
    <2>1. o \in [1 .. n -> S] /\ \A i, j \in 1 .. n : i # j => o[i] # o[j]
      <3> HIDE DEF n
      <3>1. QED BY <1>7
    <2>2. QED BY <2>1 DEF SetToSeqs
  <1>9. \A i, j \in DOMAIN o : i < j => o[i].name < o[j].name
    <2> SUFFICES ASSUME NEW i \in 1 .. n, NEW j \in 1 .. n, i < j PROVE o[i].name < o[j].name
      OBVIOUS
    <2>1. o[i] \in S /\ o[j] \in S /\ rank[o[i]] = i /\ rank[o[j]] = j
      BY <1>7
    <2> HIDE DEF o
    <2>2. Cardinality(upTo(o[i])) = i /\ Cardinality(upTo(o[j])) = j
      <3> HIDE DEF upTo
      <3>1. QED BY <2>1
    <2>3. o[j].name < o[i].name => j < i
      BY <1>3, <2>1, <2>2
    <2>4. o[i].name = o[j].name => i = j
      BY <2>1, <2>2
    <2> HIDE DEF n
    <2>5. QED BY <1>1, <2>1, <2>3, <2>4
  <1>10. ByName(S) \in SetToSeqs(S)
    <2> HIDE DEF o
    <2>1. QED BY <1>8, <1>9 DEF ByName
  <1>11. QED BY <1>10, OrdersAreOnto

\* A file reaches itself and what its imports reach.
LEMMA ImportedFromFile ==
    ASSUME NEW files, ServedFiles(files), NEW f \in files
    PROVE  Imported(files, {f.name}) = {f.name} \cup Imported(files, f.deps)
  <1>1. /\ \A g \in files : g.name \in Names /\ g.deps \subseteq Names
        /\ \A g \in files : g.name = f.name => g = f
    BY DEF ServedFiles
  <1> DEFINE own == Imported(files, {f.name})
             rest == Imported(files, f.deps)
  <1>2. /\ f.name \in own /\ own \subseteq Names
        /\ \A g \in files : g.name \in own => g.deps \subseteq own
        /\ \A r \in SUBSET Names :
             {f.name} \subseteq r /\ (\A g \in files : g.name \in r => g.deps \subseteq r) => own \subseteq r
    <2>1. {f.name} \in SUBSET Names /\ \A g \in files : g.deps \subseteq Names
      BY <1>1
    <2>2. QED BY <2>1 DEF Imported
  <1>3. /\ f.deps \subseteq rest /\ rest \subseteq Names
        /\ \A g \in files : g.name \in rest => g.deps \subseteq rest
        /\ \A r \in SUBSET Names :
             f.deps \subseteq r /\ (\A g \in files : g.name \in r => g.deps \subseteq r) => rest \subseteq r
    <2>1. f.deps \in SUBSET Names /\ \A g \in files : g.deps \subseteq Names
      BY <1>1
    <2>2. QED BY <2>1 DEF Imported
  <1> HIDE DEF own, rest
  <1>4. rest \subseteq own
    BY <1>2, <1>3
  <1>5. own \subseteq {f.name} \cup rest
    <2>1. {f.name} \cup rest \in SUBSET Names
      BY <1>1, <1>3
    <2>2. \A g \in files : g.name \in {f.name} \cup rest => g.deps \subseteq {f.name} \cup rest
      BY <1>1, <1>3
    <2>3. QED BY <1>2, <2>1, <2>2
  <1>6. QED BY <1>2, <1>4, <1>5 DEF own, rest

-----------------------------------------------------------------------------
(* The pools. *)

\* service_closure lists the files that its root reaches.
LEMMA ClosureParts ==
    ASSUME NEW files, ServedFiles(files), NEW f \in files
    PROVE  /\ Closure(files, f) \in Seq(files)
           /\ ToSet(Closure(files, f)) = Reached(files, f)
  <1> DEFINE S == {g \in files : g.name \in Imported(files, f.deps)} \ {f}
             list == ByName(S)
  <1>1. IsFiniteSet(files) /\ \A g, h \in files : g.name = h.name => g = h
    BY DEF ServedFiles
  <1>2. \A g \in files : g.name \in Nat
    BY CorporaAssumption DEF ServedFiles
  <1>3. S \in SUBSET files
    OBVIOUS
  <1>4. list \in Seq(S) /\ ToSet(list) = S
    <2> HIDE DEF S
    <2>1. IsFiniteSet(S)
      BY <1>1, <1>3, FS_Subset
    <2>2. /\ \A g \in S : g.name \in Nat
          /\ \A g, h \in S : g.name = h.name => g = h
      BY <1>1, <1>2, <1>3
    <2>3. QED BY <2>1, <2>2, ByNameLists
  <1>5. Closure(files, f) = <<f>> \o list
    BY DEF Closure
  <1>6. list \in Seq(files) /\ \A i \in DOMAIN list : list[i] \in S
    <2> HIDE DEF S, list
    <2>1. QED BY <1>3, <1>4
  <1>7. Closure(files, f) \in Seq(files)
    <2> HIDE DEF list
    <2>1. QED BY <1>5, <1>6
  <1>8. ToSet(Closure(files, f)) = {f} \cup S
    <2> HIDE DEF list, S
    <2>1. \A s \in S : \E i \in DOMAIN list : list[i] = s
      BY <1>4 DEF ToSet
    <2> DEFINE c == <<f>> \o list
    <2>2. /\ DOMAIN list = 1 .. Len(list) /\ Len(list) \in Nat
          /\ DOMAIN c = 1 .. Len(list) + 1
          /\ c[1] = f /\ \A i \in 1 .. Len(list) : c[i + 1] = list[i]
      BY <1>6
    <2> HIDE DEF c
    <2>3. \A i \in DOMAIN c : c[i] \in {f} \cup S
      <3> TAKE i \in DOMAIN c
      <3>1. CASE i = 1
        BY <2>2, <3>1
      <3>2. CASE i # 1
        <4>1. i - 1 \in 1 .. Len(list) /\ (i - 1) + 1 = i
          BY <2>2, <3>2
        <4>2. c[i] = list[i - 1]
          BY <2>2, <4>1
        <4>3. QED BY <1>6, <2>2, <4>1, <4>2
      <3>3. QED BY <3>1, <3>2
    <2>4. \A s \in {f} \cup S : \E i \in DOMAIN c : c[i] = s
      <3>1. 1 \in DOMAIN c
        BY <2>2
      <3>2. ASSUME NEW s \in S PROVE \E i \in DOMAIN c : c[i] = s
        <4>1. PICK i \in 1 .. Len(list) : list[i] = s
          BY <2>1, <2>2
        <4>2. i + 1 \in DOMAIN c
          BY <2>2
        <4>3. QED BY <2>2, <4>1, <4>2
      <3>3. QED BY <2>2, <3>1, <3>2
    <2>5. QED BY <1>5, <2>3, <2>4 DEF ToSet, c
  <1>9. Imported(files, {f.name}) = {f.name} \cup Imported(files, f.deps)
    BY ImportedFromFile
  <1>10. {f} \cup S = Reached(files, f)
    BY <1>1, <1>9 DEF Reached
  <1>11. QED BY <1>7, <1>8, <1>10

\* Pruning leaves a declaration as it is, or out.
LEMMA PruneParts ==
    ASSUME NEW files, \A f \in files : Uses(f) \subseteq Types, NEW list \in Seq(files)
    PROVE  \A g \in ToSet(Prune(list)) : Uses(g) \subseteq Types
  <1> SUFFICES ASSUME NEW i \in DOMAIN Prune(list) PROVE Uses(Prune(list)[i]) \subseteq Types
    BY DEF ToSet
  <1> DEFINE keeps == {s \in Declares(list[i]) : Owner(list, s) = i}
  <1>1. i \in DOMAIN list /\ list[i] \in files
    BY DEF Prune
  <1>2. Prune(list)[i].refs = Restrict(list[i].refs, keeps)
    BY <1>1 DEF Prune
  <1>3. keeps \subseteq DOMAIN list[i].refs
    BY DEF Declares
  <1>4. \A s \in DOMAIN list[i].refs : list[i].refs[s] \subseteq Types
    BY <1>1 DEF Uses, Declares
  <1> HIDE DEF keeps
  <1>5. QED BY <1>2, <1>3, <1>4 DEF Uses, Declares, Restrict

\* The pool of a root can be built, if there is one; and there is, of the files it reaches,
\* if these can be built.
LEMMA IsolatedParts ==
    ASSUME NEW files, ServedFiles(files), NEW f \in files
    PROVE  /\ Isolated(files, f) # {} =>
                Builds(Isolated(files, f)) /\ \A g \in Isolated(files, f) : Uses(g) \subseteq Types
           /\ Builds(Reached(files, f)) => Isolated(files, f) = Reached(files, f)
           /\ f \in Reached(files, f)
  <1> DEFINE list == Closure(files, f)
             pruned == ToSet(Prune(list))
  <1>1. list \in Seq(files) /\ ToSet(list) = Reached(files, f)
    BY ClosureParts
  <1>2. \A g \in files : Uses(g) \subseteq Types
    BY DEF ServedFiles
  <1>3. \A g \in pruned : Uses(g) \subseteq Types
    <2> HIDE DEF list
    <2>1. QED BY <1>1, <1>2, PruneParts
  <1>4. Isolated(files, f) = IF Builds(ToSet(list)) THEN ToSet(list)
                             ELSE IF Builds(pruned) THEN pruned ELSE {}
    BY DEF Isolated
  <1>5. f \in Reached(files, f)
    BY ImportedFromFile DEF Reached
  <1>6. Reached(files, f) \subseteq files
    BY DEF Reached
  <1> HIDE DEF list, pruned
  <1>7. QED BY <1>1, <1>2, <1>3, <1>4, <1>5, <1>6

\* The roots of pools, in whatever order the files are.
LEMMA RootsParts ==
    ASSUME NEW files, ServedFiles(files), NEW order \in Orders(files)
    PROVE  /\ ToSet(order) = files
           /\ Roots(order) \in Seq(files)
           /\ ToSet(Roots(order)) = {f \in files : Salvaged(files, f)}
  <1>1. /\ IsFiniteSet(files) /\ \A g, h \in files : g.name = h.name => g = h
        /\ \A g \in files : g.name \in Nat
    BY CorporaAssumption DEF ServedFiles
  <1>2. ToSet(order) = files
    BY <1>1, OrdersAreOnto DEF Orders
  <1> DEFINE S == {f \in files : Salvaged(files, f)}
  <1>3. Roots(order) = ByName(S)
    BY <1>2 DEF Roots
  <1>4. S \in SUBSET files
    OBVIOUS
  <1> HIDE DEF S
  <1>5. IsFiniteSet(S)
    BY <1>1, <1>4, FS_Subset
  <1>6. ByName(S) \in Seq(S) /\ ToSet(ByName(S)) = S
    <2>1. /\ \A g \in S : g.name \in Nat
          /\ \A g, h \in S : g.name = h.name => g = h
      BY <1>1, <1>4
    <2>2. QED BY <1>5, <2>1, ByNameLists
  <1>7. ByName(S) \in Seq(files)
    BY <1>4, <1>6
  <1>8. QED BY <1>2, <1>3, <1>6, <1>7 DEF S

\* The pools can be built, whatever order the files came in they are the same, and a file
\* that can be assembled with what it imports has its services in one.
LEMMA PoolSetParts ==
    ASSUME NEW files, ServedFiles(files), NEW order \in Orders(files),
           NEW set, set = BuildPoolSet(order)
    PROVE  /\ DOMAIN set \subseteq Nat
           /\ \A i \in DOMAIN set : Builds(set[i]) /\ \A g \in set[i] : Uses(g) \subseteq Types
           /\ \A f \in files : Builds(Reached(files, f)) =>
                Declares(f) \cap Services \subseteq UNION {Declared(set[i]) : i \in DOMAIN set}
           /\ \A other \in Orders(files) : BuildPoolSet(other) = set
  <1>1. /\ ToSet(order) = files /\ Roots(order) \in Seq(files)
        /\ ToSet(Roots(order)) = {f \in files : Salvaged(files, f)}
    BY RootsParts
  <1>2. set = IF Builds(files) THEN <<files>>
              ELSE [i \in DOMAIN Roots(order) |-> Isolated(files, Roots(order)[i])]
    BY <1>1 DEF BuildPoolSet
  <1>3. \A other \in Orders(files) : BuildPoolSet(other) = set
    <2> TAKE other \in Orders(files)
    <2>1. ToSet(other) = files
      BY RootsParts
    <2>2. Roots(other) = Roots(order)
      BY <1>1, <2>1 DEF Roots
    <2>3. QED BY <1>2, <2>1, <2>2 DEF BuildPoolSet
  <1>4. CASE Builds(files)
    <2>1. set = <<files>>
      BY <1>2, <1>4
    <2>2. DOMAIN set = {1} /\ set[1] = files
      BY <2>1
    <2>3. \A f \in files : Uses(f) \subseteq Types
      BY DEF ServedFiles
    <2>4. \A f \in files : Declares(f) \subseteq Declared(set[1])
      BY <2>2 DEF Declared
    <2>5. QED BY <1>3, <1>4, <2>2, <2>3, <2>4
  <1>5. CASE ~Builds(files)
    <2> DEFINE roots == Roots(order)
    <2>1. set = [i \in DOMAIN roots |-> Isolated(files, roots[i])]
      BY <1>2, <1>5
    <2>2. \A i \in DOMAIN roots : roots[i] \in files /\ Salvaged(files, roots[i])
      BY <1>1 DEF ToSet
    <2>3. DOMAIN roots \subseteq Nat
      BY <1>1
    <2> HIDE DEF roots
    <2>4. DOMAIN set \subseteq Nat
      BY <2>1, <2>3
    <2>5. \A i \in DOMAIN set : Builds(set[i]) /\ \A g \in set[i] : Uses(g) \subseteq Types
      BY <2>1, <2>2, IsolatedParts DEF Salvaged
    <2>6. ASSUME NEW f \in files, Builds(Reached(files, f)), NEW s \in Declares(f) \cap Services
          PROVE  \E i \in DOMAIN set : s \in Declared(set[i])
      <3>1. Isolated(files, f) = Reached(files, f) /\ f \in Reached(files, f)
        BY <2>6, IsolatedParts
      <3>2. Salvaged(files, f)
        BY <2>6, <3>1 DEF Salvaged
      <3>3. PICK i \in DOMAIN roots : roots[i] = f
        BY <1>1, <3>2 DEF ToSet, roots
      <3>4. i \in DOMAIN set /\ f \in set[i]
        BY <2>1, <3>1, <3>3
      <3>5. QED BY <3>4 DEF Declared
    <2>7. QED BY <1>3, <2>4, <2>5, <2>6
  <1>6. QED BY <1>4, <1>5

\* PoolSet::push keeps the first pool of each service.
LEMMA IndexParts ==
    ASSUME NEW set, DOMAIN set \subseteq Nat
    PROVE  /\ DOMAIN IndexServices(set) = Services \cap UNION {Declared(set[i]) : i \in DOMAIN set}
           /\ \A s \in DOMAIN IndexServices(set) :
                LET own == IndexServices(set)[s] IN
                  /\ own \in DOMAIN set /\ s \in Declared(set[own])
                  /\ \A i \in DOMAIN set : s \in Declared(set[i]) => own <= i
  <1> DEFINE known == Services \cap UNION {Declared(set[i]) : i \in DOMAIN set}
  <1>1. DOMAIN IndexServices(set) = known
    BY DEF IndexServices
  <1>2. ASSUME NEW s \in known
        PROVE  LET own == IndexServices(set)[s] IN
                  /\ own \in DOMAIN set /\ s \in Declared(set[own])
                  /\ \A i \in DOMAIN set : s \in Declared(set[i]) => own <= i
    <2> DEFINE having == {i \in DOMAIN set : s \in Declared(set[i])}
    <2>1. IndexServices(set)[s] = Min(having)
      BY DEF IndexServices
    <2>2. having \in SUBSET Nat /\ having # {}
      OBVIOUS
    <2>3. Min(having) \in having /\ \A i \in having : Min(having) <= i
      <3> HIDE DEF having
      <3>1. QED BY <2>2, LeastIsThere
    <2> DEFINE own == Min(having)
    <2>4. own \in having /\ \A i \in having : own <= i
      BY <2>3
    <2> HIDE DEF own
    <2>5. QED BY <2>1, <2>4 DEF own
  <1> HIDE DEF known
  <1>3. QED BY <1>1, <1>2 DEF known

\* There are no pools at first.
LEMMA PoolsInit == ReflectInit => PoolsSoFar
  BY DEF ReflectInit, PoolsSoFar

\* The pools are those of the files received, and stay.
LEMMA PoolsStep == PoolsSoFar /\ [ReflectNext]_reflectVars => PoolsSoFar'
  <1> SUFFICES ASSUME PoolsSoFar, [ReflectNext]_reflectVars PROVE PoolsSoFar'
    OBVIOUS
  <1>1. ASSUME phase' \notin {"describe", "done"} PROVE PoolsSoFar'
    BY <1>1 DEF PoolsSoFar
  <1>2. ASSUME phase \in {"describe", "done"}, UNCHANGED <<byName, pools, byService>> PROVE PoolsSoFar'
    <2>1. PICK files \in Orders(byName) : pools = BuildPoolSet(files) /\ byService = IndexServices(pools)
      BY <1>2 DEF PoolsSoFar
    <2>2. Orders(byName') = Orders(byName) /\ pools' = BuildPoolSet(files) /\ byService' = IndexServices(pools')
      BY <1>2, <2>1
    <2>3. \E order \in Orders(byName') : pools' = BuildPoolSet(order)
      BY <2>1, <2>2
    <2>4. QED BY <2>2, <2>3 DEF PoolsSoFar, Orders, BuildPoolSet, IndexServices
  <1>3. CASE Assemble
    <2>1. PICK files \in Orders(byName) : pools' = BuildPoolSet(files)
      BY <1>3 DEF Assemble
    <2>2. byName' = byName /\ byService' = IndexServices(pools')
      BY <1>3 DEF Assemble, crawl
    <2>3. \E order \in Orders(byName') : pools' = BuildPoolSet(order)
      BY <2>1, <2>2
    <2>4. QED BY <2>2, <2>3 DEF PoolsSoFar, Orders, BuildPoolSet, IndexServices
  <1>4. CASE SessionFails \/ ListServices \/ FetchSymbols \/ CrawlBatch \/ Crawled
    BY <1>1, <1>4 DEF SessionFails, StartOver, ListServices, FetchSymbols, CrawlBatch, Crawled
  <1>5. CASE Describe \/ Emit \/ Described
    BY <1>2, <1>5 DEF Describe, Emit, Described, crawl
  <1>6. CASE UNCHANGED reflectVars
    BY <1>1, <1>2, <1>6 DEF reflectVars, crawl
  <1>7. QED BY <1>3, <1>4, <1>5, <1>6 DEF ReflectNext

\* What the crawl brought are files as a server has them.
LEMMA CrawledFiles == CrawlSoFar => ServedFiles(byName)
  <1> SUFFICES ASSUME CrawlSoFar PROVE ServedFiles(byName)
    OBVIOUS
  <1>1. byName \in SUBSET corpus /\ corpus \in Corpora
    BY DEF CrawlSoFar
  <1>2. ServedFiles(corpus)
    BY <1>1, CorporaAssumption
  <1>3. IsFiniteSet(byName)
    BY <1>1, <1>2, FS_Subset DEF ServedFiles
  <1>4. QED BY <1>1, <1>2, <1>3 DEF ServedFiles

\* So the pools are what PoolSetParts says, as long as there are any.
LEMMA PoolsParts ==
    ASSUME CrawlSoFar, PoolsSoFar, phase \in {"describe", "done"}
    PROVE  /\ DOMAIN pools \subseteq Nat
           /\ \A i \in DOMAIN pools : Builds(pools[i]) /\ \A g \in pools[i] : Uses(g) \subseteq Types
           /\ \A f \in byName : Builds(Reached(byName, f)) =>
                Declares(f) \cap Services \subseteq UNION {Declared(pools[i]) : i \in DOMAIN pools}
           /\ \A other \in Orders(byName) : BuildPoolSet(other) = pools
           /\ byService = IndexServices(pools)
  <1>1. ServedFiles(byName)
    BY CrawledFiles
  <1>2. PICK order \in Orders(byName) : pools = BuildPoolSet(order)
    BY DEF PoolsSoFar
  <1>3. byService = IndexServices(pools)
    BY DEF PoolsSoFar
  <1>4. QED BY <1>1, <1>2, <1>3, PoolSetParts

-----------------------------------------------------------------------------
(* The schema. *)

\* What a declared message of a pool that can be built refers to is declared in it.
LEMMA RefersInPool ==
    ASSUME NEW pool, Builds(pool), \A g \in pool : Uses(g) \subseteq Types, NEW t
    PROVE  Refers(pool, t) \subseteq Types /\ Refers(pool, t) \subseteq Declared(pool)
  <1>1. \A f \in pool : Uses(f) \subseteq Declared(Reached(pool, f))
    BY DEF Builds
  <1>2. \A f \in pool : Declared(Reached(pool, f)) \subseteq Declared(pool)
    BY DEF Declared, Reached
  <1>3. \A f \in pool : t \in Declares(f) => f.refs[t] \subseteq Uses(f)
    BY DEF Uses
  <1>4. QED BY <1>1, <1>2, <1>3 DEF Refers

\* enqueue_message for every field queues each message not queued before, once.
LEMMA EnqueueParts ==
    ASSUME NEW pool, NEW t, Refers(pool, t) \subseteq Types
    PROVE  /\ Enqueue(pool, t) \in Seq(Types)
           /\ ToSet(Enqueue(pool, t)) = Refers(pool, t) \ visited
           /\ \A k, l \in DOMAIN Enqueue(pool, t) :
                Enqueue(pool, t)[k] = Enqueue(pool, t)[l] => k = l
  <1> DEFINE S == Refers(pool, t) \ visited
             n == Cardinality(S)
             new == SetToSeq(S)
  <1>1. S \in SUBSET Types /\ Enqueue(pool, t) = new
    BY DEF Enqueue
  <1>2. IsFiniteSet(S)
    <2> HIDE DEF S
    <2>1. QED BY <1>1, CorporaAssumption, FS_Subset
  <1>3. n \in Nat /\ ExistsBijection(1 .. n, S)
    <2> HIDE DEF S
    <2>1. QED BY <1>2, FS_CardinalityType
  <1>4. \E f \in [1 .. n -> S] : IsInjective(f)
    <2> HIDE DEF n, S
    <2>1. QED BY <1>3 DEF ExistsBijection, Bijection, Injection
  <1>5. new \in [1 .. n -> S] /\ IsInjective(new)
    <2> HIDE DEF S
    <2>1. new = CHOOSE f \in [1 .. n -> S] : IsInjective(f)
      BY DEF SetToSeq
    <2> HIDE DEF n, new
    <2>2. QED BY <1>4, <2>1
  <1> HIDE DEF S, n, new
  <1>6. new \in Surjection(1 .. n, S)
    <2>1. Cardinality(1 .. n) = n
      BY <1>3, FS_Interval
    <2>2. new \in Injection(1 .. n, S)
      BY <1>5 DEF Injection
    <2>3. QED BY <1>2, <2>1, <2>2, FS_Injection DEF n
  <1>7. ToSet(new) = S
    BY <1>5, <1>6 DEF Surjection, ToSet
  <1>8. new \in Seq(Types)
    BY <1>1, <1>3, <1>5
  <1>9. \A k, l \in DOMAIN new : new[k] = new[l] => k = l
    BY <1>5 DEF IsInjective
  <1>10. QED BY <1>1, <1>7, <1>8, <1>9 DEF S

\* There is no schema at first.
LEMMA WalkInit == ReflectInit => WalkSoFar
  <1> SUFFICES ASSUME ReflectInit PROVE WalkSoFar
    OBVIOUS
  <1>1. schema = <<>> /\ pending = <<>> /\ visited = {} /\ phase = "list"
    BY DEF ReflectInit
  <1>2. QED BY <1>1 DEF WalkSoFar, IsInjective

\* Nothing is walked before there are pools.
LEMMA WalkWaits ==
    ASSUME WalkSoFar, UNCHANGED shape, visited = {}, phase' # "done"
    PROVE  WalkSoFar'
  <1>1. schema' = <<>> /\ pending' = <<>> /\ visited' = {}
    BY DEF shape, WalkSoFar
  <1>2. QED BY <1>1 DEF WalkSoFar, IsInjective

\* The root of the walk is in the pool of its service.
LEMMA WalkBegins ==
    ASSUME CrawlSoFar, PoolsSoFar, WalkSoFar, Describe
    PROVE  WalkSoFar'
  <1>1. PICK s \in DOMAIN byService : \E t \in Refers(pools[byService[s]], s) :
              visited' = {t} /\ pending' = <<<<byService[s], t>>>>
    BY DEF Describe
  <1>2. PICK i, t : i = byService[s] /\ t \in Refers(pools[i], s) /\ visited' = {t} /\ pending' = <<<<i, t>>>>
    BY <1>1
  <1>3. phase = "describe" /\ visited = {} /\ UNCHANGED <<phase, pools, schema>>
    BY DEF Describe
  <1>4. /\ DOMAIN pools \subseteq Nat /\ byService = IndexServices(pools)
        /\ \A k \in DOMAIN pools : Builds(pools[k]) /\ \A g \in pools[k] : Uses(g) \subseteq Types
    BY <1>3, PoolsParts
  <1>5. i \in DOMAIN pools /\ i \in Nat
    BY <1>1, <1>2, <1>4, IndexParts
  <1>6. t \in Types /\ t \in Declared(pools[i])
    <2>1. Refers(pools[i], s) \subseteq Types /\ Refers(pools[i], s) \subseteq Declared(pools[i])
      BY <1>4, <1>5, RefersInPool
    <2>2. QED BY <1>2, <2>1
  <1>7. schema' = <<>>
    BY <1>3 DEF WalkSoFar
  <1>8. /\ schema' \in Seq(Types) /\ pending' \in Seq(Nat \X Types)
        /\ DOMAIN schema' = {} /\ DOMAIN pending' = {1} /\ pending'[1] = <<i, t>>
    BY <1>2, <1>5, <1>6, <1>7
  <1>9. IsInjective(schema)' /\ ToSet(schema') = {}
    BY <1>8 DEF IsInjective, ToSet
  <1>10. WalkIsIn(i)'
    <2>1. visited' \subseteq Declared(pools[i])
      BY <1>2, <1>6
    <2>2. visited' = ToSet(schema') \cup {pending'[k][2] : k \in DOMAIN pending'}
      BY <1>2, <1>8, <1>9
    <2>3. \A k \in DOMAIN pending' : pending'[k][1] = i
      BY <1>8
    <2>4. QED BY <1>3, <1>9, <2>1, <2>2, <2>3 DEF WalkIsIn
  <1>11. \E k \in DOMAIN pools' : WalkIsIn(k)'
    BY <1>3, <1>5, <1>10
  <1>12. QED BY <1>2, <1>3, <1>8, <1>9, <1>11 DEF WalkSoFar

\* A message is taken from the queue, and those it refers to that are new are put at its end.
LEMMA WalkGoesOn ==
    ASSUME CrawlSoFar, PoolsSoFar, WalkSoFar, Emit
    PROVE  WalkSoFar'
  <1>1. /\ phase = "describe" /\ pending # <<>> /\ UNCHANGED <<phase, pools>>
        /\ schema \in Seq(Types) /\ pending \in Seq(Nat \X Types)
    BY DEF Emit, WalkSoFar
  <1>2. visited # {}
    BY ONLY <1>1, WalkSoFar DEF WalkSoFar
  <1>3. PICK i \in DOMAIN pools : WalkIsIn(i)
    BY Zenon, <1>2 DEF WalkSoFar
  <1> DEFINE n == Len(pending)
             t == pending[1][2]
  <1>4. /\ n \in Nat /\ n # 0 /\ DOMAIN pending = 1 .. n /\ Head(pending) = pending[1]
        /\ pending[1][1] = i /\ pending[1] \in Nat \X Types
    <2>1. /\ n \in Nat /\ n # 0 /\ DOMAIN pending = 1 .. n /\ Head(pending) = pending[1]
          /\ 1 \in DOMAIN pending /\ pending[1] \in Nat \X Types
      <3> DEFINE Entries == Nat \X Types
      <3>1. pending \in Seq(Entries) /\ pending # <<>>
        BY ONLY <1>1
      <3> HIDE DEF Entries
      <3>2. /\ n \in Nat /\ n # 0 /\ DOMAIN pending = 1 .. n /\ Head(pending) = pending[1]
            /\ 1 \in DOMAIN pending /\ pending[1] \in Entries
        BY ONLY <3>1
      <3>3. QED BY ONLY <3>2 DEF Entries
    <2>2. \A k \in DOMAIN pending : pending[k][1] = i
      BY Zenon, <1>3 DEF WalkIsIn
    <2>3. QED BY ONLY <2>1, <2>2
  <1>5. PICK new : /\ new = Enqueue(pools[i], t)
                   /\ schema' = Append(schema, t)
                   /\ visited' = visited \cup ToSet(new)
                   /\ pending' = Tail(pending) \o [k \in DOMAIN new |-> <<i, new[k]>>]
    BY Zenon, <1>4 DEF Emit
  <1>6. /\ Builds(pools[i]) /\ \A g \in pools[i] : Uses(g) \subseteq Types
        /\ i \in Nat
    BY <1>1, PoolsParts
  <1>7. Refers(pools[i], t) \subseteq Types /\ Refers(pools[i], t) \subseteq Declared(pools[i])
    BY <1>6, RefersInPool
  <1>8. /\ new \in Seq(Types) /\ ToSet(new) = Refers(pools[i], t) \ visited
        /\ \A k, l \in DOMAIN new : new[k] = new[l] => k = l
    BY <1>5, <1>7, EnqueueParts
  <1> DEFINE m == Len(new)
  <1>9. t \in Types /\ t \in visited /\ m \in Nat /\ DOMAIN new = 1 .. m
    BY <1>3, <1>4, <1>8 DEF WalkIsIn
  <1>10. /\ pending' \in Seq(Nat \X Types) /\ DOMAIN pending' = 1 .. (n - 1 + m)
         /\ \A k \in 1 .. n - 1 : pending'[k] = pending[k + 1]
         /\ \A k \in 1 .. m : pending'[n - 1 + k] = <<i, new[k]>>
    <2> DEFINE rest == Tail(pending)
               last == [k \in DOMAIN new |-> <<i, new[k]>>]
    <2>1. /\ rest \in Seq(Nat \X Types) /\ Len(rest) = n - 1
          /\ \A k \in 1 .. n - 1 : rest[k] = pending[k + 1]
      BY <1>1, <1>4
    <2>2. last \in Seq(Nat \X Types) /\ Len(last) = m /\ \A k \in 1 .. m : last[k] = <<i, new[k]>>
      BY <1>6, <1>8, <1>9
    <2>3. pending' = rest \o last
      BY <1>5
    <2> HIDE DEF rest, last, n, m
    <2>4. /\ rest \o last \in Seq(Nat \X Types) /\ Len(rest \o last) = (n - 1) + m
          /\ \A k \in 1 .. (n - 1) + m :
               (rest \o last)[k] = IF k <= n - 1 THEN rest[k] ELSE last[k - (n - 1)]
      <3>1. /\ rest \o last \in Seq(Nat \X Types) /\ Len(rest \o last) = Len(rest) + Len(last)
            /\ \A k \in 1 .. Len(rest) + Len(last) :
                 (rest \o last)[k] = IF k <= Len(rest) THEN rest[k] ELSE last[k - Len(rest)]
        BY <2>1, <2>2, ConcatProperties
      <3>2. Len(rest) = n - 1 /\ Len(last) = m
        BY <2>1, <2>2
      <3>3. QED BY <3>1, <3>2
    <2>5. \A k \in 1 .. n - 1 : k \in 1 .. (n - 1) + m /\ k <= n - 1
      BY <1>4, <1>9
    <2>6. DOMAIN (rest \o last) = 1 .. (n - 1 + m)
      BY <2>4
    <2>7. \A k \in 1 .. n - 1 : pending'[k] = pending[k + 1]
      BY <2>1, <2>3, <2>4, <2>5
    <2>8. \A k \in 1 .. m : pending'[n - 1 + k] = <<i, new[k]>>
      <3> TAKE k \in 1 .. m
      <3> DEFINE place == n - 1 + k
      <3>1. place \in 1 .. (n - 1) + m /\ ~(place <= n - 1) /\ place - (n - 1) = k
        BY <1>4, <1>9
      <3> HIDE DEF place
      <3>2. (rest \o last)[place] = last[place - (n - 1)]
        BY <2>4, <3>1
      <3>3. (rest \o last)[place] = <<i, new[k]>>
        BY <2>2, <3>1, <3>2
      <3>4. QED BY <2>3, <3>3 DEF place
    <2>9. QED BY <2>3, <2>4, <2>6, <2>7, <2>8
  <1>11. /\ schema' \in Seq(Types) /\ DOMAIN schema' = 1 .. Len(schema) + 1
         /\ \A k \in 1 .. Len(schema) : schema'[k] = schema[k]
         /\ schema'[Len(schema) + 1] = t /\ Len(schema) \in Nat /\ DOMAIN schema = 1 .. Len(schema)
    BY <1>1, <1>5, <1>9
  <1>12. /\ \A k \in DOMAIN schema : schema[k] \in visited
         /\ \A k \in DOMAIN pending : pending[k][2] \in visited /\ pending[k][1] = i
         /\ \A k \in DOMAIN schema, l \in DOMAIN pending : schema[k] # pending[l][2]
         /\ \A k, l \in DOMAIN pending : pending[k][2] = pending[l][2] => k = l
         /\ \A k, l \in DOMAIN schema : schema[k] = schema[l] => k = l
         /\ \A k \in DOMAIN new : new[k] \notin visited
    <2>1. /\ visited = ToSet(schema) \cup {pending[k][2] : k \in DOMAIN pending}
          /\ \A k \in DOMAIN pending : pending[k][1] = i
      BY <1>3 DEF WalkIsIn
    <2>2. \A k \in DOMAIN new : new[k] \in ToSet(new)
      BY DEF ToSet
    <2>3. \A k \in DOMAIN schema : schema[k] \in ToSet(schema)
      BY DEF ToSet
    <2>4. /\ \A k \in DOMAIN schema, l \in DOMAIN pending : schema[k] # pending[l][2]
          /\ \A k, l \in DOMAIN pending : pending[k][2] = pending[l][2] => k = l
          /\ \A k, l \in DOMAIN schema : schema[k] = schema[l] => k = l
      BY DEF WalkSoFar, IsInjective
    <2>5. QED BY <1>8, <2>1, <2>2, <2>3, <2>4
  \* A place of the new queue is a later place of the old one, or one of the new messages.
  <1>13. ASSUME NEW k \in DOMAIN pending'
         PROVE  \/ k \in 1 .. n - 1 /\ k + 1 \in DOMAIN pending /\ k + 1 # 1 /\ pending'[k] = pending[k + 1]
                \/ /\ k \notin 1 .. n - 1 /\ k - (n - 1) \in DOMAIN new
                   /\ pending'[k] = <<i, new[k - (n - 1)]>>
    <2> HIDE DEF n, m
    <2>1. CASE k \in 1 .. n - 1
      BY <1>4, <1>10, <2>1
    <2>2. CASE k \notin 1 .. n - 1
      <3>0. k \in 1 .. (n - 1 + m)
        BY <1>10
      <3>1. k - (n - 1) \in 1 .. m /\ n - 1 + (k - (n - 1)) = k
        BY <1>4, <1>9, <2>2, <3>0
      <3>2. QED BY <1>9, <1>10, <2>2, <3>1
    <2>3. QED BY <2>1, <2>2
  <1> HIDE DEF n, m, t
  <1>14. IsInjective(schema)'
    <2>1. t = pending[1][2] /\ 1 \in DOMAIN pending
      BY <1>4 DEF t
    <2>2. \A k \in DOMAIN schema : schema[k] # t
      BY <1>12, <2>1
    <2>3. \A k, l \in DOMAIN schema' : schema'[k] = schema'[l] => k = l
      BY <1>11, <1>12, <2>2
    <2>4. QED BY <2>3 DEF IsInjective
  <1>15. ASSUME NEW k \in DOMAIN pending', NEW l \in DOMAIN pending', pending'[k][2] = pending'[l][2]
         PROVE  k = l
    <2>1. /\ \A a \in DOMAIN pending, b \in DOMAIN new : pending[a][2] # new[b]
      BY <1>12
    <2>2. CASE k \in 1 .. n - 1 /\ l \in 1 .. n - 1
      <3>1. k + 1 = l + 1
        BY <1>12, <1>13, <1>15, <2>2
      <3>2. QED BY <3>1, <2>2
    <2>3. CASE k \notin 1 .. n - 1 /\ l \notin 1 .. n - 1
      <3>1. k - (n - 1) = l - (n - 1)
        BY <1>8, <1>13, <1>15, <2>3
      <3>2. k \in Int /\ l \in Int
        BY <1>10
      <3>3. QED BY <1>4, <3>1, <3>2
    <2>4. CASE k \in 1 .. n - 1 /\ l \notin 1 .. n - 1
      BY <1>13, <1>15, <2>1, <2>4
    <2>5. CASE k \notin 1 .. n - 1 /\ l \in 1 .. n - 1
      BY <1>13, <1>15, <2>1, <2>5
    <2>6. QED BY <2>2, <2>3, <2>4, <2>5
  <1>16. ASSUME NEW k \in DOMAIN schema', NEW l \in DOMAIN pending'
         PROVE  schema'[k] # pending'[l][2]
    <2>1. schema'[k] \in visited /\ (k \in DOMAIN schema => schema'[k] = schema[k])
      BY <1>9, <1>11, <1>12
    <2>2. k \notin DOMAIN schema => schema'[k] = pending[1][2]
      BY <1>11 DEF t
    <2>3. CASE l \in 1 .. n - 1
      <3>1. l + 1 \in DOMAIN pending /\ l + 1 # 1 /\ pending'[l] = pending[l + 1] /\ 1 \in DOMAIN pending
        BY <1>4, <1>13, <2>3
      <3>2. CASE k \in DOMAIN schema
        BY <1>12, <2>1, <3>1, <3>2
      <3>3. CASE k \notin DOMAIN schema
        BY <1>12, <2>2, <3>1, <3>3
      <3>4. QED BY <3>2, <3>3
    <2>4. CASE l \notin 1 .. n - 1
      BY <1>12, <1>13, <2>1, <2>4
    <2>5. QED BY <2>3, <2>4
  <1>17. WalkIsIn(i)'
    <2>1. /\ visited \subseteq Declared(pools[i])
          /\ visited = ToSet(schema) \cup {pending[k][2] : k \in DOMAIN pending}
          /\ \A u \in ToSet(schema) : Refers(pools[i], u) \subseteq visited
      BY <1>3 DEF WalkIsIn
    <2>2. visited' = visited \cup Refers(pools[i], t)
      BY <1>5, <1>8
    <2>3. visited' \subseteq Declared(pools[i])
      BY <1>7, <2>1, <2>2
    <2>4. ToSet(schema') = ToSet(schema) \cup {t}
      <3>1. \A k \in DOMAIN schema' : schema'[k] \in ToSet(schema) \cup {t}
        BY <1>11 DEF ToSet
      <3>2. \A u \in ToSet(schema) \cup {t} : \E k \in DOMAIN schema' : schema'[k] = u
        BY <1>11 DEF ToSet
      <3>3. QED BY <3>1, <3>2 DEF ToSet
    <2>5. \A u \in ToSet(schema') : Refers(pools[i], u) \subseteq visited'
      BY <2>1, <2>2, <2>4
    <2>6. \A k \in DOMAIN pending' : pending'[k][1] = i
      BY <1>12, <1>13
    <2>7. visited' = ToSet(schema') \cup {pending'[k][2] : k \in DOMAIN pending'}
      <3>1. ASSUME NEW k \in DOMAIN pending' PROVE pending'[k][2] \in visited'
        <4>1. CASE k \in 1 .. n - 1
          BY <1>5, <1>12, <1>13, <4>1
        <4>2. CASE k \notin 1 .. n - 1
          <5>1. k - (n - 1) \in DOMAIN new /\ pending'[k][2] = new[k - (n - 1)]
            BY <1>13, <4>2
          <5>2. QED BY <1>5, <5>1 DEF ToSet
        <4>3. QED BY <4>1, <4>2
      <3>2. ASSUME NEW u \in visited', u \notin ToSet(schema')
            PROVE  \E k \in DOMAIN pending' : pending'[k][2] = u
        <4>1. CASE u \in visited
          <5>1. PICK k \in DOMAIN pending : pending[k][2] = u
            BY <2>1, <2>4, <3>2, <4>1
          <5>2. k # 1
            BY <2>4, <3>2, <5>1 DEF t
          <5>3. k - 1 \in 1 .. n - 1 /\ (k - 1) + 1 = k /\ k - 1 \in DOMAIN pending'
            <6>1. n \in Nat /\ m \in Nat /\ k \in 1 .. n /\ k # 1
              BY <1>4, <1>9, <5>1, <5>2
            <6>2. k - 1 \in 1 .. n - 1 /\ (k - 1) + 1 = k /\ k - 1 \in 1 .. (n - 1 + m)
              BY ONLY <6>1
            <6>3. DOMAIN pending' = 1 .. (n - 1 + m)
              BY <1>10
            <6>4. QED BY ONLY <6>2, <6>3
          <5>4. QED BY <1>10, <5>1, <5>3
        <4>2. CASE u \notin visited
          <5>1. PICK k \in DOMAIN new : new[k] = u
            BY <1>5, <3>2, <4>2 DEF ToSet
          <5>2. n - 1 + k \in DOMAIN pending' /\ k \in 1 .. m
            BY <1>4, <1>9, <1>10, <5>1
          <5>3. QED BY <1>10, <5>1, <5>2
        <4>3. QED BY <4>1, <4>2
      <3>3. ToSet(schema') \subseteq visited'
        BY <1>9, <2>1, <2>2, <2>4
      <3>4. QED BY <3>1, <3>2, <3>3
    <2>8. QED BY <1>1, <2>3, <2>5, <2>6, <2>7 DEF WalkIsIn
  <1>18. visited' # {} /\ phase' = "describe" /\ \E k \in DOMAIN pools' : WalkIsIn(k)'
    BY <1>1, <1>2, <1>5, <1>17
  <1>19. QED BY <1>10, <1>11, <1>14, <1>15, <1>16, <1>18 DEF WalkSoFar

\* Every step keeps the account of the walk.
LEMMA WalkStep == CrawlSoFar /\ PoolsSoFar /\ WalkSoFar /\ [ReflectNext]_reflectVars => WalkSoFar'
  <1> SUFFICES ASSUME CrawlSoFar, PoolsSoFar, WalkSoFar, [ReflectNext]_reflectVars PROVE WalkSoFar'
    OBVIOUS
  <1>1. CASE SessionFails \/ ListServices \/ FetchSymbols \/ CrawlBatch \/ Crawled \/ Assemble
    <2>1. UNCHANGED shape /\ phase' # "done" /\ phase \notin {"describe", "done"}
      BY <1>1 DEF SessionFails, StartOver, ListServices, FetchSymbols, CrawlBatch, Crawled, Assemble
    <2>2. visited = {}
      BY <2>1 DEF WalkSoFar
    <2>3. QED BY <2>1, <2>2, WalkWaits
  <1>2. CASE Describe
    BY <1>2, WalkBegins
  <1>3. CASE Emit
    BY <1>3, WalkGoesOn
  <1>4. CASE Described
    BY <1>4 DEF Described, WalkSoFar, WalkIsIn, shape, IsInjective, Refers, Declared, Declares, ToSet
  <1>5. CASE UNCHANGED reflectVars
    <2>1. UNCHANGED <<phase, pools, schema, pending, visited>>
      BY <1>5 DEF reflectVars, shape
    <2>2. \A i : WalkIsIn(i)' <=> WalkIsIn(i)
      BY <2>1 DEF WalkIsIn, Refers, Declared, Declares, ToSet
    <2>3. QED BY <2>1, <2>2 DEF WalkSoFar, IsInjective
  <1>6. QED BY <1>1, <1>2, <1>3, <1>4, <1>5 DEF ReflectNext

-----------------------------------------------------------------------------
(* The theorems. *)

\* The account of the crawl, of the pools and of the walk holds in every reachable state.
THEOREM ReflectInvariance == ReflectSpec => []ReflectInv
  <1>1. ReflectInit => ReflectInv
    BY CrawlInit, PoolsInit, WalkInit DEF ReflectInv
  <1>2. ReflectInv /\ [ReflectNext]_reflectVars => ReflectInv'
    BY CrawlStep, PoolsStep, WalkStep DEF ReflectInv
  <1>3. QED BY <1>1, <1>2, PTL DEF ReflectSpec

\* The crawl asks for no name twice and ends with every import of every file and a file of
\* every service listed, however the files import each other (reflection/algorithm.rs).
THEOREM CrawlEndsClosed == ReflectSpec => []CrawlIsClosed
  <1>1. ReflectInv => CrawlIsClosed
    BY DEF ReflectInv, CrawlSoFar, CrawlIsClosed
  <1>2. QED BY <1>1, ReflectInvariance, PTL

\* The catalog and the call path choose the same copy of a service.
LEMMA CopiesAgree ==
    ASSUME DOMAIN pools \subseteq Nat, byService = IndexServices(pools)
    PROVE  Catalog = {<<s, byService[s]>> : s \in DOMAIN byService}
  <1> DEFINE entries == UNION {{<<s, i>> : s \in Declared(pools[i]) \cap Services} : i \in DOMAIN pools}
  <1>1. /\ DOMAIN byService = Services \cap UNION {Declared(pools[i]) : i \in DOMAIN pools}
        /\ \A s \in DOMAIN byService :
             /\ byService[s] \in DOMAIN pools /\ s \in Declared(pools[byService[s]])
             /\ \A i \in DOMAIN pools : s \in Declared(pools[i]) => byService[s] <= i
    BY IndexParts
  <1>2. \A e : e \in entries <=> \E i \in DOMAIN pools, s \in Services : s \in Declared(pools[i]) /\ e = <<s, i>>
    OBVIOUS
  <1>3. Catalog = {e \in entries : \A d \in entries : d[1] = e[1] => e[2] <= d[2]}
    BY DEF Catalog
  <1> HIDE DEF entries
  <1>4. ASSUME NEW e \in Catalog PROVE e \in {<<s, byService[s]>> : s \in DOMAIN byService}
    <2>1. PICK i \in DOMAIN pools, s \in Services : s \in Declared(pools[i]) /\ e = <<s, i>>
      BY <1>2, <1>3, <1>4
    <2>2. s \in DOMAIN byService
      BY <1>1, <2>1
    <2>3. <<s, byService[s]>> \in entries
      BY <1>1, <1>2, <2>1, <2>2
    <2>4. i <= byService[s] /\ byService[s] <= i
      BY <1>1, <1>3, <1>4, <2>1, <2>2, <2>3
    <2>5. i = byService[s]
      BY <1>1, <2>1, <2>2, <2>4
    <2>6. QED BY <2>1, <2>2, <2>5
  <1>5. ASSUME NEW s \in DOMAIN byService PROVE <<s, byService[s]>> \in Catalog
    <2>1. <<s, byService[s]>> \in entries
      BY <1>1, <1>2
    <2>2. ASSUME NEW d \in entries, d[1] = s PROVE byService[s] <= d[2]
      <3>1. PICK i \in DOMAIN pools, r \in Services : r \in Declared(pools[i]) /\ d = <<r, i>>
        BY <1>2, <2>2
      <3>2. QED BY <1>1, <2>2, <3>1
    <2>3. QED BY <1>3, <2>1, <2>2
  <1>6. QED BY <1>4, <1>5

\* A file that can be assembled with what it imports keeps its services, in pools that can be
\* built, the same in whatever order the files come; the catalog and the calls choose the
\* same copy of a service (descriptor.rs, catalog/build.rs).
THEOREM PoolsAreSettled == ReflectSpec => []PoolSetIsSettled
  <1>1. ReflectInv => PoolSetIsSettled
    <2> SUFFICES ASSUME ReflectInv, phase = "describe", visited = {} PROVE PoolSetIsSettled
      BY DEF PoolSetIsSettled, ServiceIsSalvaged, CopyIsSettled
    <2>1. /\ DOMAIN pools \subseteq Nat
          /\ \A i \in DOMAIN pools : Builds(pools[i])
          /\ \A f \in byName : Builds(Reached(byName, f)) =>
               Declares(f) \cap Services \subseteq UNION {Declared(pools[i]) : i \in DOMAIN pools}
          /\ \A other \in Orders(byName) : BuildPoolSet(other) = pools
          /\ byService = IndexServices(pools)
      BY PoolsParts DEF ReflectInv
    <2>2. /\ DOMAIN byService = Services \cap UNION {Declared(pools[i]) : i \in DOMAIN pools}
          /\ \A s \in DOMAIN byService :
               byService[s] \in DOMAIN pools /\ s \in Declared(pools[byService[s]])
      BY <2>1, IndexParts
    <2>3. ServiceIsSalvaged
      BY <2>1, <2>2 DEF ServiceIsSalvaged
    <2>4. CopyIsSettled
      BY <2>1, CopiesAgree DEF CopyIsSettled
    <2>5. QED BY <2>3, <2>4 DEF PoolSetIsSettled
  <1>2. QED BY <1>1, ReflectInvariance, PTL

\* A schema has no message twice and ends with every message its messages refer to, all of
\* them in one pool, however they contain each other (invoke/schema.rs).
THEOREM SchemaEndsClosed == ReflectSpec => []SchemaIsClosed
  <1>1. ReflectInv => SchemaIsClosed
    <2> SUFFICES ASSUME ReflectInv PROVE SchemaIsClosed
      OBVIOUS
    <2>1. WalkSoFar
      BY DEF ReflectInv
    <2>2. IsInjective(schema)
      BY <2>1 DEF WalkSoFar
    <2>3. ASSUME phase = "done"
          PROVE  \E i \in DOMAIN pools : \A t \in ToSet(schema) :
                   t \in Declared(pools[i]) /\ Refers(pools[i], t) \subseteq ToSet(schema)
      <3>1. visited # {} /\ pending = <<>>
        BY <2>1, <2>3 DEF WalkSoFar
      <3>2. PICK i \in DOMAIN pools : WalkIsIn(i)
        BY <2>1, <3>1 DEF WalkSoFar
      <3>3. visited = ToSet(schema)
        BY <3>1, <3>2 DEF WalkIsIn
      <3>4. QED BY <3>2, <3>3 DEF WalkIsIn
    <2>4. QED BY <2>2, <2>3 DEF SchemaIsClosed
  <1>2. QED BY <1>1, ReflectInvariance, PTL
=============================================================================
