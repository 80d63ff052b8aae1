------------------------ MODULE CallRegistry_proofs ------------------------
(***************************************************************************)
(* Theorems about CallRegistry, for any number of attempts and request     *)
(* ids.  What places an attempt in one registry and out of the other is    *)
(* where it is: in_flight holds only commands that race their cancel, the  *)
(* stream registry only calls past the hand-off.                           *)
(***************************************************************************)
EXTENDS CallRegistry, TLAPS

\* The invariant holds before the first command.
LEMMA InitInv == Init => IInv
  <1> SUFFICES ASSUME Init PROVE IInv
    OBVIOUS
  <1>1. TypeOK
    BY DEF Init, TypeOK, PCs, Under
  <1>2. InFlightIsRacing /\ StreamsAreHandedOver /\ CancelableUntilHandOff /\ RegisteredUntilFreed
    BY DEF Init, InFlightIsRacing, StreamsAreHandedOver, CancelableUntilHandOff,
           RegisteredUntilFreed
  <1>3. LatestHasBegun /\ CancelOnRecord
    BY NoneAssumption DEF Init, LatestHasBegun, CancelOnRecord
  <1>4. QED BY <1>1, <1>2, <1>3 DEF IInv

\* The cleanup of one attempt takes its own entry out of a registry, and no
\* other attempt's, whatever id the two share.
LEMMA OwnEntryOnly ==
  ASSUME TypeOK, NEW a \in Attempts, NEW m \in [Ids -> Attempts \cup {None}]
  PROVE  /\ WithoutOwn(m, a) \in [Ids -> Attempts \cup {None}]
         /\ WithoutOwn(m, a)[id[a]] # a
         /\ \A i \in Ids : m[i] # a => WithoutOwn(m, a)[i] = m[i]
         /\ \A i \in Ids : WithoutOwn(m, a)[i] \in {m[i], None}
  <1>1. id[a] \in Ids /\ a # None
    BY NoneAssumption DEF TypeOK
  <1>2. CASE m[id[a]] = a
    BY <1>1, <1>2 DEF WithoutOwn, Set
  <1>3. CASE m[id[a]] # a
    BY <1>1, <1>3 DEF WithoutOwn
  <1>4. QED BY <1>2, <1>3

\* The steps that touch no registry entry and no attempt's place.
Quiet == UNCHANGED <<fixed, pc, inFlight, streams, latest, handed, freed>>

\* Every other step is one of these.
Cases ==
  \/ \E a \in Attempts : \/ Begin(a) \/ AttemptStep(a) \/ CallbackReleases(a)
  \/ \E i \in Ids : Release(i)
  \/ Quiet

\* A step that is not quiet belongs to a command, to a callback that lets go of
\* its call, or to a release.
LEMMA NextCases ==
  ASSUME [Next]_vars
  PROVE  Cases
  <1> USE DEF Cases, Quiet
  <1>1. ASSUME NEW a \in Attempts, CallbackFails(a) PROVE Cases
    BY <1>1 DEF CallbackFails, fixed, history
  <1>2. ASSUME NEW a \in Attempts, Reload(a) PROVE Cases
    BY <1>2 DEF Reload, fixed, history, attempt
  <1>3. ASSUME NEW a \in Attempts, CallOver(a) PROVE Cases
    BY <1>3 DEF CallOver, fixed, history, attempt
  <1>4. ASSUME NEW a \in Attempts, CallDropped(a) PROVE Cases
    BY <1>3, <1>4 DEF CallDropped
  <1>5. ASSUME NEW i \in Ids, GrpcCancel(i) PROVE Cases
    BY <1>5 DEF GrpcCancel, fixed
  <1>6. CASE UNCHANGED vars
    BY <1>6 DEF vars, fixed, history, attempt
  <1>7. QED BY <1>1, <1>2, <1>3, <1>4, <1>5, <1>6 DEF Next

-----------------------------------------------------------------------------
\* Every step keeps the types of the places and of the flags.
Flags ==
  /\ pc \in [Attempts -> PCs] /\ call \in [Attempts -> {"none", "live", "over"}]
  /\ permit \in [Attempts -> BOOLEAN] /\ raced \in [Attempts -> BOOLEAN]
  /\ dead \in [Attempts -> BOOLEAN] /\ slot \in [Attempts -> BOOLEAN]
  /\ inCallback \in [Attempts -> BOOLEAN] /\ cancelled \in [Attempts -> BOOLEAN]
  /\ listening \in [Attempts -> BOOLEAN]
  /\ freed \subseteq Attempts /\ aimed \subseteq Attempts

\* Every step keeps the types of the registries and of their histories.
Registries ==
  /\ id \in [Attempts -> Ids] /\ streaming \subseteq Attempts
  /\ \A m \in {inFlight, streams, latest, handed} : m \in [Ids -> Attempts \cup {None}]
  /\ \A i \in Ids : /\ inFlight[i] \in Under(i) \cup {None}
                    /\ streams[i] \in (Under(i) \cap streaming) \cup {None}
                    /\ latest[i] \in Under(i) \cup {None}
                    /\ handed[i] \in (Under(i) \cap streaming) \cup {None}

\* The flags, the places and the sets of attempts keep their types.
LEMMA FlagsStep == TypeOK /\ [Next]_vars => Flags'
  <1> SUFFICES ASSUME TypeOK, [Next]_vars PROVE Flags'
    OBVIOUS
  <1> USE DEF Flags, PCs, Set
  <1>1. Flags /\ \A m \in {inFlight, streams, latest} : m \in [Ids -> Attempts \cup {None}]
    BY DEF TypeOK
  <1>2. ASSUME NEW a \in Attempts, Begin(a) PROVE Flags'
    BY <1>1, <1>2 DEF Begin, Goto, callVars
  <1>3. ASSUME NEW a \in Attempts, SelectCancel(a) PROVE Flags'
    BY <1>1, <1>3 DEF SelectCancel, Goto, callVars, history
  <1>4. ASSUME NEW a \in Attempts, SelectPoll(a) PROVE Flags'
    BY <1>1, <1>4 DEF SelectPoll, Goto, callVars, history
  <1>5. ASSUME NEW a \in Attempts, SelectWork(a) PROVE Flags'
    <2>1. \E p \in {"working", "unwind", "ready"} : Goto(a, p)
      BY <1>5 DEF SelectWork
    <2>2. pc' \in [Attempts -> PCs]
      BY <1>1, <2>1 DEF Goto
    <2>3. call' \in {call, Set(call, a, "live")} /\ dead' \in {dead, Set(dead, a, TRUE)}
      BY <1>5 DEF SelectWork
    <2>4. call' \in [Attempts -> {"none", "live", "over"}] /\ dead' \in [Attempts -> BOOLEAN]
      BY <1>1, <2>3
    <2>5. UNCHANGED <<permit, raced, slot, inCallback, cancelled, listening, freed, aimed>>
      BY <1>5 DEF SelectWork, history
    <2>6. QED BY ONLY <1>1, <2>2, <2>4, <2>5 DEF Flags
  <1>6. ASSUME NEW a \in Attempts, Unwind(a) PROVE Flags'
    BY <1>1, <1>6 DEF Unwind, Goto, callVars, history
  <1>7. ASSUME NEW a \in Attempts, HandOff(a) PROVE Flags'
    BY <1>1, <1>7 DEF HandOff, Goto, callVars
  <1>8. ASSUME NEW a \in Attempts, TakePermit(a) PROVE Flags'
    BY <1>1, <1>8 DEF TakePermit, Goto, callVars, history
  <1>9. ASSUME NEW a \in Attempts, SetSlot(a) PROVE Flags'
    BY <1>1, <1>9 DEF SetSlot, Goto, callVars, history
  <1>10. ASSUME NEW a \in Attempts, ApplyCancel(a) PROVE Flags'
    <2>1. (cancelled[a] \/ raced[a]) \in BOOLEAN
      OBVIOUS
    <2>2. QED BY <1>1, <1>10, <2>1 DEF ApplyCancel, Goto, history
  <1>11. ASSUME NEW a \in Attempts, DeadCheck(a) PROVE Flags'
    BY <1>1, <1>11 DEF DeadCheck, Goto, CancelAndRelease
  <1>12. ASSUME NEW a \in Attempts, CallbackFails(a) PROVE Flags'
    BY <1>1, <1>12 DEF CallbackFails, callVars, history
  <1>13. ASSUME NEW a \in Attempts, CallbackReleases(a) PROVE Flags'
    BY <1>1, <1>13 DEF CallbackReleases, CancelAndRelease
  <1>14. ASSUME NEW i \in Ids, GrpcCancel(i) PROVE Flags'
    <2>1. inFlight[i] # None => inFlight[i] \in Attempts
      BY <1>1
    <2>2. streams[i] # None => streams[i] \in Attempts
      BY <1>1
    <2>3. latest[i] # None => latest[i] \in Attempts
      BY <1>1
    <2>4. QED BY <1>1, <1>14, <2>1, <2>2, <2>3 DEF GrpcCancel
  <1>15. ASSUME NEW i \in Ids, Release(i) PROVE Flags'
    <2>1. streams[i] \in Attempts
      BY <1>1, <1>15 DEF Release
    <2>2. QED BY <1>1, <1>15, <2>1 DEF Release, attempt, callVars
  <1>16. ASSUME NEW a \in Attempts, Reload(a) PROVE Flags'
    BY <1>1, <1>16 DEF Reload, attempt, history
  <1>17. ASSUME NEW a \in Attempts, CallOver(a) PROVE Flags'
    BY <1>1, <1>17 DEF CallOver, attempt, history
  <1>18. ASSUME NEW a \in Attempts, CallDropped(a) PROVE Flags'
    BY <1>17, <1>18 DEF CallDropped
  <1>19. CASE UNCHANGED vars
    BY <1>1, <1>19 DEF vars, attempt, callVars, history
  <1>20. QED
    BY <1>2, <1>3, <1>4, <1>5, <1>6, <1>7, <1>8, <1>9, <1>10, <1>11, <1>12, <1>13, <1>14, <1>15,
       <1>16, <1>17, <1>18, <1>19 DEF Next, AttemptStep

\* The registries keep their types: an entry under an id is an attempt with it.
LEMMA RegistriesStep == TypeOK /\ [Next]_vars => Registries'
  <1> SUFFICES ASSUME TypeOK, [Next]_vars PROVE Registries'
    OBVIOUS
  <1> USE NoneAssumption DEF Registries, TypeOK, Under
  <1>1. Cases
    BY NextCases
  <1>2. ASSUME NEW a \in Attempts, Begin(a) PROVE Registries'
    BY <1>2 DEF Begin, Set, fixed
  <1>3. ASSUME NEW a \in Attempts, SelectCancel(a) PROVE Registries'
    BY <1>3 DEF SelectCancel, fixed, history
  <1>4. ASSUME NEW a \in Attempts, SelectPoll(a) PROVE Registries'
    BY <1>4 DEF SelectPoll, fixed, history
  <1>5. ASSUME NEW a \in Attempts, SelectWork(a) PROVE Registries'
    BY <1>5 DEF SelectWork, fixed, history
  <1>6. ASSUME NEW a \in Attempts, Unwind(a) PROVE Registries'
    BY <1>6, OwnEntryOnly DEF Unwind, fixed, history
  <1>7. ASSUME NEW a \in Attempts, HandOff(a) PROVE Registries'
    <2>1. /\ inFlight' \in [Ids -> Attempts \cup {None}]
          /\ \A i \in Ids : inFlight'[i] \in Under(i) \cup {None}
      BY <1>7, OwnEntryOnly DEF HandOff
    <2>2. QED BY <1>7, <2>1 DEF HandOff, Set, fixed
  <1>8. ASSUME NEW a \in Attempts, TakePermit(a) PROVE Registries'
    BY <1>8 DEF TakePermit, fixed, history
  <1>9. ASSUME NEW a \in Attempts, SetSlot(a) PROVE Registries'
    BY <1>9 DEF SetSlot, fixed, history
  <1>10. ASSUME NEW a \in Attempts, ApplyCancel(a) PROVE Registries'
    BY <1>10 DEF ApplyCancel, fixed, history
  <1>11. ASSUME NEW a \in Attempts, CancelAndRelease(a), UNCHANGED <<fixed, inFlight, latest, handed>>
         PROVE  Registries'
    BY <1>11, OwnEntryOnly DEF CancelAndRelease, fixed
  <1>12. ASSUME NEW a \in Attempts, DeadCheck(a) PROVE Registries'
    BY <1>11, <1>12 DEF DeadCheck, fixed
  <1>13. ASSUME NEW a \in Attempts, CallbackReleases(a) PROVE Registries'
    BY <1>11, <1>13 DEF CallbackReleases, fixed
  <1>14. ASSUME NEW i \in Ids, Release(i) PROVE Registries'
    BY <1>14 DEF Release, Set, fixed
  <1>15. CASE Quiet
    BY <1>15 DEF Quiet, fixed
  <1>16. QED
    BY <1>1, <1>2, <1>3, <1>4, <1>5, <1>6, <1>7, <1>8, <1>9, <1>10, <1>12, <1>13, <1>14, <1>15
       DEF Cases, AttemptStep

\* Every step keeps the types.
LEMMA TypeStep == TypeOK /\ [Next]_vars => TypeOK'
  BY FlagsStep, RegistriesStep DEF TypeOK, Flags, Registries, Under

-----------------------------------------------------------------------------
(* What a step does to the places and the registries. *)

\* An attempt leaves the race only by the step that drops its own entry, and
\* enters in_flight only by beginning.
LEMMA RacingStep == IInv /\ [Next]_vars => InFlightIsRacing'
  <1> SUFFICES ASSUME IInv, [Next]_vars PROVE InFlightIsRacing'
    OBVIOUS
  <1> USE NoneAssumption DEF InFlightIsRacing, Set, Goto
  <1>0. TypeOK /\ InFlightIsRacing
    BY DEF IInv
  <1>1. Cases
    BY NextCases
  <1>2. /\ id \in [Attempts -> Ids] /\ pc \in [Attempts -> PCs]
        /\ inFlight \in [Ids -> Attempts \cup {None}]
        /\ \A i \in Ids : inFlight[i] # None => id[inFlight[i]] = i
    BY <1>0 DEF TypeOK, Under
  <1>3. ASSUME NEW a \in Attempts, Begin(a) PROVE InFlightIsRacing'
    BY <1>0, <1>2, <1>3 DEF Begin
  <1>4. ASSUME NEW a \in Attempts, UNCHANGED inFlight, NEW p, Goto(a, p),
               \/ p \in {"working", "polling", "unwind", "ready"}
               \/ pc[a] \notin {"working", "polling", "unwind", "ready"}
        PROVE  InFlightIsRacing'
    BY <1>0, <1>2, <1>4
  <1>5. ASSUME NEW a \in Attempts, NEW p, Goto(a, p), inFlight' = WithoutOwn(inFlight, a)
        PROVE  InFlightIsRacing'
    <2>1. \A i \in Ids : inFlight'[i] # a /\ inFlight'[i] \in {inFlight[i], None}
      BY <1>0, <1>2, <1>5, OwnEntryOnly
    <2>2. QED BY <1>0, <1>2, <1>5, <2>1
  <1>6. ASSUME NEW a \in Attempts, AttemptStep(a) PROVE InFlightIsRacing'
    <2>1. CASE SelectCancel(a)
      BY <1>4, <2>1 DEF SelectCancel
    <2>2. CASE SelectPoll(a)
      BY <1>4, <2>2 DEF SelectPoll
    <2>3. CASE SelectWork(a)
      BY <1>4, <2>3 DEF SelectWork
    <2>4. CASE Unwind(a)
      BY <1>5, <2>4 DEF Unwind
    <2>5. CASE HandOff(a)
      BY <1>5, <2>5 DEF HandOff
    <2>6. CASE TakePermit(a)
      BY <1>4, <2>6 DEF TakePermit
    <2>7. CASE SetSlot(a)
      BY <1>4, <2>7 DEF SetSlot
    <2>8. CASE ApplyCancel(a)
      BY <1>4, <2>8 DEF ApplyCancel
    <2>9. CASE DeadCheck(a)
      BY <1>4, <2>9 DEF DeadCheck
    <2>10. QED BY <1>6, <2>1, <2>2, <2>3, <2>4, <2>5, <2>6, <2>7, <2>8, <2>9 DEF AttemptStep
  <1>7. CASE UNCHANGED <<pc, inFlight>>
    BY <1>0, <1>7
  <1>8. ASSUME NEW a \in Attempts, CallbackReleases(a) PROVE InFlightIsRacing'
    BY <1>7, <1>8 DEF CallbackReleases
  <1>9. ASSUME NEW i \in Ids, Release(i) PROVE InFlightIsRacing'
    BY <1>7, <1>9 DEF Release, attempt
  <1>10. QED BY <1>1, <1>3, <1>6, <1>7, <1>8, <1>9 DEF Cases, Quiet

\* A call enters the stream registry by the hand-off of its command, which
\* never goes back.
LEMMA HandedOverStep == IInv /\ [Next]_vars => StreamsAreHandedOver'
  <1> SUFFICES ASSUME IInv, [Next]_vars PROVE StreamsAreHandedOver'
    OBVIOUS
  <1> DEFINE Past == {"handed", "slot", "apply", "deadCheck", "done"}
  <1> USE NoneAssumption DEF StreamsAreHandedOver, Set, Goto
  <1>0. TypeOK /\ StreamsAreHandedOver
    BY DEF IInv
  <1>1. Cases
    BY NextCases
  <1>2. /\ id \in [Attempts -> Ids] /\ pc \in [Attempts -> PCs]
        /\ streams \in [Ids -> Attempts \cup {None}]
    BY <1>0 DEF TypeOK
  <1>3. ASSUME NEW a \in Attempts, NEW p, Goto(a, p), p \in Past \/ pc[a] \notin Past,
               \A i \in Ids : streams'[i] \in {streams[i], None}
        PROVE  StreamsAreHandedOver'
    BY <1>0, <1>2, <1>3
  <1>4. ASSUME UNCHANGED pc, \A i \in Ids : streams'[i] \in {streams[i], None}
        PROVE  StreamsAreHandedOver'
    BY <1>0, <1>2, <1>4
  <1>5. ASSUME NEW a \in Attempts, streams' = WithoutOwn(streams, a) \/ UNCHANGED streams
        PROVE  \A i \in Ids : streams'[i] \in {streams[i], None}
    BY <1>0, <1>2, <1>5, OwnEntryOnly
  <1>6. ASSUME NEW a \in Attempts, AttemptStep(a) PROVE StreamsAreHandedOver'
    <2>1. CASE SelectCancel(a)
      BY <1>3, <2>1 DEF SelectCancel
    <2>2. CASE SelectPoll(a)
      BY <1>3, <2>2 DEF SelectPoll
    <2>3. CASE SelectWork(a)
      BY <1>3, <2>3 DEF SelectWork
    <2>4. CASE Unwind(a)
      BY <1>3, <2>4 DEF Unwind
    <2>5. CASE HandOff(a)
      BY <1>0, <1>2, <2>5 DEF HandOff
    <2>6. CASE TakePermit(a)
      BY <1>3, <2>6 DEF TakePermit
    <2>7. CASE SetSlot(a)
      BY <1>3, <2>7 DEF SetSlot
    <2>8. CASE ApplyCancel(a)
      BY <1>3, <2>8 DEF ApplyCancel
    <2>9. CASE DeadCheck(a)
      BY <1>3, <1>5, <2>9 DEF DeadCheck, CancelAndRelease
    <2>10. QED BY <1>6, <2>1, <2>2, <2>3, <2>4, <2>5, <2>6, <2>7, <2>8, <2>9 DEF AttemptStep
  <1>7. ASSUME NEW a \in Attempts, Begin(a) PROVE StreamsAreHandedOver'
    BY <1>3, <1>7 DEF Begin
  <1>8. ASSUME NEW a \in Attempts, CallbackReleases(a) PROVE StreamsAreHandedOver'
    BY <1>4, <1>5, <1>8 DEF CallbackReleases, CancelAndRelease
  <1>9. ASSUME NEW i \in Ids, Release(i) PROVE StreamsAreHandedOver'
    BY <1>2, <1>4, <1>9 DEF Release, attempt
  <1>10. CASE Quiet
    BY <1>4, <1>10 DEF Quiet
  <1>11. QED BY <1>1, <1>6, <1>7, <1>8, <1>9, <1>10 DEF Cases

\* A cancel finds the latest attempt in in_flight until its work is handed over:
\* the cleanup of an older attempt leaves the entry alone.
LEMMA CancelableStep == IInv /\ [Next]_vars => CancelableUntilHandOff'
  <1> SUFFICES ASSUME IInv, [Next]_vars PROVE CancelableUntilHandOff'
    OBVIOUS
  <1> DEFINE Before == {"working", "polling", "ready"}
  <1> USE NoneAssumption DEF CancelableUntilHandOff, Set, Goto
  <1>0. TypeOK /\ CancelableUntilHandOff
    BY DEF IInv
  <1>1. Cases
    BY NextCases
  <1>2. /\ id \in [Attempts -> Ids] /\ pc \in [Attempts -> PCs]
        /\ inFlight \in [Ids -> Attempts \cup {None}]
        /\ latest \in [Ids -> Attempts \cup {None}]
    BY <1>0 DEF TypeOK
  <1>3. ASSUME NEW a \in Attempts, Begin(a) PROVE CancelableUntilHandOff'
    BY <1>0, <1>2, <1>3 DEF Begin, fixed
  <1>4. ASSUME NEW a \in Attempts, UNCHANGED <<id, inFlight, latest>>, NEW p, Goto(a, p),
               p \notin Before \/ pc[a] \in Before
        PROVE  CancelableUntilHandOff'
    BY <1>0, <1>2, <1>4
  <1>5. ASSUME NEW a \in Attempts, NEW p, Goto(a, p), p \notin Before, UNCHANGED <<id, latest>>,
               inFlight' = WithoutOwn(inFlight, a)
        PROVE  CancelableUntilHandOff'
    <2>1. \A i \in Ids : inFlight[i] # a => inFlight'[i] = inFlight[i]
      BY <1>0, <1>2, <1>5, OwnEntryOnly
    <2>2. QED BY <1>0, <1>2, <1>5, <2>1
  <1>6. ASSUME NEW a \in Attempts, AttemptStep(a) PROVE CancelableUntilHandOff'
    <2> USE DEF fixed, history
    <2>1. CASE SelectCancel(a)
      BY <1>4, <2>1 DEF SelectCancel
    <2>2. CASE SelectPoll(a)
      BY <1>4, <2>2 DEF SelectPoll
    <2>3. CASE SelectWork(a)
      BY <1>4, <2>3 DEF SelectWork
    <2>4. CASE Unwind(a)
      BY <1>5, <2>4 DEF Unwind
    <2>5. CASE HandOff(a)
      BY <1>5, <2>5 DEF HandOff
    <2>6. CASE TakePermit(a)
      BY <1>4, <2>6 DEF TakePermit
    <2>7. CASE SetSlot(a)
      BY <1>4, <2>7 DEF SetSlot
    <2>8. CASE ApplyCancel(a)
      BY <1>4, <2>8 DEF ApplyCancel
    <2>9. CASE DeadCheck(a)
      BY <1>4, <2>9 DEF DeadCheck
    <2>10. QED BY <1>6, <2>1, <2>2, <2>3, <2>4, <2>5, <2>6, <2>7, <2>8, <2>9 DEF AttemptStep
  <1>7. CASE UNCHANGED <<id, pc, inFlight, latest>>
    BY <1>0, <1>7
  <1>8. ASSUME NEW a \in Attempts, CallbackReleases(a) PROVE CancelableUntilHandOff'
    BY <1>7, <1>8 DEF CallbackReleases, fixed
  <1>9. ASSUME NEW i \in Ids, Release(i) PROVE CancelableUntilHandOff'
    BY <1>7, <1>9 DEF Release, fixed, attempt
  <1>10. QED BY <1>1, <1>3, <1>6, <1>7, <1>8, <1>9 DEF Cases, Quiet, fixed

\* A registered call is taken out of the stream registry only with its own
\* release, by the user, the dead-channel check or the callback.
LEMMA RegisteredStep == IInv /\ [Next]_vars => RegisteredUntilFreed'
  <1> SUFFICES ASSUME IInv, [Next]_vars PROVE RegisteredUntilFreed'
    OBVIOUS
  <1> USE NoneAssumption DEF RegisteredUntilFreed
  <1>0. TypeOK /\ RegisteredUntilFreed
    BY DEF IInv
  <1>1. Cases
    BY NextCases
  <1>2. /\ id \in [Attempts -> Ids]
        /\ streams \in [Ids -> Attempts \cup {None}]
        /\ handed \in [Ids -> Attempts \cup {None}]
    BY <1>0 DEF TypeOK
  <1>3. CASE UNCHANGED <<streams, handed, freed>>
    BY <1>0, <1>3
  <1>4. ASSUME NEW a \in Attempts, CancelAndRelease(a), UNCHANGED handed
        PROVE  RegisteredUntilFreed'
    <2>1. \A i \in Ids : streams[i] # a => streams'[i] = streams[i]
      BY <1>0, <1>2, <1>4, OwnEntryOnly DEF CancelAndRelease
    <2>2. QED BY <1>0, <1>2, <1>4, <2>1 DEF CancelAndRelease
  <1>5. ASSUME NEW a \in Attempts, HandOff(a) PROVE RegisteredUntilFreed'
    BY <1>0, <1>2, <1>5 DEF HandOff, Set
  <1>6. ASSUME NEW a \in Attempts, AttemptStep(a) PROVE RegisteredUntilFreed'
    <2> USE DEF history
    <2>1. CASE SelectCancel(a)
      BY <1>3, <2>1 DEF SelectCancel
    <2>2. CASE SelectPoll(a)
      BY <1>3, <2>2 DEF SelectPoll
    <2>3. CASE SelectWork(a)
      BY <1>3, <2>3 DEF SelectWork
    <2>4. CASE Unwind(a)
      BY <1>3, <2>4 DEF Unwind
    <2>5. CASE TakePermit(a)
      BY <1>3, <2>5 DEF TakePermit
    <2>6. CASE SetSlot(a)
      BY <1>3, <2>6 DEF SetSlot
    <2>7. CASE ApplyCancel(a)
      BY <1>3, <2>7 DEF ApplyCancel
    <2>8. CASE DeadCheck(a)
      BY <1>3, <1>4, <2>8 DEF DeadCheck
    <2>9. QED BY <1>5, <1>6, <2>1, <2>2, <2>3, <2>4, <2>5, <2>6, <2>7, <2>8 DEF AttemptStep
  <1>7. ASSUME NEW a \in Attempts, Begin(a) PROVE RegisteredUntilFreed'
    BY <1>3, <1>7 DEF Begin
  <1>8. ASSUME NEW a \in Attempts, CallbackReleases(a) PROVE RegisteredUntilFreed'
    BY <1>3, <1>4, <1>8 DEF CallbackReleases
  <1>9. ASSUME NEW i \in Ids, Release(i) PROVE RegisteredUntilFreed'
    BY <1>0, <1>2, <1>9 DEF Release, Set
  <1>10. QED BY <1>1, <1>3, <1>6, <1>7, <1>8, <1>9 DEF Cases, Quiet

\* Beginning makes an attempt the latest under its id and puts it in in_flight
\* in one step; no step puts an older one back.
LEMMA LatestStep == IInv /\ [Next]_vars => LatestHasBegun'
  <1> SUFFICES ASSUME IInv, [Next]_vars PROVE LatestHasBegun'
    OBVIOUS
  <1> DEFINE Open == {"slot", "apply", "deadCheck"}
  <1> USE NoneAssumption DEF LatestHasBegun, Set, Goto, fixed
  <1>0. TypeOK /\ LatestHasBegun
    BY DEF IInv
  <1>1. Cases
    BY NextCases
  <1>2. /\ id \in [Attempts -> Ids] /\ pc \in [Attempts -> PCs]
        /\ inFlight \in [Ids -> Attempts \cup {None}]
        /\ latest \in [Ids -> Attempts \cup {None}]
    BY <1>0 DEF TypeOK
  <1>3. ASSUME NEW a \in Attempts, Begin(a) PROVE LatestHasBegun'
    BY <1>0, <1>2, <1>3 DEF Begin
  <1>4. ASSUME NEW a \in Attempts, UNCHANGED <<id, streaming, latest>>, NEW p, Goto(a, p),
               p # "idle", p \in Open => a \in streaming,
               inFlight' = WithoutOwn(inFlight, a) \/ UNCHANGED inFlight
        PROVE  LatestHasBegun'
    <2>1. \A i \in Ids : inFlight'[i] \in {inFlight[i], None}
      BY <1>0, <1>2, <1>4, OwnEntryOnly
    <2>2. QED BY <1>0, <1>2, <1>4, <2>1
  <1>5. ASSUME NEW a \in Attempts, AttemptStep(a) PROVE LatestHasBegun'
    <2> USE DEF history
    <2>1. CASE SelectCancel(a)
      BY <1>4, <2>1 DEF SelectCancel
    <2>2. CASE SelectPoll(a)
      BY <1>4, <2>2 DEF SelectPoll
    <2>3. CASE SelectWork(a)
      BY <1>4, <2>3 DEF SelectWork
    <2>4. CASE Unwind(a)
      BY <1>4, <2>4 DEF Unwind
    <2>5. CASE HandOff(a)
      BY <1>4, <2>5 DEF HandOff
    <2>6. CASE TakePermit(a)
      BY <1>4, <2>6 DEF TakePermit
    <2>7. CASE SetSlot(a)
      BY <1>0, <1>4, <2>7 DEF SetSlot
    <2>8. CASE ApplyCancel(a)
      BY <1>0, <1>4, <2>8 DEF ApplyCancel
    <2>9. CASE DeadCheck(a)
      BY <1>4, <2>9 DEF DeadCheck
    <2>10. QED BY <1>5, <2>1, <2>2, <2>3, <2>4, <2>5, <2>6, <2>7, <2>8, <2>9 DEF AttemptStep
  <1>6. CASE UNCHANGED <<id, streaming, pc, inFlight, latest>>
    BY <1>0, <1>6
  <1>7. ASSUME NEW a \in Attempts, CallbackReleases(a) PROVE LatestHasBegun'
    BY <1>6, <1>7 DEF CallbackReleases
  <1>8. ASSUME NEW i \in Ids, Release(i) PROVE LatestHasBegun'
    BY <1>6, <1>8 DEF Release, attempt
  <1>9. QED BY <1>1, <1>3, <1>5, <1>6, <1>7, <1>8 DEF Cases, Quiet

-----------------------------------------------------------------------------
(* No cancel is forgotten. *)

\* What is on record of a cancel meant for attempt b, now or after a step.
Recorded(b) ==
  \/ permit[b] \/ cancelled[b]
  \/ raced[b] /\ pc[b] \in {"slot", "apply"}
  \/ pc[b] \in {"unwind", "failed"}
  \/ b \notin streaming /\ pc[b] \in {"handed", "done"}
  \/ streams[id[b]] # b /\ pc[b] \in {"handed", "slot", "apply", "deadCheck", "done"}

\* A cancel that finds nothing in in_flight finds the call in the stream
\* registry, or an attempt that has failed, was unary or has lost its handle.
LEMMA CancelIsRecorded ==
  ASSUME IInv, NEW i \in Ids, GrpcCancel(i), latest[i] # None
  PROVE  Recorded(latest[i])'
  <1> DEFINE a == latest[i]
  <1> USE NoneAssumption DEF Set, fixed
  <1>1. /\ TypeOK /\ CancelableUntilHandOff /\ LatestHasBegun
    BY DEF IInv
  <1>2. /\ a \in Attempts /\ id[a] = i /\ pc[a] \in PCs /\ inFlight[i] \in {a, None}
        /\ permit \in [Attempts -> BOOLEAN] /\ cancelled \in [Attempts -> BOOLEAN]
        /\ latest[id[a]] = a
    BY <1>1 DEF TypeOK, Under, LatestHasBegun
  <1>3. UNCHANGED <<id, streaming, pc, streams, latest>>
    BY DEF GrpcCancel
  <1>4. CASE inFlight[i] # None
    <2>1. permit'[a]
      BY <1>2, <1>4 DEF GrpcCancel
    <2>2. QED BY <1>3, <2>1 DEF Recorded
  <1>5. CASE inFlight[i] = None /\ streams[i] = a
    <2>1. cancelled'[a]
      BY <1>2, <1>5 DEF GrpcCancel
    <2>2. QED BY <1>3, <2>1 DEF Recorded
  <1>6. CASE inFlight[i] = None /\ streams[i] # a
    <2> HIDE DEF a
    <2>1. pc[a] # "idle"
      BY <1>1, <1>2 DEF LatestHasBegun
    <2>2. pc[a] \notin {"working", "polling", "ready"}
      BY <1>1, <1>2, <1>6 DEF CancelableUntilHandOff
    <2>3. Recorded(a)'
      <3>1. a' = a
        BY <1>3 DEF a
      <3>2. pc[a] \in {"unwind", "failed", "handed", "slot", "apply", "deadCheck", "done"}
        BY <1>2, <2>1, <2>2 DEF PCs
      <3>3. QED BY <1>2, <1>3, <1>6, <3>1, <3>2 DEF Recorded
    <2>4. QED BY <2>3 DEF a
  <1>7. QED BY <1>2, <1>4, <1>5, <1>6

\* What is on record of a cancel stays on record through every other step.
LEMMA RecordStays ==
  ASSUME IInv, [Next]_vars, NEW b \in Attempts, Recorded(b)
  PROVE  Recorded(b)'
  <1> DEFINE Past == {"handed", "slot", "apply", "deadCheck", "done"}
  <1> USE NoneAssumption DEF Set, Goto, fixed
  <1>1. TypeOK /\ LatestHasBegun
    BY DEF IInv
  <1>2. /\ id \in [Attempts -> Ids] /\ pc \in [Attempts -> PCs]
        /\ permit \in [Attempts -> BOOLEAN] /\ raced \in [Attempts -> BOOLEAN]
        /\ cancelled \in [Attempts -> BOOLEAN]
        /\ streams \in [Ids -> Attempts \cup {None}]
    BY <1>1 DEF TypeOK
  <1>3. \A a \in Attempts : pc[a] \in {"slot", "apply", "deadCheck"} => a \in streaming
    BY <1>1 DEF LatestHasBegun
  <1> USE <1>2, <1>3
  <1>4. ASSUME NEW a \in Attempts, streams' = WithoutOwn(streams, a) \/ UNCHANGED streams
        PROVE  \A i \in Ids : streams'[i] \in {streams[i], None}
    BY <1>1, <1>4, OwnEntryOnly
  <1>5. ASSUME UNCHANGED <<id, streaming, pc, permit, raced, cancelled>>,
               \A i \in Ids : streams'[i] \in {streams[i], None}
        PROVE  Recorded(b)'
    BY <1>5 DEF Recorded
  <1>6. ASSUME NEW a \in Attempts, Begin(a) PROVE Recorded(b)'
    BY <1>6 DEF Begin, callVars, Recorded
  <1>7. ASSUME NEW a \in Attempts, AttemptStep(a) PROVE Recorded(b)'
    <2> USE DEF history, callVars, Recorded
    <2>1. CASE SelectCancel(a)
      BY <2>1 DEF SelectCancel
    <2>2. CASE SelectPoll(a)
      BY <2>2 DEF SelectPoll
    <2>3. CASE SelectWork(a)
      BY <2>3 DEF SelectWork
    <2>4. CASE Unwind(a)
      BY <2>4 DEF Unwind
    <2>5. CASE HandOff(a)
      BY <2>5 DEF HandOff
    <2>6. CASE TakePermit(a)
      BY <2>6 DEF TakePermit
    <2>7. CASE SetSlot(a)
      BY <2>7 DEF SetSlot
    <2>8. CASE ApplyCancel(a)
      BY <2>8 DEF ApplyCancel
    <2>9. CASE DeadCheck(a)
      BY <1>4, <2>9 DEF DeadCheck, CancelAndRelease
    <2>10. QED BY <1>7, <2>1, <2>2, <2>3, <2>4, <2>5, <2>6, <2>7, <2>8, <2>9 DEF AttemptStep
  <1>8. ASSUME NEW a \in Attempts, CallbackFails(a) PROVE Recorded(b)'
    BY <1>5, <1>8 DEF CallbackFails, callVars
  <1>9. ASSUME NEW a \in Attempts, CallbackReleases(a) PROVE Recorded(b)'
    BY <1>4, <1>9 DEF CallbackReleases, CancelAndRelease, Recorded
  <1>10. ASSUME NEW a \in Attempts, Reload(a) PROVE Recorded(b)'
    BY <1>5, <1>10 DEF Reload, attempt
  <1>11. ASSUME NEW a \in Attempts, CallOver(a) \/ CallDropped(a) PROVE Recorded(b)'
    BY <1>5, <1>11 DEF CallOver, CallDropped, attempt
  <1>12. ASSUME NEW i \in Ids, GrpcCancel(i) PROVE Recorded(b)'
    BY <1>12 DEF GrpcCancel, Recorded
  <1>13. ASSUME NEW i \in Ids, Release(i) PROVE Recorded(b)'
    BY <1>5, <1>13 DEF Release, attempt, callVars
  <1>14. CASE UNCHANGED vars
    BY <1>5, <1>14 DEF vars, attempt, callVars
  <1>15. QED BY <1>6, <1>7, <1>8, <1>9, <1>10, <1>11, <1>12, <1>13, <1>14 DEF Next

\* Only a cancel aims at an attempt.
LEMMA AimedByCancel ==
  ASSUME [Next]_vars
  PROVE  UNCHANGED aimed \/ \E i \in Ids : GrpcCancel(i)
  <1> USE DEF history
  <1>1. ASSUME NEW a \in Attempts, AttemptStep(a) PROVE UNCHANGED aimed
    BY <1>1 DEF AttemptStep, SelectCancel, SelectPoll, SelectWork, Unwind, HandOff, TakePermit,
                SetSlot, ApplyCancel, DeadCheck
  <1>2. QED
    BY <1>1 DEF Next, Begin, CallbackFails, CallbackReleases, Reload, CallOver, CallDropped,
                Release, vars

\* So every cancel that was aimed at an attempt is on record after every step.
LEMMA OnRecordStep == IInv /\ [Next]_vars => CancelOnRecord'
  <1> SUFFICES ASSUME IInv, [Next]_vars, NEW b \in aimed' PROVE Recorded(b)'
    BY DEF CancelOnRecord, Recorded
  <1>1. /\ CancelOnRecord /\ aimed \subseteq Attempts
        /\ \A i \in Ids : latest[i] \in Attempts \cup {None}
    BY DEF IInv, TypeOK
  <1>2. CASE b \in aimed
    BY <1>1, <1>2, RecordStays DEF CancelOnRecord, Recorded
  <1>3. CASE b \notin aimed
    <2>1. PICK i \in Ids : GrpcCancel(i)
      BY <1>3, AimedByCancel
    <2>2. b = latest[i] /\ latest[i] # None
      BY <1>3, <2>1 DEF GrpcCancel
    <2>3. Recorded(latest[i])'
      BY <2>1, <2>2, CancelIsRecorded
    <2>4. latest' = latest
      BY <2>1 DEF GrpcCancel
    <2>5. QED BY <2>2, <2>3, <2>4 DEF Recorded
  <1>4. QED BY <1>2, <1>3

\* Every step keeps the invariant.
LEMMA NextInv == IInv /\ [Next]_vars => IInv'
  BY TypeStep, RacingStep, HandedOverStep, LatestStep, CancelableStep, RegisteredStep, OnRecordStep
     DEF IInv

-----------------------------------------------------------------------------
\* The inductive invariant, for every number of attempts and request ids.
THEOREM Invariance == Spec => []IInv
  <1>1. QED BY InitInv, NextInv, PTL DEF Spec

\* race_cancel_handoff: the id names its latest attempt in exactly one registry
\* from Begin until the call is released - never in both, never in neither.
THEOREM ExactlyOne == Spec => []ExactlyOneRegistry
  <1>1. IInv => NeverInBoth
    BY NoneAssumption DEF IInv, InFlightIsRacing, StreamsAreHandedOver, NeverInBoth
  <1>2. IInv => ExactlyOneRegistry
    BY <1>1 DEF IInv, ExactlyOneRegistry
  <1>3. QED BY <1>2, Invariance, PTL

\* A cancel finds its call in one registry, and is on record from the command
\* until it takes effect: as a permit, as the raced flag, or as a cancelled call,
\* wherever the attempt was when it landed (grpc_cancel_impl, has_permit,
\* stream_open_impl).
THEOREM CancelFinds == Spec => []CancelFindsItsCall
  <1>1. IInv => CancelOnRecord
    BY DEF IInv
  <1>2. QED BY <1>1, ExactlyOne, Invariance, PTL DEF CancelFindsItsCall
=============================================================================
