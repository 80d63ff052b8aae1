-------------------------------- MODULE History_proofs --------------------------------
(***************************************************************************)
(* The history log keeps its promise for every HISTORY_CAP and any number  *)
(* of calls: its page is what a restart would list, and it implements      *)
(* CallLog; so does its composition with the webview's history page, which *)
(* shows a page of the log and never an older one than it was told of.     *)
(*                                                                         *)
(* Everything rests on one fact about retain_newest (NewestOfBetween): a   *)
(* set that keeps the newest calls of S and loses any others has the same  *)
(* newest calls as S.  So nothing best effort matters: whatever subset of  *)
(* the evicted bodies is removed, and whether or not the index is written. *)
(***************************************************************************)
EXTENDS HistoryView, FiniteSetTheorems, WellFoundedInduction, TLAPS

\* The calls of S newer than c, which Newest counts.
Above(c, S) == {d \in S : d > c}

\* Sets of calls are finite, and counting them is monotone.
LEMMA CallsFinite ==
    ASSUME NEW S \in SUBSET Calls
    PROVE  /\ IsFiniteSet(S)
           /\ Cardinality(S) \in Nat
           /\ \A T \in SUBSET S : /\ IsFiniteSet(T)
                                  /\ Cardinality(T) \in Nat
                                  /\ Cardinality(T) <= Cardinality(S)
<1>1. IsFiniteSet(Calls)
  BY CallsAssumption, FS_Interval DEF Calls
<1>2. IsFiniteSet(S)
  BY <1>1, FS_Subset
<1>3. ASSUME NEW T \in SUBSET S
      PROVE  IsFiniteSet(T) /\ Cardinality(T) <= Cardinality(S)
  BY <1>2, FS_Subset
<1> QED
  BY <1>2, <1>3, FS_CardinalityType

\* A non-empty set of calls has an oldest and a newest one.
LEMMA Extremes ==
    ASSUME NEW S \in SUBSET Calls, S # {}
    PROVE  /\ \E x \in S : \A y \in S : x <= y
           /\ \E x \in S : \A y \in S : y <= x
<1>1. S \subseteq Nat
  BY CallsAssumption DEF Calls
<1>. DEFINE Less == OpToRel(<, Nat)
<1>a. \A m, n \in Nat : m < n => <<m, n>> \in Less
  BY DEF OpToRel
<1>b. IsWellFoundedOn(Less, Nat)
  BY NatLessThanWellFounded
<1>. HIDE DEF Less
<1>2. \E x \in S : \A y \in S : x <= y
  <2>1. PICK x \in S : \A y \in S : ~(<<y, x>> \in Less)
    BY <1>1, <1>b, WFMin
  <2>2. ASSUME NEW y \in S PROVE x <= y
    <3>1. x \in Nat /\ y \in Nat /\ ~(y < x)
      BY <1>1, <1>a, <2>1
    <3> QED
      BY <3>1
  <2> QED
    BY <2>2
<1>3. \E x \in S : \A y \in S : y <= x
  <2> DEFINE Down == {MaxCalls - y : y \in S}
  <2>1. Down \subseteq Nat
    <3>1. \A y \in S : y \in Nat /\ y <= MaxCalls
      BY CallsAssumption DEF Calls
    <3> QED
      BY <3>1, CallsAssumption
  <2>2. PICK n \in Down : \A m \in Down : ~(<<m, n>> \in Less)
    <3>1. Down # {}
      OBVIOUS
    <3> HIDE DEF Down
    <3> QED
      BY <2>1, <3>1, <1>b, WFMin
  <2>3. ASSUME NEW m \in Down PROVE n <= m
    <3>1. n \in Nat /\ m \in Nat /\ ~(m < n)
      <4> HIDE DEF Down
      <4> QED
        BY <2>1, <2>2, <1>a
    <3> QED
      BY <3>1
  <2>4. PICK x \in S : n = MaxCalls - x
    BY <2>2
  <2> QED
    BY <1>1, <2>3, <2>4, CallsAssumption
<1> QED
  BY <1>2, <1>3

\* retain_newest keeps at most HISTORY_CAP calls, of those it is given.
LEMMA NewestBounded ==
    ASSUME NEW S \in SUBSET Calls
    PROVE  /\ Newest(S) \subseteq S
           /\ Cardinality(Newest(S)) <= HISTORY_CAP
<1>1. Newest(S) \subseteq S
  BY DEF Newest
<1>2. CASE Newest(S) = {}
  BY <1>1, <1>2, CapAssumption, FS_EmptySet
<1>3. CASE Newest(S) # {}
  <2>1. PICK x \in Newest(S) : \A y \in Newest(S) : x <= y
    BY <1>1, <1>3, Extremes
  <2>2. ASSUME NEW y \in Newest(S) PROVE y \in Above(x, S) \cup {x}
    <3>1. x \in Int /\ y \in Int /\ x <= y
      <4>1. x \in Calls /\ y \in Calls /\ x <= y
        BY <1>1, <2>1
      <4> QED
        BY <4>1, CallsAssumption DEF Calls
    <3>2. y = x \/ y > x
      BY <3>1
    <3> QED
      BY <1>1, <3>2 DEF Above
  <2>3. Cardinality(Above(x, S)) < HISTORY_CAP
    BY <2>1 DEF Newest, Above
  <2>4. /\ IsFiniteSet(Above(x, S)) /\ Cardinality(Above(x, S)) \in Nat
        /\ Above(x, S) \cup {x} \in SUBSET Calls
    BY <1>1, CallsFinite DEF Above
  <2>5. Cardinality(Above(x, S) \cup {x}) <= HISTORY_CAP
    <3>1. Cardinality(Above(x, S) \cup {x}) \in {Cardinality(Above(x, S)), Cardinality(Above(x, S)) + 1}
      BY <2>4, FS_AddElement
    <3> QED
      BY <2>3, <2>4, <3>1, CapAssumption
  <2>6. /\ Cardinality(Newest(S)) <= Cardinality(Above(x, S) \cup {x})
        /\ Cardinality(Newest(S)) \in Nat /\ Cardinality(Above(x, S) \cup {x}) \in Nat
    BY <2>2, <2>4, CallsFinite
  <2> QED
    BY <1>1, <2>5, <2>6, CapAssumption
<1> QED
  BY <1>1, <1>2, <1>3

\* A call among the newest of S is among the newest of any part of S it belongs to.
LEMMA NewestOfPart ==
    ASSUME NEW S \in SUBSET Calls, NEW T \in SUBSET S, NEW c \in T, c \in Newest(S)
    PROVE  c \in Newest(T)
<1>1. Above(c, T) \in SUBSET Above(c, S) /\ Above(c, S) \in SUBSET Calls
  BY DEF Above
<1>2. /\ Cardinality(Above(c, T)) <= Cardinality(Above(c, S))
      /\ Cardinality(Above(c, T)) \in Nat /\ Cardinality(Above(c, S)) \in Nat
  BY <1>1, CallsFinite
<1>3. Cardinality(Above(c, S)) < HISTORY_CAP
  BY DEF Newest, Above
<1> QED
  BY <1>2, <1>3, CapAssumption DEF Newest, Above

\* Losing calls that are not among the newest changes nothing for those that are.
LEMMA NewestOfBetween ==
    ASSUME NEW S \in SUBSET Calls, NEW T \in SUBSET S, Newest(S) \subseteq T
    PROVE  Newest(T) = Newest(S)
<1>1. Newest(S) \subseteq Newest(T)
  BY NewestOfPart
<1>2. ASSUME NEW c \in Newest(T), c \notin Newest(S)
      PROVE  FALSE
  <2> DEFINE Lost == Above(c, S) \ T
  <2>1. /\ c \in T /\ Cardinality(Above(c, T)) < HISTORY_CAP
        /\ ~(Cardinality(Above(c, S)) < HISTORY_CAP)
    BY <1>2 DEF Newest, Above
  <2>2. Lost # {}
    <3>1. SUFFICES ASSUME Lost = {} PROVE FALSE
      OBVIOUS
    <3>2. Above(c, S) = Above(c, T)
      BY <3>1 DEF Above
    <3> QED
      BY <2>1, <3>2
  <2>3. PICK d \in Lost : \A e \in Lost : e <= d
    <3>1. Lost \in SUBSET Calls
      BY DEF Above
    <3> QED
      BY <2>2, <3>1, Extremes
  <2>4. Above(d, S) \subseteq Above(c, T)
    <3>1. d \in S /\ d > c /\ d \in Int /\ c \in Int
      BY <2>1 DEF Above, Calls
    <3>2. ASSUME NEW e \in Above(d, S) PROVE e \in S /\ e > c /\ ~(e <= d)
      BY <3>1 DEF Above, Calls
    <3>3. ASSUME NEW e \in Above(d, S), e \notin T PROVE FALSE
      <4>1. e \in Lost
        BY <3>2, <3>3 DEF Above
      <4> QED
        BY <2>3, <3>2, <4>1
    <3> QED
      BY <3>2, <3>3 DEF Above
  <2>5. Above(c, T) \in SUBSET Calls
    BY DEF Above
  <2>6. Cardinality(Above(d, S)) < HISTORY_CAP
    BY <2>1, <2>4, <2>5, CallsFinite, CapAssumption
  <2>7. d \in Newest(S)
    BY <2>3, <2>6 DEF Newest, Above
  <2> QED
    BY <2>3, <2>7
<1> QED
  BY <1>1, <1>2

\* Forgetting the evicted calls before one more is added, or after, is the same.
LEMMA NewestAfterAdding ==
    ASSUME NEW S \in SUBSET Calls, NEW c \in Calls
    PROVE  Newest(Newest(S) \cup {c}) = Newest(S \cup {c})
<1>1. Newest(S) \cup {c} \in SUBSET (S \cup {c})
  BY NewestBounded
<1>2. ASSUME NEW x \in Newest(S \cup {c}), x # c
      PROVE  x \in Newest(S)
  <2>1. x \in S
    BY <1>2 DEF Newest
  <2> QED
    BY <1>2, <2>1, NewestOfPart
<1>3. Newest(S \cup {c}) \subseteq Newest(S) \cup {c}
  BY <1>2
<1> QED
  BY <1>1, <1>3, NewestOfBetween

------------------------------------------------------------------------------------
\* What the log would list after a step that only removes files: the same newest calls, as
\* long as none of theirs goes.
LEMMA RemoveKeepsNewest ==
    ASSUME TypeOK, NEW gone \in SUBSET Calls, gone \cap Newest(Readable) = {}, Remove(gone), UNCHANGED index
    PROVE  /\ Readable' \in SUBSET Readable
           /\ Newest(Readable) \subseteq Readable'
           /\ Newest(Readable)' = Newest(Readable)
<1>1. Readable \in SUBSET Calls
  BY DEF TypeOK, Readable
<1>2. Readable' = Readable \ gone
  BY DEF Remove, Readable
<1>3. Newest(Readable) \subseteq Readable
  BY <1>1, NewestBounded
<1>4. Readable' \in SUBSET Readable /\ Newest(Readable) \subseteq Readable'
  BY <1>2, <1>3
<1>5. Newest(Readable') = Newest(Readable)
  BY <1>1, <1>4, NewestOfBetween
<1> QED
  BY <1>4, <1>5 DEF Newest

\* Writing the index, or failing to, is the same: what drops out of what a load would list
\* is only ever an old damaged body.
LEMMA IndexKeepsNewest ==
    ASSUME TypeOK, index' \in {Newest(Readable), index}, UNCHANGED <<bodies, damaged>>
    PROVE  /\ Readable' \in SUBSET Readable
           /\ Newest(Readable) \subseteq Readable'
           /\ Newest(Readable)' = Newest(Readable)
<1>1. Readable \in SUBSET Calls
  BY DEF TypeOK, Readable
<1>2. Newest(Readable) \subseteq Readable
  BY <1>1, NewestBounded
<1>3. Readable' \in SUBSET Readable /\ Newest(Readable) \subseteq Readable'
  <2>1. CASE index' = index
    BY <1>2, <2>1 DEF Readable
  <2>2. CASE index' = Newest(Readable)
    BY <1>2, <2>2 DEF Readable
  <2> QED
    BY <2>1, <2>2
<1>4. Newest(Readable') = Newest(Readable)
  BY <1>1, <1>3, NewestOfBetween
<1> QED
  BY <1>3, <1>4 DEF Newest

------------------------------------------------------------------------------------
\* The invariant is inductive.
LEMMA InitInv == Init => IInv
<1> SUFFICES ASSUME Init PROVE IInv
  OBVIOUS
<1>1. Cardinality(rows) <= HISTORY_CAP
  BY CapAssumption, FS_EmptySet DEF Init
<1> QED
  BY <1>1, CallsAssumption DEF Init, IInv, TypeOK, PageSurvivesRestart, AppendIsAtomic, Calls

\* The page a step makes with retain_newest is of its type.
LEMMA NewPage ==
    ASSUME NEW S \in SUBSET Calls
    PROVE  Newest(S) \subseteq Calls /\ Cardinality(Newest(S)) <= HISTORY_CAP
BY NewestBounded

LEMMA LoadRowsInv == ASSUME IInv, LoadRows PROVE IInv'
<1>1. Readable \in SUBSET Calls /\ Newest(Readable) \subseteq Readable
  BY NewestBounded DEF IInv, TypeOK, Readable
<1>2. PICK gone \in SUBSET (Evicted \cup (bodies \ Readable)) : Remove(gone)
  BY DEF LoadRows
<1>3. gone \cap Newest(Readable) = {} /\ gone \in SUBSET Calls
  BY <1>1, <1>2 DEF Evicted, IInv, TypeOK
<1>4. Newest(Readable)' = Newest(Readable)
  BY <1>2, <1>3, RemoveKeepsNewest DEF LoadRows, IInv
<1>5. TypeOK'
  BY <1>1, <1>2, NewPage DEF LoadRows, Remove, IInv, TypeOK
<1> QED
  BY <1>4, <1>5 DEF LoadRows, IInv, PageSurvivesRestart, AppendIsAtomic

LEMMA LoadIndexInv == ASSUME IInv, LoadIndex PROVE IInv'
<1>1. rows = Newest(Readable)
  BY DEF LoadIndex, IInv
<1>2. Newest(Readable)' = Newest(Readable)
  BY <1>1, IndexKeepsNewest DEF LoadIndex, IInv
<1>3. TypeOK'
  BY DEF LoadIndex, IInv, TypeOK
<1> QED
  BY <1>1, <1>2, <1>3 DEF LoadIndex, IInv, PageSurvivesRestart, AppendIsAtomic

LEMMA AppendBodyInv == ASSUME IInv, NEW c \in Calls, AppendBody(c) PROVE IInv'
<1>1. Readable \in SUBSET Calls
  BY DEF IInv, TypeOK, Readable
<1>2. Readable' = Readable \cup {c}
  BY DEF AppendBody, Readable
<1>3. Newest(Readable \cup {c}) = Newest(rows \cup {c})
  BY <1>1, NewestAfterAdding DEF AppendBody, IInv, PageSurvivesRestart
<1>4. AppendIsAtomic'
  BY <1>2, <1>3 DEF AppendBody, AppendIsAtomic, Newest
<1>5. TypeOK'
  BY CallsAssumption DEF AppendBody, IInv, TypeOK, Calls
<1> QED
  BY <1>4, <1>5 DEF AppendBody, IInv, PageSurvivesRestart

LEMMA AppendIndexInv == ASSUME IInv, AppendIndex PROVE IInv'
<1>1. Newest(rows \cup {adding}) = Newest(Readable)
  BY DEF AppendIndex, IInv, AppendIsAtomic
<1>2. Newest(Readable)' = Newest(Readable)
  BY <1>1, IndexKeepsNewest DEF AppendIndex, IInv
<1>3. rows \cup {adding} \in SUBSET Calls
  BY DEF AppendIndex, IInv, TypeOK
<1>4. TypeOK'
  BY <1>3, NewPage DEF AppendIndex, IInv, TypeOK
<1>5. AppendIsAtomic'
  BY <1>1, <1>2 DEF AppendIndex, AppendIsAtomic, Newest
<1> QED
  BY <1>4, <1>5 DEF AppendIndex, IInv, PageSurvivesRestart

LEMMA AppendFinishInv == ASSUME IInv, AppendFinish PROVE IInv'
<1>1. Newest(rows \cup {adding}) = Newest(Readable)
  BY DEF AppendFinish, IInv, AppendIsAtomic
<1>2. rows \cup {adding} \in SUBSET Calls
  BY DEF AppendFinish, IInv, TypeOK
<1>3. PICK gone \in SUBSET ((rows \cup {adding}) \ rows') : Remove(gone)
  BY DEF AppendFinish
<1>4. gone \cap Newest(Readable) = {} /\ gone \in SUBSET Calls
  BY <1>1, <1>2, <1>3 DEF AppendFinish
<1>5. Newest(Readable)' = Newest(Readable)
  BY <1>3, <1>4, RemoveKeepsNewest DEF AppendFinish, IInv
<1>6. TypeOK'
  BY <1>2, <1>3, NewPage DEF AppendFinish, Remove, IInv, TypeOK
<1> QED
  BY <1>1, <1>5, <1>6 DEF AppendFinish, IInv, PageSurvivesRestart, AppendIsAtomic

\* With no body on disk there is nothing to list.
LEMMA NothingReadable == ASSUME bodies = {} PROVE Newest(Readable) = {}
BY DEF Newest, Readable

LEMMA ClearInv == ASSUME IInv, ClearDetach \/ ClearFinish PROVE IInv'
<1>1. bodies' = {}
  BY DEF ClearDetach, ClearFinish, IInv
<1>2. Newest(Readable)' = {}
  BY <1>1 DEF Newest, Readable
<1>3. Cardinality({}) <= HISTORY_CAP
  BY CapAssumption, FS_EmptySet
<1>4. TypeOK'
  BY <1>3 DEF ClearDetach, ClearFinish, IInv, TypeOK
<1> QED
  BY <1>1, <1>2, <1>4 DEF ClearDetach, ClearFinish, IInv, PageSurvivesRestart, AppendIsAtomic

LEMMA DownInv ==
    ASSUME IInv, \/ Crash \/ LoseIndex
                 \/ \E c \in Calls : DamageBody(c) \/ LoseBody(c)
    PROVE  IInv'
<1>1. pc' = "down"
  BY DEF Crash, LoseIndex, DamageBody, LoseBody
<1>2. Cardinality({}) <= HISTORY_CAP
  BY CapAssumption, FS_EmptySet
<1>3. TypeOK'
  BY <1>2 DEF Crash, LoseIndex, DamageBody, LoseBody, Remove, disk, IInv, TypeOK
<1> QED
  BY <1>1, <1>3 DEF IInv, PageSurvivesRestart, AppendIsAtomic

LEMMA NextInv == IInv /\ [Next]_vars => IInv'
<1> SUFFICES ASSUME IInv, [Next]_vars PROVE IInv'
  OBVIOUS
<1>1. CASE UNCHANGED vars
  <2>1. Newest(Readable)' = Newest(Readable) /\ Newest(rows \cup {adding})' = Newest(rows \cup {adding})
    BY <1>1 DEF vars, Newest, Readable
  <2> QED
    BY <1>1, <2>1 DEF vars, IInv, TypeOK, PageSurvivesRestart, AppendIsAtomic
<1>2. CASE Next
  BY <1>2, LoadRowsInv, LoadIndexInv, AppendBodyInv, AppendIndexInv, AppendFinishInv, ClearInv, DownInv DEF Next
<1> QED
  BY <1>1, <1>2

\* The invariant holds in every reachable state, for every HISTORY_CAP and number of calls
\* (IInv).
THEOREM Invariance == Spec => []IInv
BY InitInv, NextInv, PTL DEF Spec

\* Every variable keeps its type; the page never exceeds HISTORY_CAP (TypeOK).
THEOREM TypeCorrect == Spec => []TypeOK
<1>1. IInv => TypeOK
  BY DEF IInv
<1> QED
  BY <1>1, Invariance, PTL

\* A page nobody is changing is what a restart would list (PageSurvivesRestart).
THEOREM RestartShowsThePage == Spec => []PageSurvivesRestart
<1>1. IInv => PageSurvivesRestart
  BY DEF IInv
<1> QED
  BY <1>1, Invariance, PTL

\* Once its body is on disk an append is done as far as a restart can tell (AppendIsAtomic).
THEOREM AppendAtomicity == Spec => []AppendIsAtomic
<1>1. IInv => AppendIsAtomic
  BY DEF IInv
<1> QED
  BY <1>1, Invariance, PTL

------------------------------------------------------------------------------------
\* Every step of the store is a step of the log, or none.
LEMMA LogStep == IInv /\ [Next]_vars => [Log!Next]_(Log!logVars)
<1> SUFFICES ASSUME IInv, [Next]_vars PROVE [Log!Next]_(Log!logVars)
  OBVIOUS
<1> USE DEF Log!Next, Log!logVars
<1>0. Log!Newest(Readable) = Newest(Readable)
  BY DEF Log!Newest, Newest, Log!Cardinality, Cardinality, Log!IsFiniteSet, IsFiniteSet
<1>1. Readable \in SUBSET Calls /\ Newest(Readable) \subseteq Readable
  BY NewestBounded DEF IInv, TypeOK, Readable
<1>2. CASE LoadRows
  <2>1. PICK gone \in SUBSET (Evicted \cup (bodies \ Readable)) : Remove(gone)
    BY <1>2 DEF LoadRows
  <2>2. gone \cap Newest(Readable) = {} /\ gone \in SUBSET Calls
    BY <1>1, <2>1 DEF Evicted, IInv, TypeOK
  <2>3. Readable' \in SUBSET Readable /\ Newest(Readable) \subseteq Readable'
    BY <1>2, <2>1, <2>2, RemoveKeepsNewest DEF LoadRows, IInv
  <2>4. Log!Trim
    BY <1>0, <1>2, <2>3 DEF LoadRows, Log!Trim
  <2> QED
    BY <2>4
<1>3. CASE LoadIndex \/ AppendIndex
  <2>1. index' \in {Newest(Readable), index} /\ UNCHANGED <<bodies, damaged>>
    BY <1>3 DEF LoadIndex, AppendIndex, IInv, AppendIsAtomic
  <2>2. Readable' \in SUBSET Readable /\ Newest(Readable) \subseteq Readable'
    BY <2>1, IndexKeepsNewest DEF IInv
  <2>3. Log!Trim
    BY <1>0, <1>3, <2>2 DEF LoadIndex, AppendIndex, Log!Trim
  <2> QED
    BY <2>3
<1>4. ASSUME NEW c \in Calls, AppendBody(c)
      PROVE  Log!Next
  <2>1. Readable' = Readable \cup {c}
    BY <1>4 DEF AppendBody, Readable
  <2>2. Log!Record(c)
    BY <1>4, <2>1 DEF AppendBody, Log!Record
  <2> QED
    BY <2>2 DEF Log!Calls, Calls
<1>5. CASE AppendFinish
  <2>1. PICK gone \in SUBSET ((rows \cup {adding}) \ rows') : Remove(gone)
    BY <1>5 DEF AppendFinish
  <2>2. gone \cap Newest(Readable) = {} /\ gone \in SUBSET Calls
    BY <1>5, <2>1 DEF AppendFinish, IInv, TypeOK, AppendIsAtomic
  <2>3. Readable' \in SUBSET Readable /\ Newest(Readable) \subseteq Readable'
    BY <1>5, <2>1, <2>2, RemoveKeepsNewest DEF AppendFinish, IInv
  <2>4. Log!Trim
    BY <1>0, <1>5, <2>3 DEF AppendFinish, Log!Trim
  <2> QED
    BY <2>4
<1>6. CASE ClearDetach
  <2>1. Readable' = {}
    BY <1>6 DEF ClearDetach, Readable
  <2>2. Log!Clear
    BY <1>6, <2>1 DEF ClearDetach, Log!Clear
  <2> QED
    BY <2>2
<1>7. CASE ClearFinish
  BY <1>7 DEF ClearFinish, Readable
<1>8. CASE Crash
  <2>1. Log!Stop
    BY <1>8 DEF Crash, disk, Readable, Log!Stop
  <2> QED
    BY <2>1
<1>9. ASSUME \/ LoseIndex
             \/ \E c \in Calls : DamageBody(c) \/ LoseBody(c)
      PROVE  Log!Next
  <2>1. pc = "down" /\ pc' = "down"
    BY <1>9 DEF LoseIndex, DamageBody, LoseBody
  <2>2. Readable' \subseteq Readable
    BY <1>9 DEF LoseIndex, DamageBody, LoseBody, Remove, Readable
  <2>3. Log!Lose
    BY <2>1, <2>2 DEF Log!Lose
  <2> QED
    BY <2>3
<1>10. CASE UNCHANGED vars
  BY <1>10 DEF vars, Readable
<1> QED
  BY <1>2, <1>3, <1>4, <1>5, <1>6, <1>7, <1>8, <1>9, <1>10 DEF Next

\* The store implements CallLog: a newest call leaves a running log only through clear, and none
\* comes back without being recorded (ImplementsLog).
THEOREM Refinement == Spec => ImplementsLog
<1>1. Init => Log!Init
  BY DEF Init, Readable, Log!Init
<1>2. Spec => Log!Spec
  BY <1>1, LogStep, Invariance, PTL DEF Spec, Log!Spec
<1> QED
  BY <1>2 DEF ImplementsLog

------------------------------------------------------------------------------------
(* The webview's page over the log. *)

\* Every step of the whole is a step of the store, or leaves the store as it is.
LEMMA ViewStepsAreLogSteps == [ViewNext]_allVars => [Next]_vars
<1> SUFFICES ASSUME [ViewNext]_allVars PROVE Next \/ UNCHANGED vars
  BY DEF vars
<1>1. CASE StoreStarts \/ FilesSuffer \/ ProcessDies
  BY <1>1 DEF StoreStarts, FilesSuffer, ProcessDies, Next
<1>2. CASE RecordWrites \/ Recorded \/ RecordedAlready \/ ClearStarts \/ Cleared
  BY <1>2 DEF RecordWrites, Recorded, RecordedAlready, ClearStarts, Cleared, Next
<1>3. CASE Subscribe \/ Listed \/ ListFails \/ (\E c \in Calls : Load(c)) \/ Got \/ Loaded
  BY <1>3 DEF Subscribe, Listed, ListFails, Load, Got, Loaded
<1>4. CASE \E p \in answers : Apply(p)
  BY <1>4 DEF Apply
<1>5. CASE UNCHANGED allVars
  BY <1>5 DEF allVars
<1> QED
  BY <1>1, <1>2, <1>3, <1>4, <1>5 DEF ViewNext

\* The page shown is a page.
LEMMA PagesTyped ==
    ASSUME IInv, ViewTypeOK
    PROVE  /\ Pages \subseteq Page /\ Current \in Page
           /\ Current.revision = revision /\ Current.rows = rows
BY DEF IInv, TypeOK, ViewTypeOK, Pages, Shown, Current, Page

\* What the pages under way and the one shown have to keep to, for any set of them.
Keeps(P, now) ==
    /\ \A p \in P : p.revision <= now.revision
    /\ P # {} => \E p \in P : p.revision = now.revision
    /\ \A p, q \in P \cup {now} : p.revision = q.revision => p.rows = q.rows

\* The invariant says so of the pages there are.
LEMMA PagesKeep ==
    ASSUME IInv, ViewTypeOK
    PROVE  Keeps(Pages, Current) /\ (pc \in {"down", "loaded"} => Pages = {})
             <=> NewestIsKnown /\ OnePagePerRevision
BY DEF Keeps, NewestIsKnown, OnePagePerRevision, Current

\* A writer that has replaced the page answers with a revision above all others, or, when
\* it changed nothing, with the page as it was.
LEMMA NewestAdded ==
    ASSUME NEW P \in SUBSET Page, NEW now \in Page, NEW next \in Page, Keeps(P, now),
           next.revision > now.revision \/ next = now
    PROVE  Keeps(P \cup {next}, next)
BY DEF Keeps, Page

\* A page that is dropped, because one at least as new is shown, takes no news with it.
LEMMA OlderDropped ==
    ASSUME NEW P \in SUBSET Page, NEW now \in Page, Keeps(P, now), NEW Q \in SUBSET P,
           \A p \in P : \E q \in Q : q.revision >= p.revision
    PROVE  Keeps(Q, now)
<1>1. \A p \in Q : p.revision <= now.revision
  BY DEF Keeps
<1>2. ASSUME P # {} PROVE \E q \in Q : q.revision = now.revision
  <2>1. PICK p \in P : p.revision = now.revision
    BY <1>2 DEF Keeps
  <2>2. PICK q \in Q : q.revision >= p.revision
    OBVIOUS
  <2> QED
    BY <1>1, <2>1, <2>2 DEF Page
<1> QED
  BY <1>1, <1>2 DEF Keeps

\* apply shows an answer or drops it: the newer of the two pages stays.
LEMMA ApplyKeepsNewer ==
    ASSUME IInv, ViewTypeOK, NEW p \in answers, Apply(p)
    PROVE  /\ ViewTypeOK' /\ Pages' \subseteq Pages
           /\ \A q \in Pages : \E r \in Pages' : r.revision >= q.revision
<1>1. /\ p \in Page /\ Pages \subseteq Page /\ answers' = answers \ {p}
      /\ view.phase \in {"loading", "ready", "failed"} /\ view.revision \in Nat
  BY PagesTyped DEF Apply, ViewTypeOK
<1>2. p = [revision |-> p.revision, rows |-> p.rows]
  BY <1>1 DEF Page
<1>3. CASE Newer(p)
  <2>1. view' = [phase |-> "ready", revision |-> p.revision, rows |-> p.rows]
    BY <1>3 DEF Apply
  <2>2. Shown' = {p}
    BY <1>2, <2>1 DEF Shown
  <2>3. Pages' = (answers \ {p}) \cup {p}
    BY <1>1, <2>2 DEF Pages
  <2>4. \A q \in Pages : q \in answers \/ p.revision > q.revision
    BY <1>3 DEF Pages, Shown, Newer
  <2>5. \A q \in Pages : \E r \in Pages' : r.revision >= q.revision
    BY <1>1, <2>3, <2>4 DEF Page
  <2> QED
    BY <1>1, <2>1, <2>3, <2>5 DEF ViewTypeOK, Pages, Page
<1>4. CASE ~Newer(p)
  <2>1. UNCHANGED view
    BY <1>4 DEF Apply
  <2>2. Shown' = Shown /\ Shown = {[revision |-> view.revision, rows |-> view.rows]}
    BY <1>4, <2>1 DEF Shown, Newer
  <2>3. Pages' = (answers \ {p}) \cup Shown
    BY <1>1, <2>2 DEF Pages
  <2>4. view.revision >= p.revision
    BY <1>1, <1>4 DEF Newer, Page
  <2>5. \E r \in Pages' : r.revision >= p.revision
    <3> DEFINE r == [revision |-> view.revision, rows |-> view.rows]
    <3>1. r \in Pages' /\ r.revision >= p.revision
      BY <2>2, <2>3, <2>4
    <3> QED
      BY <3>1
  <2>6. \A q \in Pages : q # p => q \in Pages'
    BY <2>3 DEF Pages
  <2>7. \A q \in Pages : \E r \in Pages' : r.revision >= q.revision
    BY <1>1, <2>5, <2>6 DEF Page
  <2> QED
    BY <1>1, <2>1, <2>3, <2>7 DEF ViewTypeOK, Pages
<1> QED
  BY <1>3, <1>4

\* With no page under way and none shown, as before the store is open, all is kept.
LEMMA NoPages ==
    ASSUME Pages' = {}
    PROVE  NewestIsKnown' /\ OnePagePerRevision'
BY DEF NewestIsKnown, OnePagePerRevision

\* The pages of the next state, when they keep to what they have to.
LEMMA PagesKept ==
    ASSUME NEW P, Pages' = P, Keeps(P, Current'), pc' \notin {"down", "loaded"}
    PROVE  NewestIsKnown' /\ OnePagePerRevision'
BY DEF Keeps, NewestIsKnown, OnePagePerRevision, Current

\* A step of the store that leaves its page alone, with nothing new for the view.
LEMMA QuietStep ==
    ASSUME ViewInv, UNCHANGED <<rows, revision, view, answers>>,
           pc' \in {"down", "loaded"} => pc \in {"down", "loaded"}
    PROVE  ViewTypeOK' /\ NewestIsKnown' /\ OnePagePerRevision'
<1>1. Pages' = Pages /\ Current' = Current /\ Shown' = Shown
  BY DEF Pages, Shown, Current
<1> QED
  BY <1>1 DEF ViewInv, ViewTypeOK, NewestIsKnown, OnePagePerRevision

\* An append or a clear that is done replaces the page and answers with it; so does an
\* append of a call already recorded, with the page as it is.
LEMMA WriterAnswers ==
    ASSUME ViewInv, IInv', Recorded \/ Cleared \/ RecordedAlready
    PROVE  ViewTypeOK' /\ NewestIsKnown' /\ OnePagePerRevision'
<1>1. /\ answers' = answers \cup {Current'} /\ UNCHANGED view /\ pc' = "idle"
  BY DEF Recorded, Cleared, RecordedAlready, AnswerPage, AppendFinish, ClearFinish, Current, vars
<1>2. pc \notin {"down", "loaded"}
  BY DEF Recorded, Cleared, RecordedAlready, AppendFinish, ClearFinish
<1>3. Current'.revision > Current.revision \/ Current' = Current
  BY DEF Recorded, Cleared, RecordedAlready, AppendFinish, ClearFinish, Current, vars,
         ViewInv, IInv, TypeOK
<1>4. /\ Current \in Page /\ Current' \in Page /\ Pages \subseteq Page
      /\ Keeps(Pages, Current)
  BY PagesTyped, PagesKeep DEF ViewInv, IInv, TypeOK, Current, Page
<1>5. Pages' = Pages \cup {Current'}
  BY <1>1 DEF Pages, Shown
<1>6. Keeps(Pages \cup {Current'}, Current')
  BY <1>3, <1>4, NewestAdded
<1>7. NewestIsKnown' /\ OnePagePerRevision'
  BY <1>1, <1>5, <1>6, PagesKept
<1>8. ViewTypeOK'
  BY <1>1, <1>4 DEF ViewInv, ViewTypeOK
<1> QED
  BY <1>7, <1>8

\* The first list answers with the page core holds.
LEMMA ListAnswers ==
    ASSUME ViewInv, Listed
    PROVE  ViewTypeOK' /\ NewestIsKnown' /\ OnePagePerRevision'
<1>1. /\ answers' = answers \cup {Current} /\ UNCHANGED view /\ pc' = "idle" /\ Current' = Current
  BY DEF Listed, Current, vars
<1>2. Current \in Page /\ Pages \subseteq Page /\ Keeps(Pages, Current)
  BY PagesTyped, PagesKeep DEF ViewInv
<1>3. Pages' = Pages \cup {Current}
  BY <1>1 DEF Pages, Shown
<1>4. Keeps(Pages \cup {Current}, Current)
  BY <1>2, NewestAdded
<1>5. NewestIsKnown' /\ OnePagePerRevision'
  BY <1>1, <1>3, <1>4, PagesKept
<1> QED
  BY <1>1, <1>2, <1>5 DEF ViewInv, ViewTypeOK

\* Applying answers in any order drops only pages that are not the newest.
LEMMA ApplyInv ==
    ASSUME ViewInv, NEW p \in answers, Apply(p)
    PROVE  ViewTypeOK' /\ NewestIsKnown' /\ OnePagePerRevision'
<1>1. /\ ViewTypeOK' /\ Pages' \subseteq Pages
      /\ \A q \in Pages : \E r \in Pages' : r.revision >= q.revision
  BY ApplyKeepsNewer DEF ViewInv
<1>2. Current' = Current /\ UNCHANGED pc
  BY DEF Apply, Current, vars
<1>3. Current \in Page /\ Pages \subseteq Page /\ Keeps(Pages, Current)
  BY PagesTyped, PagesKeep DEF ViewInv
<1>4. pc \notin {"down", "loaded"}
  BY DEF ViewInv, NewestIsKnown, Pages
<1>5. Keeps(Pages', Current)
  BY <1>1, <1>3, OlderDropped
<1>6. NewestIsKnown' /\ OnePagePerRevision'
  BY <1>2, <1>4, <1>5, PagesKept
<1> QED
  BY <1>1, <1>6

\* Every step keeps the pages in order.
LEMMA PagesInv ==
    ASSUME ViewInv, [ViewNext]_allVars, IInv'
    PROVE  ViewTypeOK' /\ NewestIsKnown' /\ OnePagePerRevision'
<1>1. CASE StoreStarts
  <2>1. UNCHANGED <<view, answers>> /\ pc \in {"down", "loaded"}
    BY <1>1 DEF StoreStarts, LoadRows, LoadIndex, viewVars
  <2>2. Pages' = {}
    BY <2>1 DEF ViewInv, NewestIsKnown, Pages, Shown
  <2> QED
    BY <2>1, <2>2, NoPages DEF ViewInv, ViewTypeOK
<1>2. CASE FilesSuffer
  BY <1>2, QuietStep DEF FilesSuffer, DamageBody, LoseBody, LoseIndex, viewVars
<1>3. CASE ProcessDies
  <2>1. Pages' = {} /\ ViewTypeOK'
    BY <1>3 DEF ProcessDies, Pages, Shown, Loading, ViewTypeOK
  <2> QED
    BY <2>1, NoPages
<1>4. CASE RecordWrites \/ ClearStarts
  BY <1>4, QuietStep DEF RecordWrites, ClearStarts, AppendBody, AppendIndex, ClearDetach, viewVars
<1>5. CASE Recorded \/ Cleared \/ RecordedAlready
  BY <1>5, WriterAnswers
<1>6. CASE Subscribe \/ (\E c \in Calls : Load(c)) \/ Got \/ Loaded
  BY <1>6, QuietStep DEF Subscribe, Load, Got, Loaded, vars
<1>7. CASE Listed
  BY <1>7, ListAnswers
<1>8. CASE ListFails
  <2>1. UNCHANGED <<vars, answers>> /\ Shown' = Shown /\ ViewTypeOK'
    BY <1>8 DEF ListFails, Shown, ViewInv, ViewTypeOK
  <2>2. Pages' = Pages /\ Current' = Current /\ UNCHANGED <<pc, revision>>
    BY <2>1 DEF Pages, Current, vars
  <2> QED
    BY <2>1, <2>2 DEF ViewInv, NewestIsKnown, OnePagePerRevision
<1>9. CASE \E p \in answers : Apply(p)
  BY <1>9, ApplyInv
<1>10. CASE UNCHANGED allVars
  BY <1>10, QuietStep DEF allVars, vars, viewVars
<1> QED
  BY <1>1, <1>2, <1>3, <1>4, <1>5, <1>6, <1>7, <1>8, <1>9, <1>10 DEF ViewNext

\* The records cached for the detail pane keep to the page shown: a new page takes those it
\* does not list, and an answer that comes after it is not kept.
LEMMA CacheInv ==
    ASSUME ViewInv, [ViewNext]_allVars
    PROVE  CacheIsListed'
<1> USE DEF CacheIsListed
<1>1. CacheIsListed
  BY DEF ViewInv
<1>2. CASE UNCHANGED <<view, records>>
  BY <1>1, <1>2
<1>3. CASE StoreStarts \/ FilesSuffer \/ RecordWrites \/ ClearStarts
  BY <1>2, <1>3 DEF StoreStarts, FilesSuffer, RecordWrites, ClearStarts, viewVars
<1>4. CASE Recorded \/ Cleared \/ RecordedAlready
  BY <1>2, <1>4 DEF Recorded, Cleared, RecordedAlready, AnswerPage
<1>5. CASE Subscribe \/ Listed \/ (\E c \in Calls : Load(c)) \/ Got
  BY <1>2, <1>5 DEF Subscribe, Listed, Load, Got
<1>6. CASE ProcessDies
  BY <1>6 DEF ProcessDies, Loading
<1>7. CASE ListFails
  BY <1>1, <1>7 DEF ListFails, ViewInv, ViewTypeOK
<1>8. ASSUME NEW p \in answers, Apply(p) PROVE CacheIsListed'
  BY <1>1, <1>8 DEF Apply
<1>9. CASE Loaded
  BY <1>1, <1>9 DEF Loaded, StillListed
<1>10. CASE UNCHANGED allVars
  BY <1>2, <1>10 DEF allVars, viewVars
<1> QED
  BY <1>3, <1>4, <1>5, <1>6, <1>7, <1>8, <1>9, <1>10 DEF ViewNext

\* The invariant of the log and of its view is inductive.
LEMMA ViewInitInv == ViewInit => ViewInv
<1> SUFFICES ASSUME ViewInit PROVE ViewInv
  OBVIOUS
<1>1. IInv
  BY InitInv DEF ViewInit
<1>2. Pages = {} /\ ViewTypeOK /\ CacheIsListed
  BY DEF ViewInit, Pages, Shown, Loading, ViewTypeOK, CacheIsListed
<1>3. NewestIsKnown /\ OnePagePerRevision
  BY <1>2 DEF NewestIsKnown, OnePagePerRevision
<1> QED
  BY <1>1, <1>2, <1>3 DEF ViewInv

LEMMA ViewNextInv == ViewInv /\ [ViewNext]_allVars => ViewInv'
<1> SUFFICES ASSUME ViewInv, [ViewNext]_allVars PROVE ViewInv'
  OBVIOUS
<1>1. IInv'
  BY ViewStepsAreLogSteps, NextInv DEF ViewInv
<1> QED
  BY <1>1, PagesInv, CacheInv DEF ViewInv

\* The invariant holds of the log and the webview together, in every reachable state
\* (ViewInv).
THEOREM ViewInvariance == ViewSpec => []ViewInv
BY ViewInitInv, ViewNextInv, PTL DEF ViewSpec

\* What the webview shows is one page that core held, never an older one once all answers
\* are in, whatever order they came in, for every HISTORY_CAP and number of calls
\* (store.ts apply and load).
THEOREM ViewShowsTheLog == ViewSpec => []ViewIsCurrent
<1>1. ASSUME ViewInv, view.phase = "ready"
      PROVE  view.revision <= revision /\ (answers = {} => view.revision = revision /\ view.rows = rows)
  <2> DEFINE p == [revision |-> view.revision, rows |-> view.rows]
  <2>1. Shown = {p} /\ p \in Pages
    BY <1>1 DEF Shown, Pages
  <2>2. p.revision <= revision
    BY <1>1, <2>1 DEF ViewInv, NewestIsKnown
  <2>3. ASSUME answers = {} PROVE p.revision = revision /\ p.rows = rows
    <3>1. Pages = {p}
      BY <2>1, <2>3 DEF Pages
    <3>2. p.revision = revision
      BY <1>1, <3>1 DEF ViewInv, NewestIsKnown
    <3>3. p.rows = Current.rows
      BY <1>1, <3>1, <3>2 DEF ViewInv, OnePagePerRevision, Current
    <3> QED
      BY <3>2, <3>3 DEF Current
  <2> QED
    BY <2>2, <2>3
<1>2. ViewInv => ViewIsCurrent
  BY <1>1 DEF ViewInv, IInv, ViewIsCurrent, PageIsCurrent
<1> QED
  BY <1>2, ViewInvariance, PTL

\* With the webview over it, the log still lists after a restart exactly the page that was
\* shown, and an append is done once its body is on disk.
THEOREM ViewedLogSurvives == ViewSpec => [](PageSurvivesRestart /\ AppendIsAtomic)
<1>1. ViewInv => PageSurvivesRestart /\ AppendIsAtomic
  BY DEF ViewInv, IInv
<1> QED
  BY <1>1, ViewInvariance, PTL

\* ... and implements the log a user is promised.
THEOREM ViewedLogRefines == ViewSpec => ImplementsLog
<1>1. ViewInit => Init
  BY DEF ViewInit
<1> QED
  BY <1>1, ViewStepsAreLogSteps, Refinement, PTL DEF ViewSpec, Spec
====
