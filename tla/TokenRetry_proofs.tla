-------------------------- MODULE TokenRetry_proofs --------------------------
(***************************************************************************)
(* Theorems about TokenRetry, for any calls, configurations and number of  *)
(* tokens: the inductive invariant, one lemma for each of its conjuncts,   *)
(* and the promises that follow from it.                                   *)
(***************************************************************************)
EXTENDS TokenRetry, TLAPS

ConfigStep == \E k \in Configs : Age(k) \/ Invalidate(k)

LEMMA NextCases ==
  ASSUME [Next]_vars
  PROVE  (\E c \in Calls : CallStep(c)) \/ ConfigStep \/ UNCHANGED vars
  BY DEF Next, ConfigStep

LEMMA InitInv == Init => IInv
  <1> SUFFICES ASSUME Init PROVE IInv
    OBVIOUS
  <1> USE NoConfigAssumption, MaxTokensAssumption
  <1>1. TypeOK
    BY DEF Init, TypeOK, NoToken, Tokens, Kinds
  <1>2. TokensAreKnown /\ OnItsWay /\ OneConfig
    BY DEF Init, TokensAreKnown, OnItsWay, OneConfig, Known, NoToken
  <1>3. HeaderInHand /\ NotActedYet /\ RefusedIsForgotten /\ RetryIsFresh
    BY DEF Init, HeaderInHand, NotActedYet, RefusedIsForgotten, RetryIsFresh, NoToken
  <1>4. QED BY <1>1, <1>2, <1>3 DEF IInv

LEMMA TypeStep == IInv /\ [Next]_vars => TypeOK'
  <1> SUFFICES ASSUME IInv, [Next]_vars PROVE TypeOK'
    OBVIOUS
  <1> USE NoConfigAssumption, MaxTokensAssumption DEF TypeOK, NoToken, Tokens, Kinds
  <1>0. TypeOK /\ HeaderInHand
    BY DEF IInv
  <1>1. ASSUME NEW c \in Calls, CallStep(c) PROVE TypeOK'
    <2>1. CASE Begin(c)
      BY <1>0, <2>1 DEF Begin, Goto
    <2>2. CASE Lookup(c)
      <3>1. cfg[c] \in Configs
        BY <1>0, <2>2 DEF Lookup, HeaderInHand
      <3>2. GetFresh(cfg[c]) \in 0 .. MaxTokens
        BY <1>0, <3>1 DEF GetFresh
      <3>3. WithHeader(c) \in {"over", "ready", "sent"}
        BY DEF WithHeader
      <3>4. QED BY <1>0, <2>2, <3>2, <3>3 DEF Lookup, Goto
    <2>3. CASE Issue(c)
      BY <1>0, <2>3 DEF Issue, Goto
    <2>4. CASE FetchFails(c) \/ TransportFails(c) \/ Drop(c) \/ Attempt(c)
      <3>1. pc' \in {[pc EXCEPT ![c] = "over"], [pc EXCEPT ![c] = "sent"]}
        BY <2>4 DEF FetchFails, TransportFails, Drop, Attempt, Goto
      <3>2. UNCHANGED <<cache, aged, issued, kind, cfg, token, round, verdict, refused, acted>>
        BY <2>4 DEF FetchFails, TransportFails, Drop, Attempt
      <3>3. QED BY <1>0, <3>1, <3>2
    <2>5. CASE Store(c)
      <3>1. WithHeader(c) \in {"over", "ready", "sent"}
        BY DEF WithHeader
      <3>2. QED BY <1>0, <2>5, <3>1 DEF Store, Goto
    <2>6. CASE Serve(c)
      BY <1>0, <2>6 DEF Serve, Goto
    <2>7. CASE Settle(c)
      <3>1. cache' \in [Configs -> Tokens \cup {NoToken}]
        BY <1>0, <2>7 DEF Settle, Forget
      <3>2. refused' \in [Calls -> SUBSET Tokens]
        <4>1. CASE Rejected(c)
          <5>1. token[c] \in Tokens
            BY <1>0, <2>7, <4>1 DEF Settle, Rejected, HeaderInHand
          <5>2. QED BY <1>0, <2>7, <4>1, <5>1 DEF Settle
        <4>2. CASE ~Rejected(c)
          BY <1>0, <2>7, <4>2 DEF Settle
        <4>3. QED BY <4>1, <4>2
      <3>3. QED BY <1>0, <2>7, <3>1, <3>2 DEF Settle, Goto
    <2>8. QED BY <1>1, <2>1, <2>2, <2>3, <2>4, <2>5, <2>6, <2>7 DEF CallStep
  <1>2. CASE ConfigStep
    <2>1. PICK k \in Configs : Age(k) \/ Invalidate(k)
      BY <1>2 DEF ConfigStep
    <2>2. UNCHANGED callVars /\ issued' = issued
      BY <2>1 DEF Age, Invalidate
    <2>3. cache' \in {cache, [cache EXCEPT ![k] = NoToken]} /\ aged' \in {aged, aged \cup {cache[k]}}
      BY <2>1 DEF Age, Invalidate
    <2>4. cache[k] \in Tokens \/ aged' = aged
      BY <1>0, <2>1 DEF Age, Invalidate
    <2>5. cache' \in [Configs -> Tokens \cup {NoToken}] /\ aged' \subseteq Tokens
      BY <1>0, <2>3, <2>4
    <2>6. QED BY <1>0, <2>2, <2>5 DEF callVars
  <1>3. CASE UNCHANGED vars
    BY <1>0, <1>3 DEF vars, callVars
  <1>4. QED BY <1>1, <1>2, <1>3, NextCases

-----------------------------------------------------------------------------
(* The tokens. *)

LEMMA KnownStep == IInv /\ [Next]_vars => TokensAreKnown'
  <1> SUFFICES ASSUME IInv, [Next]_vars PROVE TokensAreKnown'
    OBVIOUS
  <1> USE NoConfigAssumption, MaxTokensAssumption DEF TokensAreKnown, Known, NoToken
  <1>0. TypeOK /\ TokensAreKnown /\ HeaderInHand
    BY DEF IInv
  <1>a. issued \in Nat /\ issued' \in Nat
    BY <1>0, TypeStep DEF TypeOK
  <1>1. ASSUME NEW c \in Calls, CallStep(c) PROVE TokensAreKnown'
    <2>1. CASE Begin(c) \/ FetchFails(c) \/ TransportFails(c) \/ Drop(c) \/ Attempt(c) \/ Serve(c)
      BY <1>0, <2>1 DEF Begin, FetchFails, TransportFails, Drop, Attempt, Serve
    <2>2. CASE Lookup(c)
      <3>1. cfg[c] \in Configs
        BY <1>0, <2>2 DEF Lookup, HeaderInHand, TypeOK
      <3>2. GetFresh(cfg[c]) \in 0 .. issued
        BY <1>0, <1>a, <3>1 DEF GetFresh
      <3>3. QED BY <1>0, <2>2, <3>2 DEF Lookup, TypeOK
    <2>3. CASE Issue(c)
      <3>1. 0 .. issued \subseteq 0 .. issued' /\ issued' \in (0 .. issued') \ {0}
        BY <1>a, <2>3 DEF Issue
      <3>2. QED BY <1>0, <2>3, <3>1 DEF Issue, TypeOK
    <2>4. CASE Store(c)
      BY <1>0, <2>4 DEF Store, TypeOK
    <2>5. CASE Settle(c)
      <3>1. \A k \in Configs : cache'[k] \in 0 .. issued
        BY <1>0, <1>a, <2>5 DEF Settle, Forget, TypeOK
      <3>2. \A d \in Calls : refused'[d] \subseteq (0 .. issued) \ {0}
        <4>1. CASE Rejected(c)
          <5>1. token[c] \in (0 .. issued) \ {0}
            BY <1>0, <2>5, <4>1 DEF Settle, Rejected, HeaderInHand
          <5>2. QED BY <1>0, <2>5, <4>1, <5>1 DEF Settle, TypeOK
        <4>2. CASE ~Rejected(c)
          BY <1>0, <2>5, <4>2 DEF Settle
        <4>3. QED BY <4>1, <4>2
      <3>3. QED BY <1>0, <2>5, <3>1, <3>2 DEF Settle
    <2>6. QED BY <1>1, <2>1, <2>2, <2>3, <2>4, <2>5 DEF CallStep
  <1>2. CASE ConfigStep
    BY <1>0, <1>a, <1>2 DEF ConfigStep, Age, Invalidate, callVars, TypeOK
  <1>3. CASE UNCHANGED vars
    BY <1>0, <1>3 DEF vars, callVars
  <1>4. QED BY <1>1, <1>2, <1>3, NextCases

LEMMA OnItsWayStep == IInv /\ [Next]_vars => OnItsWay'
  <1> SUFFICES ASSUME IInv, [Next]_vars, NEW e \in Calls, pc'[e] = "issued"
               PROVE  /\ \A k \in Configs : cache'[k] # token'[e]
                      /\ \A d \in Calls : /\ token'[e] \notin refused'[d]
                                          /\ d # e => token'[d] # token'[e]
    BY DEF OnItsWay
  <1> USE NoConfigAssumption, MaxTokensAssumption DEF NoToken
  <1>0. TypeOK /\ TokensAreKnown /\ HeaderInHand /\ OnItsWay
    BY DEF IInv
  <1>a. issued \in Nat
    BY <1>0 DEF TypeOK
  <1>1. ASSUME NEW c \in Calls, CallStep(c)
        PROVE  /\ \A k \in Configs : cache'[k] # token'[e]
               /\ \A d \in Calls : /\ token'[e] \notin refused'[d]
                                   /\ d # e => token'[d] # token'[e]
    <2>1. CASE Begin(c) \/ FetchFails(c) \/ TransportFails(c) \/ Drop(c) \/ Attempt(c) \/ Serve(c)
      BY <1>0, <2>1 DEF Begin, FetchFails, TransportFails, Drop, Attempt, Serve, Goto, TypeOK, OnItsWay
    <2>2. CASE Lookup(c)
      <3>1. cfg[c] \in Configs /\ pc'[c] # "issued" /\ e # c /\ pc[e] = "issued"
        BY <1>0, <2>2 DEF Lookup, HeaderInHand, TypeOK, Goto, WithHeader
      <3>2. token'[c] \in {0, cache[cfg[c]]}
        BY <1>0, <2>2 DEF Lookup, GetFresh, TypeOK
      <3>3. token[e] # 0 \/ cfg[e] = NoConfig
        BY <1>0, <3>1 DEF HeaderInHand
      <3>4. token[e] # 0
        BY <1>0, <3>1, <3>3 DEF HeaderInHand
      <3>5. QED BY <1>0, <2>2, <3>1, <3>2, <3>4 DEF Lookup, OnItsWay, TypeOK
    <2>3. CASE Issue(c)
      <3>1. CASE e = c
        BY <1>0, <1>a, <2>3, <3>1 DEF Issue, TokensAreKnown, Known, TypeOK
      <3>2. CASE e # c
        <4>1. pc[e] = "issued" /\ token'[e] = token[e] /\ token[e] \in 0 .. issued
          BY <1>0, <2>3, <3>2 DEF Issue, Goto, TypeOK, TokensAreKnown, Known
        <4>2. token'[c] = issued + 1 /\ token'[c] # token[e]
          BY <1>0, <1>a, <2>3, <4>1 DEF Issue, TypeOK
        <4>3. QED BY <1>0, <2>3, <4>1, <4>2 DEF Issue, OnItsWay, TypeOK
      <3>3. QED BY <3>1, <3>2
    <2>4. CASE Store(c)
      <3>1. e # c /\ pc[e] = "issued"
        BY <1>0, <2>4 DEF Store, Goto, WithHeader, TypeOK
      <3>2. QED BY <1>0, <2>4, <3>1 DEF Store, OnItsWay, TypeOK
    <2>5. CASE Settle(c)
      <3>1. e # c /\ pc[e] = "issued" /\ token[e] # 0
        BY <1>0, <2>5 DEF Settle, Goto, HeaderInHand, TypeOK
      <3>2. \A k \in Configs : cache'[k] \in {cache[k], 0}
        BY <1>0, <2>5 DEF Settle, Forget, TypeOK
      <3>3. \A d \in Calls : refused'[d] \subseteq refused[d] \cup {token[c]}
        BY <1>0, <2>5 DEF Settle, TypeOK
      <3>4. QED BY <1>0, <2>5, <3>1, <3>2, <3>3 DEF Settle, OnItsWay
    <2>6. QED BY <1>1, <2>1, <2>2, <2>3, <2>4, <2>5 DEF CallStep
  <1>2. CASE ConfigStep
    <2>1. token[e] # 0
      BY <1>0, <1>2 DEF ConfigStep, Age, Invalidate, callVars, HeaderInHand
    <2>2. QED BY <1>0, <1>2, <2>1 DEF ConfigStep, Age, Invalidate, callVars, OnItsWay, TypeOK
  <1>3. CASE UNCHANGED vars
    BY <1>0, <1>3 DEF vars, callVars, OnItsWay
  <1>4. QED BY <1>1, <1>2, <1>3, NextCases

LEMMA OneConfigStep == IInv /\ [Next]_vars => OneConfig'
  <1> SUFFICES ASSUME IInv, [Next]_vars PROVE OneConfig'
    OBVIOUS
  <1> USE NoConfigAssumption, MaxTokensAssumption DEF NoToken
  <1>0. TypeOK /\ TokensAreKnown /\ HeaderInHand /\ OnItsWay /\ OneConfig
    BY DEF IInv
  <1>a. issued \in Nat
    BY <1>0 DEF TypeOK
  <1>1. ASSUME NEW c \in Calls, CallStep(c) PROVE OneConfig'
    <2>1. CASE Begin(c)
      <3>1. token[c] = 0
        BY <1>0, <2>1 DEF Begin, HeaderInHand
      <3>2. QED BY <1>0, <2>1, <3>1 DEF Begin, OneConfig, TypeOK
    <2>2. CASE FetchFails(c) \/ TransportFails(c) \/ Drop(c) \/ Attempt(c) \/ Serve(c)
      BY <1>0, <2>2 DEF FetchFails, TransportFails, Drop, Attempt, Serve, OneConfig
    <2>3. CASE Lookup(c)
      <3>1. cfg[c] \in Configs /\ token'[c] \in {0, cache[cfg[c]]}
        BY <1>0, <2>3 DEF Lookup, GetFresh, HeaderInHand, TypeOK
      <3>2. QED BY <1>0, <2>3, <3>1 DEF Lookup, OneConfig, TypeOK
    <2>4. CASE Issue(c)
      <3>1. token'[c] = issued + 1
        BY <1>0, <2>4 DEF Issue, TypeOK
      <3>2. \A k \in Configs : cache[k] # issued + 1
        BY <1>0, <1>a DEF TokensAreKnown, Known
      <3>3. \A d \in Calls : token[d] # issued + 1
        BY <1>0, <1>a DEF TokensAreKnown, Known
      <3>4. QED BY <1>0, <2>4, <3>1, <3>2, <3>3 DEF Issue, OneConfig, TypeOK
    <2>5. CASE Store(c)
      BY <1>0, <2>5 DEF Store, OneConfig, OnItsWay, TypeOK
    <2>6. CASE Settle(c)
      <3>1. \A k \in Configs : cache'[k] \in {cache[k], 0}
        BY <1>0, <2>6 DEF Settle, Forget, TypeOK
      <3>2. QED BY <1>0, <2>6, <3>1 DEF Settle, OneConfig
    <2>7. QED BY <1>1, <2>1, <2>2, <2>3, <2>4, <2>5, <2>6 DEF CallStep
  <1>2. CASE ConfigStep
    BY <1>0, <1>2 DEF ConfigStep, Age, Invalidate, callVars, OneConfig, TypeOK
  <1>3. CASE UNCHANGED vars
    BY <1>0, <1>3 DEF vars, callVars, OneConfig
  <1>4. QED BY <1>1, <1>2, <1>3, NextCases

-----------------------------------------------------------------------------
(* The calls. *)

LEMMA HeaderStep == IInv /\ [Next]_vars => HeaderInHand'
  <1> SUFFICES ASSUME IInv, [Next]_vars PROVE HeaderInHand'
    OBVIOUS
  <1> USE NoConfigAssumption, MaxTokensAssumption DEF NoToken, HeaderInHand
  <1>0. TypeOK /\ HeaderInHand
    BY DEF IInv
  <1>a. issued + 1 # 0
    BY <1>0 DEF TypeOK
  <1>1. ASSUME NEW c \in Calls, CallStep(c) PROVE HeaderInHand'
    <2>1. CASE Begin(c) \/ FetchFails(c) \/ TransportFails(c) \/ Drop(c) \/ Attempt(c) \/ Serve(c)
      BY <1>0, <2>1 DEF Begin, FetchFails, TransportFails, Drop, Attempt, Serve, Goto, TypeOK
    <2>2. CASE Lookup(c)
      BY <1>0, <2>2 DEF Lookup, WithHeader, Goto, TypeOK
    <2>3. CASE Issue(c)
      BY <1>0, <1>a, <2>3 DEF Issue, Goto, TypeOK
    <2>4. CASE Store(c)
      BY <1>0, <2>4 DEF Store, WithHeader, Goto, TypeOK
    <2>5. CASE Settle(c)
      BY <1>0, <2>5 DEF Settle, Rejected, Goto, TypeOK
    <2>6. QED BY <1>1, <2>1, <2>2, <2>3, <2>4, <2>5 DEF CallStep
  <1>2. CASE ConfigStep
    BY <1>0, <1>2 DEF ConfigStep, Age, Invalidate, callVars
  <1>3. CASE UNCHANGED vars
    BY <1>0, <1>3 DEF vars, callVars
  <1>4. QED BY <1>1, <1>2, <1>3, NextCases

LEMMA ActedStep == IInv /\ [Next]_vars => NotActedYet'
  <1> SUFFICES ASSUME IInv, [Next]_vars PROVE NotActedYet'
    OBVIOUS
  <1> USE DEF NotActedYet
  <1>0. TypeOK /\ NotActedYet
    BY DEF IInv
  <1>1. ASSUME NEW c \in Calls, CallStep(c) PROVE NotActedYet'
    <2>1. CASE Begin(c) \/ FetchFails(c) \/ TransportFails(c) \/ Drop(c) \/ Attempt(c)
      BY <1>0, <2>1 DEF Begin, FetchFails, TransportFails, Drop, Attempt, Goto, TypeOK
    <2>2. CASE Lookup(c) \/ Issue(c) \/ Store(c)
      BY <1>0, <2>2 DEF Lookup, Issue, Store, WithHeader, Goto, TypeOK
    <2>3. CASE Serve(c)
      BY <1>0, <2>3 DEF Serve, Goto, TypeOK
    <2>4. CASE Settle(c)
      BY <1>0, <2>4 DEF Settle, Rejected, Goto, TypeOK
    <2>5. QED BY <1>1, <2>1, <2>2, <2>3, <2>4 DEF CallStep
  <1>2. CASE ConfigStep
    BY <1>0, <1>2 DEF ConfigStep, Age, Invalidate, callVars
  <1>3. CASE UNCHANGED vars
    BY <1>0, <1>3 DEF vars, callVars
  <1>4. QED BY <1>1, <1>2, <1>3, NextCases

\* The token a rejected call drops is in no other configuration's entry, and
\* the one a fetch stores nobody has seen rejected.
LEMMA ForgottenStep == IInv /\ [Next]_vars => RefusedIsForgotten'
  <1> SUFFICES ASSUME IInv, [Next]_vars, NEW d \in Calls, NEW k \in Configs
               PROVE  cache'[k] \notin refused'[d]
    BY DEF RefusedIsForgotten
  <1> USE NoConfigAssumption DEF NoToken
  <1>0. TypeOK /\ TokensAreKnown /\ OnItsWay /\ OneConfig /\ HeaderInHand /\ RefusedIsForgotten
    BY DEF IInv
  <1>a. cache[k] \notin refused[d] /\ 0 \notin refused[d]
    BY <1>0 DEF RefusedIsForgotten, TokensAreKnown
  <1>1. ASSUME NEW c \in Calls, CallStep(c) PROVE cache'[k] \notin refused'[d]
    <2>1. CASE Begin(c) \/ FetchFails(c) \/ TransportFails(c) \/ Drop(c) \/ Attempt(c) \/ Serve(c)
      BY <1>a, <2>1 DEF Begin, FetchFails, TransportFails, Drop, Attempt, Serve
    <2>2. CASE Lookup(c) \/ Issue(c)
      BY <1>a, <2>2 DEF Lookup, Issue
    <2>3. CASE Store(c)
      BY <1>0, <1>a, <2>3 DEF Store, OnItsWay, TypeOK
    <2>4. CASE Settle(c)
      <3>1. CASE Rejected(c)
        <4>1. cfg[c] \in Configs /\ token[c] # 0
          BY <1>0, <2>4, <3>1 DEF Settle, Rejected, HeaderInHand, TypeOK
        <4>2. cache'[k] = 0 \/ (cache'[k] = cache[k] /\ k # cfg[c])
          BY <1>0, <2>4, <3>1 DEF Settle, Forget, TypeOK
        <4>3. cache[k] = token[c] => k = cfg[c]
          BY <1>0, <4>1 DEF OneConfig
        <4>4. refused'[d] \subseteq refused[d] \cup {token[c]}
          BY <1>0, <2>4, <3>1 DEF Settle, TypeOK
        <4>5. QED BY <1>a, <4>1, <4>2, <4>3, <4>4
      <3>2. CASE ~Rejected(c)
        BY <1>a, <2>4, <3>2 DEF Settle, Forget
      <3>3. QED BY <3>1, <3>2
    <2>5. QED BY <1>1, <2>1, <2>2, <2>3, <2>4 DEF CallStep
  <1>2. CASE ConfigStep
    BY <1>0, <1>a, <1>2 DEF ConfigStep, Age, Invalidate, callVars, TypeOK
  <1>3. CASE UNCHANGED vars
    BY <1>a, <1>3 DEF vars, callVars
  <1>4. QED BY <1>1, <1>2, <1>3, NextCases

LEMMA RetryStep == IInv /\ [Next]_vars => RetryIsFresh'
  <1> SUFFICES ASSUME IInv, [Next]_vars, NEW d \in Calls, round'[d] = 2, pc'[d] = "sent"
               PROVE  token'[d] \notin refused'[d]
    BY DEF RetryIsFresh
  <1> USE NoConfigAssumption DEF NoToken
  <1>0. /\ TypeOK /\ TokensAreKnown /\ OnItsWay /\ HeaderInHand /\ RefusedIsForgotten
        /\ RetryIsFresh
    BY DEF IInv
  <1>1. ASSUME NEW c \in Calls, CallStep(c) PROVE token'[d] \notin refused'[d]
    <2>1. CASE Begin(c) \/ FetchFails(c) \/ TransportFails(c) \/ Drop(c) \/ Serve(c)
      BY <1>0, <2>1 DEF Begin, FetchFails, TransportFails, Drop, Serve, Goto, TypeOK, RetryIsFresh
    <2>2. CASE Attempt(c)
      BY <1>0, <2>2 DEF Attempt, Goto, TypeOK, RetryIsFresh, HeaderInHand
    <2>3. CASE Lookup(c)
      <3>1. cfg[c] \in Configs
        BY <1>0, <2>3 DEF Lookup, HeaderInHand, TypeOK
      <3>2. token'[c] \in {0, cache[cfg[c]]}
        BY <1>0, <2>3 DEF Lookup, GetFresh, TypeOK
      <3>3. token'[c] \notin refused[c]
        BY <1>0, <3>1, <3>2 DEF TokensAreKnown, RefusedIsForgotten
      <3>4. QED BY <1>0, <2>3, <3>3 DEF Lookup, Goto, TypeOK, RetryIsFresh
    <2>4. CASE Issue(c)
      BY <1>0, <2>4 DEF Issue, Goto, TypeOK, RetryIsFresh
    <2>5. CASE Store(c)
      BY <1>0, <2>5 DEF Store, Goto, TypeOK, RetryIsFresh, OnItsWay
    <2>6. CASE Settle(c)
      BY <1>0, <2>6 DEF Settle, Goto, TypeOK, RetryIsFresh
    <2>7. QED BY <1>1, <2>1, <2>2, <2>3, <2>4, <2>5, <2>6 DEF CallStep
  <1>2. CASE ConfigStep
    BY <1>0, <1>2 DEF ConfigStep, Age, Invalidate, callVars, RetryIsFresh
  <1>3. CASE UNCHANGED vars
    BY <1>0, <1>3 DEF vars, callVars, RetryIsFresh
  <1>4. QED BY <1>1, <1>2, <1>3, NextCases

-----------------------------------------------------------------------------
(* The theorems. *)

\* Every reachable state satisfies the inductive invariant, for any number of
\* calls, configurations and tokens.
THEOREM Invariance == Spec => []IInv
  <1>1. IInv /\ [Next]_vars => IInv'
    BY TypeStep, KnownStep, OnItsWayStep, OneConfigStep, HeaderStep, ActedStep, ForgottenStep,
       RetryStep DEF IInv
  <1>2. QED BY InitInv, <1>1, PTL DEF Spec

\* A token some call has seen rejected is in no cache entry, and the one retry
\* of a unary call goes out with a token it was not refused with.
THEOREM Forgotten == Spec => []RefusedStaysRefused
  <1>1. IInv => RefusedStaysRefused
    BY DEF IInv, RefusedStaysRefused
  <1>2. QED BY Invariance, <1>1, PTL

\* No call is carried out twice.
THEOREM AtMostOnce == Spec => []ActedAtMostOnce
  <1>1. IInv => ActedAtMostOnce
    BY DEF IInv, NotActedYet, ActedAtMostOnce
  <1>2. QED BY Invariance, <1>1, PTL
=============================================================================
