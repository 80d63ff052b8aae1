----------------------------- MODULE TokenRetry -----------------------------
(***************************************************************************)
(* The credential of a call: Oauth2TokenProvider's cache (crates/          *)
(* handshaker-core/src/auth/oauth2.rs) and the spine that spends it        *)
(* (send.rs): materialize a header, attempt, and on a rejected credential  *)
(* drop the cached token, fetch a fresh one and attempt once more.         *)
(*                                                                         *)
(* The cache's lock is never held over a fetch and fetches are not         *)
(* deduplicated, so any number of calls with one configuration fetch,      *)
(* store, spend and drop tokens in any order.  A configuration is the      *)
(* resolved one, which is what CacheKey is made of; the identity provider  *)
(* never issues a token twice.  A cancel or a timeout drops a call's       *)
(* future at whatever it awaits.                                           *)
(***************************************************************************)
EXTENDS Naturals

CONSTANTS
  Calls,     \* invocations of the commands that use the provider
  Configs,   \* resolved OAuth2 configurations
  NoConfig,  \* the pick of a call that carries no OAuth2 header
  MaxTokens  \* bound on the tokens issued

ASSUME NoConfigAssumption == NoConfig \notin Configs
ASSUME MaxTokensAssumption == MaxTokens \in Nat

NoToken == 0
Tokens == 1 .. MaxTokens
\* grpc_send and http_send; stream_open; auth_oauth2_preview and auth_resolve,
\* which only hand the token out.
Kinds == {"unary", "stream", "token"}

VARIABLES
  cache,   \* TokenCache::entries: configuration -> token
  aged,    \* tokens that expire within EXPIRY_SKEW
  issued,  \* how many tokens the identity provider has issued
  kind, cfg,  \* what each call is and the configuration it resolved
  pc,      \* where each call is
  token,   \* the token of its current header, or of the answer to its fetch
  round,   \* the attempt it prepares or has made
  verdict, \* the server's answer to the attempt
  refused, \* history: the tokens the call has seen rejected
  acted    \* history: how often the server carried the call out

callVars == <<kind, cfg, pc, token, round, verdict, refused, acted>>
vars == <<cache, aged, issued, callVars>>

Init ==
  /\ cache = [k \in Configs |-> NoToken]
  /\ aged = {} /\ issued = 0
  /\ kind = [c \in Calls |-> "unary"]
  /\ cfg = [c \in Calls |-> NoConfig]
  /\ pc = [c \in Calls |-> "idle"]
  /\ token = [c \in Calls |-> NoToken]
  /\ round = [c \in Calls |-> 1]
  /\ verdict = [c \in Calls |-> "none"]
  /\ refused = [c \in Calls |-> {}]
  /\ acted = [c \in Calls |-> 0]

Goto(c, p) == pc' = [pc EXCEPT ![c] = p]

-----------------------------------------------------------------------------
(* Materializing the header. *)

\* The command begins.  A template that does not resolve ends the call before
\* any token is looked up; a pick that is not OAuth2 asks the provider nothing;
\* Get token skips the cache (force_fetch), auth_resolve does not.
Begin(c) ==
  /\ pc[c] = "idle"
  /\ \E n \in Kinds, k \in Configs \cup {NoConfig}, p \in {"lookup", "fetching", "ready", "over"} :
       /\ p = "lookup" => k # NoConfig
       /\ p = "fetching" => k # NoConfig /\ n = "token"
       /\ p = "ready" => k = NoConfig /\ n # "token"
       /\ kind' = [kind EXCEPT ![c] = n]
       /\ cfg' = [cfg EXCEPT ![c] = k]
       /\ Goto(c, p)
  /\ UNCHANGED <<cache, aged, issued, token, round, verdict, refused, acted>>

\* Where a call goes with its header: a second attempt has its connection.
WithHeader(c) ==
  IF kind[c] = "token" THEN "over" ELSE IF round[c] = 1 THEN "ready" ELSE "sent"

\* TokenCache::get_fresh.
GetFresh(k) == IF cache[k] \in aged THEN NoToken ELSE cache[k]

\* header_for, the part under the lock: a fresh cached token, or a fetch.
Lookup(c) ==
  /\ pc[c] = "lookup"
  /\ LET hit == GetFresh(cfg[c]) IN
       /\ token' = [token EXCEPT ![c] = hit]
       /\ Goto(c, IF hit = NoToken THEN "fetching" ELSE WithHeader(c))
  /\ UNCHANGED <<cache, aged, issued, kind, cfg, round, verdict, refused, acted>>

\* The identity provider answers fetch_token with a new token ...
Issue(c) ==
  /\ pc[c] = "fetching" /\ issued < MaxTokens
  /\ issued' = issued + 1
  /\ token' = [token EXCEPT ![c] = issued']
  /\ Goto(c, "issued")
  /\ UNCHANGED <<cache, aged, kind, cfg, round, verdict, refused, acted>>

\* ... or fails it: transport, a non-2xx status, a body without a token.
FetchFails(c) ==
  /\ pc[c] \in {"fetching", "issued"}
  /\ Goto(c, "over")
  /\ UNCHANGED <<cache, aged, issued, kind, cfg, token, round, verdict, refused, acted>>

\* The answer arrives: it is stored before it is used, over whatever another
\* fetch has stored meanwhile.
Store(c) ==
  /\ pc[c] = "issued"
  /\ cache' = [cache EXCEPT ![cfg[c]] = token[c]]
  /\ Goto(c, WithHeader(c))
  /\ UNCHANGED <<aged, issued, kind, cfg, token, round, verdict, refused, acted>>

-----------------------------------------------------------------------------
(* Spending it. *)

\* prepare: activate, the kind gate and the encoding of the body may fail.
Attempt(c) ==
  /\ pc[c] = "ready"
  /\ \E p \in {"sent", "over"} : Goto(c, p)
  /\ UNCHANGED <<cache, aged, issued, kind, cfg, token, round, verdict, refused, acted>>

\* The server refuses the credential before it acts, or carries the call out
\* and answers with a status (OK or not).
Serve(c) ==
  /\ pc[c] = "sent"
  /\ \E v \in {"rejected", "status"} :
       /\ verdict' = [verdict EXCEPT ![c] = v]
       /\ acted' = IF v = "status" THEN [acted EXCEPT ![c] = @ + 1] ELSE acted
  /\ Goto(c, "served")
  /\ UNCHANGED <<cache, aged, issued, kind, cfg, token, round, refused>>

\* A transport error: the server may or may not have acted.
TransportFails(c) ==
  /\ pc[c] \in {"sent", "served"}
  /\ Goto(c, "over")
  /\ UNCHANGED <<cache, aged, issued, kind, cfg, token, round, verdict, refused, acted>>

\* Mutant: any answer but OK counts as a rejected credential.
BugRejected(c) == verdict[c] \in {"rejected", "status"} /\ cfg[c] # NoConfig

\* gRPC status 16 or HTTP 401, of a call whose header came from a token.
Rejected(c) == verdict[c] = "rejected" /\ cfg[c] # NoConfig

\* Mutant: the token is dropped only when the retry is rejected too.
BugForgetLate(c) == IF Rejected(c) /\ round[c] = 2 THEN [cache EXCEPT ![cfg[c]] = NoToken] ELSE cache

\* invalidate_on_rejection.
Forget(c) == IF Rejected(c) THEN [cache EXCEPT ![cfg[c]] = NoToken] ELSE cache

\* The answer is read.  retry_unauthenticated: a first rejection of a unary
\* call goes back for a header; a second one, and a stream's, is the result.
Settle(c) ==
  /\ pc[c] = "served"
  /\ cache' = Forget(c)
  /\ refused' = IF Rejected(c) THEN [refused EXCEPT ![c] = @ \cup {token[c]}] ELSE refused
  /\ IF Rejected(c) /\ kind[c] = "unary" /\ round[c] = 1
     THEN Goto(c, "lookup") /\ round' = [round EXCEPT ![c] = 2]
     ELSE Goto(c, "over") /\ UNCHANGED round
  /\ UNCHANGED <<aged, issued, kind, cfg, token, verdict, acted>>

\* grpc_cancel, or the timeout of a unary command, drops the future.
Drop(c) ==
  /\ pc[c] \in {"fetching", "issued", "ready", "sent", "served"} /\ kind[c] # "token"
  /\ Goto(c, "over")
  /\ UNCHANGED <<cache, aged, issued, kind, cfg, token, round, verdict, refused, acted>>

-----------------------------------------------------------------------------
\* Time brings a cached token within the skew of its expiry: at once when its
\* lifetime is short.
Age(k) ==
  /\ cache[k] \notin aged \cup {NoToken}
  /\ aged' = aged \cup {cache[k]}
  /\ UNCHANGED <<cache, issued, callVars>>

\* auth_invalidate.
Invalidate(k) ==
  /\ cache[k] # NoToken
  /\ cache' = [cache EXCEPT ![k] = NoToken]
  /\ UNCHANGED <<aged, issued, callVars>>

CallStep(c) ==
  \/ Begin(c) \/ Lookup(c) \/ Issue(c) \/ FetchFails(c) \/ Store(c)
  \/ Attempt(c) \/ Serve(c) \/ TransportFails(c) \/ Settle(c) \/ Drop(c)

Next == (\E c \in Calls : CallStep(c)) \/ (\E k \in Configs : Age(k) \/ Invalidate(k))

Spec == Init /\ [][Next]_vars

-----------------------------------------------------------------------------
(* What the spine promises. *)

TypeOK ==
  /\ cache \in [Configs -> Tokens \cup {NoToken}]
  /\ aged \subseteq Tokens /\ issued \in 0 .. MaxTokens
  /\ kind \in [Calls -> Kinds]
  /\ cfg \in [Calls -> Configs \cup {NoConfig}]
  /\ pc \in [Calls -> {"idle", "lookup", "fetching", "issued", "ready", "sent", "served", "over"}]
  /\ token \in [Calls -> Tokens \cup {NoToken}]
  /\ round \in [Calls -> {1, 2}]
  /\ verdict \in [Calls -> {"none", "rejected", "status"}]
  /\ refused \in [Calls -> SUBSET Tokens]
  /\ acted \in [Calls -> Nat]

\* A token a call has seen rejected is not served again: not to its retry, not
\* to another call, whatever fetches and drops under the same configuration
\* overlap (invalidate_on_rejection with Oauth2TokenProvider::store).
RefusedIsForgotten == \A c \in Calls, k \in Configs : cache[k] \notin refused[c]

\* A repeated attempt never carries a token the call was refused with, wherever
\* its header came from: a fetch of its own or what another call has stored.
RetryIsFresh == \A c \in Calls : round[c] = 2 /\ pc[c] = "sent" => token[c] \notin refused[c]

\* A token a call was refused with is never spent again: neither by its own
\* retry, nor, out of the cache, by another call.
RefusedStaysRefused == RefusedIsForgotten /\ RetryIsFresh

\* The server carries a call out at most once: a request is repeated only when
\* the server refused it before acting ("replaying any method is safe").
ActedAtMostOnce == \A c \in Calls : acted[c] <= 1

\* A rejected call drops the token its header was made of, and no newer one
\* ("Drop the cached token behind this call's header").
DropsItsOwnToken ==
  \A c \in Calls : pc[c] = "served" /\ Rejected(c) => cache[cfg[c]] \in {NoToken, token[c]}

-----------------------------------------------------------------------------
(* Why it holds: the inductive invariant. *)

Known == 0 .. issued

TokensAreKnown ==
  /\ \A k \in Configs : cache[k] \in Known
  /\ \A c \in Calls : token[c] \in Known /\ refused[c] \subseteq Known \ {NoToken}

\* The token on its way to a call is nowhere else.
OnItsWay ==
  \A c \in Calls : pc[c] = "issued" =>
    /\ \A k \in Configs : cache[k] # token[c]
    /\ \A d \in Calls : token[c] \notin refused[d] /\ (d # c => token[d] # token[c])

\* A token belongs to one configuration.
OneConfig ==
  /\ \A c \in Calls, k \in Configs : cache[k] = token[c] /\ token[c] # NoToken => k = cfg[c]
  /\ \A c, d \in Calls : token[c] = token[d] /\ token[c] # NoToken => cfg[c] = cfg[d]
  /\ \A k, l \in Configs : cache[k] = cache[l] /\ cache[k] # NoToken => k = l

HeaderInHand ==
  \A c \in Calls :
    /\ pc[c] = "idle" => token[c] = NoToken
    /\ pc[c] \in {"idle", "ready"} => round[c] = 1
    /\ pc[c] \in {"lookup", "fetching", "issued"} => cfg[c] # NoConfig
    /\ pc[c] \in {"issued", "ready", "sent", "served"} /\ cfg[c] # NoConfig => token[c] # NoToken

\* Whoever may still attempt has not been served.
NotActedYet ==
  \A c \in Calls :
    /\ acted[c] <= 1
    /\ pc[c] \notin {"served", "over"} => acted[c] = 0
    /\ pc[c] = "served" /\ verdict[c] = "rejected" => acted[c] = 0

\* The inductive invariant: what the promises above rest on, in every state.
IInv ==
  /\ TypeOK /\ TokensAreKnown /\ OnItsWay /\ OneConfig /\ HeaderInHand /\ NotActedYet
  /\ RefusedIsForgotten /\ RetryIsFresh

=============================================================================
