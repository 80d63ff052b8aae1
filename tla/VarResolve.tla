----------------------------- MODULE VarResolve -----------------------------
(***************************************************************************)
(* One resolve session (crates/handshaker-core/src/collections/resolve.rs) *)
(* over the substitution of `{{name}}` (vars/mod.rs): every template of a  *)
(* request is substituted pass by pass, at most MAX_PASSES times, against  *)
(* the environment over the collection; what remains is diagnosed, the     *)
(* diagnoses accumulate, and only a session without one settles.           *)
(*                                                                         *)
(* A request is the templates it always sends (the gRPC address and body,  *)
(* or the URL, the pairs and the body of HTTP), its rows, and its auth.    *)
(* A template is the sequence of the names it refers to: the text between  *)
(* them is left out, so a resolved text is <<>> or what is left literal.   *)
(* Names are numbers, ordered as the code orders strings.                  *)
(***************************************************************************)
EXTENDS Naturals, SequencesExt

CONSTANTS
  Names,       \* the names a reference or a variable may have
  Builtins,    \* those of them generated at send time; a variable may have one too
  Scopes,      \* the variables of the two scopes: [env, collection]
  Requests,    \* the requests to resolve
  Auths,       \* the auth a collection may carry
  Envs,        \* names the active environment may have
  MAX_PASSES

Absent == <<0>>
\* ResolveVars: what each name stands for in one scope.
Scope == [Names -> Seq(Names) \cup {Absent}]

ASSUME NamesAssumption ==
  /\ Names \subseteq Nat \ {0} /\ Builtins \subseteq Names
  /\ Scopes \subseteq [env : Scope, collection : Scope]
  /\ MAX_PASSES \in Nat \ {0}

VARIABLES
  env, collection, \* the variables of each scope
  collectionAuth,  \* the collection's auth
  active,          \* the name of the active environment
  asked,           \* the request
  request,         \* its templates not taken yet
  current,         \* the template being substituted, after `passes` passes
  passes,
  converged,       \* a pass changed nothing
  texts,           \* the resolved texts
  unresolved,      \* ResolveAcc: names reported missing, in encounter order
  cycle,           \* ResolveAcc: the first cycle chain
  outcome          \* "open", "settled" or "failed"

scope == <<env, collection, collectionAuth, active, asked>>
vars == <<scope, request, current, passes, converged, texts, unresolved, cycle, outcome>>

\* Either scope has it, whether the name is a built-in's or not.
Defined(n) == env[n] # Absent \/ collection[n] # Absent

\* lookup: env over collection.
Lookup(n) == IF env[n] # Absent THEN env[n] ELSE collection[n]

Flat(seqs) == FoldLeft(LAMBDA s, t : s \o t, <<>>, seqs)

\* substitute_once: each reference to a defined name gives way to its value.
Substituted(t) == Flat([i \in DOMAIN t |-> IF Defined(t[i]) THEN Lookup(t[i]) ELSE <<t[i]>>])
Changes(t) == \E i \in DOMAIN t : Defined(t[i])

\* First appearances, in order.
Distinct(t) ==
  FoldLeft(LAMBDA s, n : IF n \in ToSet(s) THEN s ELSE Append(s, n), <<>>, t)

\* collect_remaining, the names that are no built-in's; a variable of a built-in's name that
\* is still there goes with the built-ins.
Remaining(t) == Distinct(SelectSeq(t, LAMBDA n : n \notin Builtins))

\* dfs: the chain of the first back edge met from the top of the stack, in the
\* order of the references; <<>> when there is none.
RECURSIVE Dfs(_, _)
Dfs(n, stack) ==
  IF n \in ToSet(stack)
  THEN LET start == CHOOSE i \in DOMAIN stack : stack[i] = n
       IN  Append(SubSeq(stack, start, Len(stack)), n)
  ELSE IF ~Defined(n) THEN <<>>
  ELSE LET chains == [i \in DOMAIN Lookup(n) |-> Dfs(Lookup(n)[i], Append(stack, n))]
           found == SelectSeq(chains, LAMBDA c : c # <<>>)
       IN  IF found = <<>> THEN <<>> ELSE Head(found)

\* Mutant: only the first name in order is followed.
BugDetectCycle(seeds) == Dfs(Head(SortSeq(seeds, <)), <<>>)

\* detect_cycle: from the seeds in lexicographic order.
DetectCycle(seeds) ==
  LET chains == SelectSeq([i \in DOMAIN seeds |-> Dfs(SortSeq(seeds, <)[i], <<>>)],
                          LAMBDA c : c # <<>>)
  IN  IF chains = <<>> THEN <<>> ELSE Head(chains)

-----------------------------------------------------------------------------
(* The templates a session takes. *)

NoAuth == [kind |-> "none", environments |-> {}, fields |-> <<>>]

\* auth_active_for_env.
SchemeActive(a) ==
  a.kind \in {"env_var", "oauth2"} /\ (a.environments = {} \/ active \in a.environments)

\* pick_auth_config: request, then collection; an override of None ends it.
Pick(own) ==
  IF SchemeActive(own) THEN own
  ELSE IF own.kind # "none" /\ SchemeActive(collectionAuth) THEN collectionAuth
  ELSE NoAuth

\* rows (enabled, with a key) and oauth_fields.
Sendable(rows) == SelectSeq(rows, LAMBDA row : row.enabled /\ row.keyed)
RowValues(rows) == [i \in DOMAIN rows |-> rows[i].value]
OAuthFields(a) == IF a.kind = "oauth2" THEN a.fields ELSE <<>>

TemplatesOf(r) == r.texts \o RowValues(Sendable(r.rows)) \o OAuthFields(Pick(r.auth))

-----------------------------------------------------------------------------
Init ==
  /\ \E s \in Scopes : env = s.env /\ collection = s.collection
  /\ collectionAuth \in Auths /\ active \in Envs
  /\ asked \in Requests
  /\ request = Tail(TemplatesOf(asked)) /\ current = Head(TemplatesOf(asked))
  /\ passes = 0 /\ converged = FALSE
  /\ texts = <<>> /\ unresolved = <<>> /\ cycle = <<>>
  /\ outcome = "open"

\* One turn of the loop of resolve_template_with_diagnostics.
Pass ==
  /\ outcome = "open" /\ ~converged /\ passes < MAX_PASSES
  /\ current' = Substituted(current)
  /\ converged' = ~Changes(current)
  /\ passes' = passes + 1
  /\ UNCHANGED <<scope, request, texts, unresolved, cycle, outcome>>

\* The chain of a loop that ran out of passes with names left.
CycleOf(t) == IF ~converged /\ Remaining(t) # <<>> THEN DetectCycle(Remaining(t)) ELSE <<>>

\* ResolveAcc::take: a template that cycles reports no missing name.
Taken(found) == [unresolved |-> IF found # <<>> THEN unresolved
                                ELSE Distinct(unresolved \o Remaining(current)),
                 cycle |-> IF cycle = <<>> THEN found ELSE cycle]

\* The report of a template, and on to the next one.
Report ==
  /\ outcome = "open" /\ (converged \/ passes = MAX_PASSES)
  /\ LET acc == Taken(CycleOf(current)) IN
       /\ unresolved' = acc.unresolved /\ cycle' = acc.cycle
       /\ texts' = Append(texts, current)
       /\ passes' = 0 /\ converged' = FALSE
       /\ IF request # <<>>
          THEN /\ current' = Head(request) /\ request' = Tail(request)
               /\ UNCHANGED outcome
          ELSE /\ current' = <<>> /\ UNCHANGED request
               /\ outcome' = IF acc.cycle # <<>> \/ acc.unresolved # <<>> THEN "failed" ELSE "settled"
  /\ UNCHANGED scope

Next == Pass \/ Report

Spec == Init /\ [][Next]_vars

-----------------------------------------------------------------------------
(* The reference: what the templates mean. *)

Refers(n, m) == Defined(n) /\ m \in ToSet(Lookup(n))

\* Names met within k substitutions of a set of names.
Met[k \in Nat, ns \in SUBSET Names] ==
  IF k = 0 THEN ns
  ELSE Met[k - 1, ns \cup {m \in Names : \E n \in ns : Refers(n, m)}]
Reach(ns) == Met[Cardinality(Names), ns]

OnCycle(n) == n \in Reach({m \in Names : Refers(n, m)})
Cyclic(t) == \E n \in Reach(ToSet(t)) : OnCycle(n)
Missing(t) == {n \in Reach(ToSet(t)) \ Builtins : ~Defined(n)}

\* The substitutions a template without cycle needs.
RECURSIVE Depth(_)
Depth(t) == FoldSet(LAMBDA n, d : LET e == IF Defined(n) THEN 1 + Depth(Lookup(n)) ELSE 0
                                  IN  IF e > d THEN e ELSE d, 0, ToSet(t))

\* Its full expansion.
RECURSIVE Expansion(_)
Expansion(t) ==
  Flat([i \in DOMAIN t |-> IF Defined(t[i]) THEN Expansion(Lookup(t[i])) ELSE <<t[i]>>])

\* What the request sends: its texts, its rows that are switched on, and the
\* fields of the OAuth2 scheme in force - its own where that is active, else
\* the collection's unless the request opts out.
Scheme ==
  LET found == SelectSeq(<<asked.auth, collectionAuth>>, SchemeActive)
  IN  IF asked.auth.kind = "none" \/ found = <<>> THEN NoAuth ELSE Head(found)
Templates ==
  ToSet(asked.texts)
    \cup {row.value : row \in {r \in ToSet(asked.rows) : r.enabled /\ r.keyed}}
    \cup (IF Scheme.kind = "oauth2" THEN ToSet(Scheme.fields) ELSE {})

\* The names left after MAX_PASSES substitutions.
Left(t) == ToSet(FoldLeft(LAMBDA u, k : Substituted(u), t, [k \in 1 .. MAX_PASSES |-> k]))

\* A variable of a built-in's name is left, which the code takes for the built-in.
TakenForBuiltin(t) == \E n \in Left(t) \cap Builtins : Defined(n)
Judged == {t \in Templates : ~TakenForBuiltin(t)}

-----------------------------------------------------------------------------
\* A session that settles has expanded every template completely: no variable
\* of either scope is left in what goes on the wire, built-ins are. Where a
\* variable is taken for a built-in, nothing but built-ins' names is left.
SettledIsExpanded ==
  outcome = "settled" =>
    /\ \A t \in Judged : ~Cyclic(t) /\ Expansion(t) \in ToSet(texts)
    /\ \A text \in ToSet(texts) : \/ \E t \in Judged : text = Expansion(t)
                                  \/ Judged # Templates /\ ToSet(text) \subseteq Builtins

\* A chain is reported when some template reaches a cycle, unless a variable in it is taken
\* for a built-in, and it is one: each name refers to the next, the last is the first, and
\* a template gets there.
CycleIsFound ==
  outcome # "open" =>
    /\ (\E t \in Judged : Cyclic(t)) => cycle # <<>>
    /\ cycle # <<>> =>
         /\ Len(cycle) > 1 /\ cycle[1] = cycle[Len(cycle)]
         /\ \A i \in 1 .. Len(cycle) - 1 : Refers(cycle[i], cycle[i + 1])
         /\ \E t \in Templates : cycle[1] \in Reach(ToSet(t))

\* A failed session names everything missing at once: all the absent names of the
\* templates without a cycle, none of which takes more than MAX_PASSES substitutions, and
\* nothing else but what is left where a variable is taken for a built-in.
MissingIsNamed ==
  outcome # "open" =>
    LET plain == {t \in Judged : ~Cyclic(t)}
        named == UNION {Missing(t) : t \in plain}
    IN  (\A t \in plain : Depth(t) <= MAX_PASSES) =>
          /\ named \subseteq ToSet(unresolved)
          /\ ToSet(unresolved) \subseteq
               named \cup UNION {Left(t) \ Builtins : t \in Templates \ Judged}

\* A session that fails says why, completely: the cycle if there is one, and
\* every name that is missing.
FailureIsExplained == CycleIsFound /\ MissingIsNamed

\* The two together, a session's verdict: it settles with everything expanded, or says all
\* that kept it from settling (resolve.rs: Session::settle).
VerdictIsRight == SettledIsExpanded /\ FailureIsExplained

\* What is reported missing is in neither scope ("Variable names referenced
\* but absent from both `env` and `collection`").
ReportedIsAbsent == \A n \in ToSet(unresolved) : ~Defined(n)

\* A variable of a built-in's name is substituted as any other, so that none is left in
\* what is sent ("it never reaches builtin classification", vars/mod.rs:467-468).
UserVariableWins ==
  outcome = "settled" => \A text \in ToSet(texts) : \A n \in ToSet(text) : ~Defined(n)

=============================================================================
