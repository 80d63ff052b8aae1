---------------------------- MODULE MCVarResolve ----------------------------
(* VarResolve for TLC: three names and one built-in, values of at most two    *)
(* references, and two passes, so that a chain of three is one too long.  A    *)
(* second family defines a variable of the built-in's name, with values of at  *)
(* most one reference.                                                         *)
EXTENDS VarResolve

MCNames == 1 .. 4
MCBuiltins == {4}
Single == {Absent, <<>>} \cup {<<n>> : n \in 1 .. 4}
Pairs == {<<m, n>> : m \in 1 .. 3, n \in 1 .. 3} \ {<<2, 2>>, <<3, 3>>}
Shadowed == {Absent, <<2>>}

\* The variables of one scope: the ordinary ones of `values`, the built-in's name of `dollar`.
Variables(values, dollar) == {v \in [1 .. 4 -> values \cup dollar] :
                                v[4] \in dollar /\ \A n \in 1 .. 3 : v[n] \in values}
MCScopes ==
  [env : Variables(Single \cup Pairs, {Absent}), collection : Variables(Shadowed, {Absent})]
    \cup [env : Variables(Single, {<<>>, <<4>>, <<1>>}), collection : Variables({Absent}, {Absent, <<>>})]
    \cup [env : Variables(Single, {Absent}), collection : Variables({Absent}, {<<>>, <<4>>, <<1>>})]
MCEnvs == {"none", "dev"}

OAuth2(fields, environments) ==
  [kind |-> "oauth2", environments |-> environments, fields |-> fields]
Inherit == [NoAuth EXCEPT !.kind = "inherit"]
Row(t, on) == [value |-> t, enabled |-> on, keyed |-> TRUE]
Keyless(t) == [value |-> t, enabled |-> TRUE, keyed |-> FALSE]

MCAuths == {NoAuth, OAuth2(<<<<3>>>>, {})}
MCRequests ==
  { [texts |-> <<<<1>>, <<3, 2>>>>, rows |-> <<>>, auth |-> NoAuth],
    [texts |-> <<<<2, 4>>>>, rows |-> <<Row(<<1>>, FALSE), Keyless(<<3>>)>>,
     auth |-> OAuth2(<<<<1>>>>, {"dev"})],
    [texts |-> <<<<1>>>>, rows |-> <<Row(<<2>>, TRUE)>>, auth |-> Inherit] }
=============================================================================
