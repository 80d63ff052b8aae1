---------------------------- MODULE MCContractView ----------------------------
EXTENDS ContractView, TLC

\* Targets, methods and commands are interchangeable.
Interchangeable ==
  {t @@ m @@ o : t \in Permutations(Targets), m \in Permutations(Methods), o \in Permutations(Ops)}
=============================================================================
