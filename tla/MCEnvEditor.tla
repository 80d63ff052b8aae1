----------------------------------- MODULE MCEnvEditor -----------------------------------
\* Instances of EnvEditor and of VarTable: two environments in the store and one free name;
\* two variables, of which a search finds one.
EXTENDS EnvEditor, VarTable

CONSTANTS a, b, x

TwoEnvs == <<[name |-> a, val |-> 0], [name |-> x, val |-> 0]>>
TwoVariables == <<<<1, 0>>, <<2, 0>>>>
Searches == {{1}}

\* Two edits over two openings; two edits before a delete; or one of everything, with
\* the delete and the switcher.  Nothing opens while the table is looked at.
Scenarios ==
    {[edits |-> 2, openings |-> 2, faults |-> 1, selections |-> 0, deletes |-> 0],
     [edits |-> 2, openings |-> 1, faults |-> 0, selections |-> 0, deletes |-> 1],
     [edits |-> 1, openings |-> 1, faults |-> 1, selections |-> 1, deletes |-> 1]}
Nothing == [edits |-> 0, openings |-> 0, faults |-> 0, selections |-> 0, deletes |-> 0]
BudgetsOfLanes == Scenarios \cup {Nothing}

\* A pane's table and its lane share the draft, which each models in its own way: the two
\* are checked beside each other.
PaneInit == Init /\ TableInit /\ (left = Nothing <=> turns # 0)
PaneNext == (Next /\ UNCHANGED tvars) \/ (TableNext /\ UNCHANGED vars)
PaneSpec == PaneInit /\ [][PaneNext]_<<vars, tvars>>
====
