------------------------------- MODULE MCDrafts -------------------------------
EXTENDS Drafts

CONSTANTS m1, m2

MCStored == <<[method |-> m1, body |-> Pristine], [method |-> Http, body |-> Pristine]>>

\* Bounds: what may happen in one life of the window.
Budget(edits, opens, picks, saves, fails, deletes) ==
  [edit |-> edits, open |-> opens, pick |-> picks, save |-> saves, fail |-> fails, delete |-> deletes]

Scenarios ==
  {Budget(1, 2, 1, 1, 1, 0), Budget(2, 2, 0, 1, 1, 0), Budget(2, 3, 1, 0, 0, 0),
   Budget(1, 3, 0, 1, 0, 1), Budget(1, 2, 1, 0, 1, 1)}
=============================================================================
