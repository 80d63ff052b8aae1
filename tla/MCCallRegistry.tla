---------------------------- MODULE MCCallRegistry ----------------------------
EXTENDS CallRegistry
CONSTANTS a1, a2
\* The attempts are interchangeable: a1 begins first.
FirstBegins == pc[a2] # "idle" => pc[a1] # "idle"
=============================================================================
