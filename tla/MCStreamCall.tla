---------------------------- MODULE MCStreamCall ----------------------------
(* StreamCall on small instances; senders are interchangeable. *)
EXTENDS StreamCall, TLC

SenderSymmetry == Permutations(Senders)
=============================================================================
