---------------------------- MODULE MCSharedChannel ----------------------------
(* Constant values for checking SharedChannel.                             *)
EXTENDS SharedChannel, TLC

CONSTANTS s1, s2, r1, r2

TwoSenders == {s1, s2}
OneSender == {s1}
TwoReceivers == {r1, r2}
OneReceiver == {r1}

\* Workers are interchangeable, and so are receivers (safety runs only).
Symmetry == Permutations(TwoSenders) \cup Permutations(TwoReceivers)
================================================================================
