--------------------------- MODULE MCTransitDaemon ---------------------------
(***************************************************************************)
(* Instances of TransitDaemon for TLC.                                     *)
(***************************************************************************)
EXTENDS TransitDaemon, TLC

CONSTANTS k1, k2, v1, v2

NoReattachFailure == Calls \ {"reattach"}
AfterLoadFailures == {"query", "reattach", "ebpf", "entry"}
NoFailure == {}

NoKeys == {}
TwoKeys == {k1, k2}
TwoVals == {v1, v2}

Symmetry == Permutations(TwoKeys) \cup Permutations(TwoVals)
=============================================================================
