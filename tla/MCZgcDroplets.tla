--------------------------- MODULE MCZgcDroplets ---------------------------
(* ZgcDroplets on small instances.  Nodes and IPs are interchangeable.      *)
EXTENDS ZgcDroplets, TLC

Symmetry == Permutations(Node) \cup Permutations(IP)
=============================================================================
