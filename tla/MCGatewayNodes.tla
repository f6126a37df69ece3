--------------------------- MODULE MCGatewayNodes ---------------------------
(***************************************************************************)
(* One request of all ports, while nodes come and go.  Nodes and IPs are   *)
(* interchangeable.                                                        *)
(***************************************************************************)
EXTENDS GatewayNodes

MCVpcOf == [p \in Port |-> "v1"]

MCRequests == {SetToSeq(Port)}

NoNodes == <<>>

Symmetry == Permutations(Node) \cup Permutations(IP)

=============================================================================
