---------------------------- MODULE MCEndpoints ----------------------------
(***************************************************************************)
(* Two ports in two VPCs, one of which is there at first.  Requests of no  *)
(* port, of one, and of two, the second of which may be refused.  With what *)
(* a refused request leaves behind a list has up to three entries, hence   *)
(* two batches, and may name a port twice.                                 *)
(***************************************************************************)
EXTENDS Endpoints

MCVpcOf == [p \in Port |-> IF p = "p2" THEN "v2" ELSE "v1"]

MCKnown == <<"n1", "n2">>

MCRequests == {<<>>, <<"p1">>, <<"p1", "p2">>}

=============================================================================
