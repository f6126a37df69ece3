-------------------------- MODULE MCOperatorChains --------------------------
(***************************************************************************)
(* The operator with one chain of two FTNs, two forwarders, and three      *)
(* droplets of four there when it starts: one short of what is needed.     *)
(***************************************************************************)
EXTENDS OperatorChains
=============================================================================
