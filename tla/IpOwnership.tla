---------------------------- MODULE IpOwnership ----------------------------
(***************************************************************************)
(* What the sharing of a ZGC's gateway IPs promises: a node gives IPs up,  *)
(* and a node is given IPs that nobody holds at that moment.  An IP may    *)
(* belong to nobody for a while; it never belongs to two nodes.            *)
(***************************************************************************)
CONSTANTS Node, IP

VARIABLE held      \* the IPs each node holds

Init == held = [n \in Node |-> {}]

Release(n, S) == held' = [held EXCEPT ![n] = @ \ S]

Grant(n, S) ==
  /\ \A m \in Node : held[m] \cap S = {}
  /\ held' = [held EXCEPT ![n] = @ \cup S]

Next == \E n \in Node, S \in SUBSET IP : Release(n, S) \/ Grant(n, S)

Spec == Init /\ [][Next]_held
=============================================================================
