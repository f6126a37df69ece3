------------------------------ MODULE MCCnDpnd ------------------------------
(***************************************************************************)
(* Frames for CnDpnd: hints of one address from two hosts' gateways, of a  *)
(* second flow, and frames that differ from a hinted one in one respect.   *)
(***************************************************************************)
EXTENDS CnDpnd

MCHostOf == [x \in {<<1, "a">>, <<1, "d">>, <<2, "a">>, <<1, "b">>, <<2, "b">>} |->
               CASE x = <<1, "a">> -> 11 [] x = <<1, "d">> -> 12
                 [] x = <<2, "a">> -> 13 [] OTHER -> 20]

Hints(vni, saddr) == [flags |-> "0x5354", vni |-> vni, saddr |-> saddr, smac |-> "g"]

Hinted ==
  [fits |-> 7, etype |-> "ip", ttl |-> 1, proto |-> "udp", port |-> "vxlan",
   totlen |-> 100, vni |-> 1, itype |-> "ip", isip |-> "a", idip |-> "b",
   ismac |-> "ma", iproto |-> "tcp", tail |-> Hints(1, 11)]

Regular ==
  {Hinted, [Hinted EXCEPT !.isip = "d", !.tail = Hints(1, 12)],
   [Hinted EXCEPT !.tail = Hints(1, 0)],
   [Hinted EXCEPT !.tail = Hints(2, 13)],
   [Hinted EXCEPT !.tail = Nothing],
   [Hinted EXCEPT !.tail.flags = "0"]}

Odd ==
  {[Hinted EXCEPT !.fits = k] : k \in 0 .. 6}
    \cup {[Hinted EXCEPT !.ttl = 0], [Hinted EXCEPT !.totlen = 1],
          [Hinted EXCEPT !.etype = "arp"], [Hinted EXCEPT !.proto = "tcp"],
          [Hinted EXCEPT !.port = "other"], [Hinted EXCEPT !.itype = "arp"],
          [Hinted EXCEPT !.iproto = "icmp"],
          [Hinted EXCEPT !.iproto = "icmp", !.fits = 6]}

MCFrames == [k \in 0 .. MaxPushes |-> IF k = 0 THEN Regular \cup Odd ELSE Regular]

=============================================================================
