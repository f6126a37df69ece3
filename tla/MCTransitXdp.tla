---------------------------- MODULE MCTransitXdp ----------------------------
(***************************************************************************)
(* Frames for TransitXdp: three good ones, and every frame that differs    *)
(* from one of them in a single respect.                                   *)
(***************************************************************************)
EXTENDS TransitXdp

\* Entrances 1, 2 are addresses of the gateway; 3, 4 are hosts.
E1 == [mac |-> "g1", ip |-> 1]
E2 == [mac |-> "g2", ip |-> 2]
MCFirst == <<E1, E2>>
MCLists == {<<E1, E2>>, <<E2>>}
MCJunk == {[mac |-> "zero", ip |-> 0], [mac |-> "g2", ip |-> 1]}

MCKey == {<<1, "b">>, <<2, "b">>}
Local == [mac |-> "mb", hip |-> 4, hmac |-> "h4"]
Other == [mac |-> "mc", hip |-> 3, hmac |-> "h3"]
Looping == [mac |-> "mb", hip |-> 1, hmac |-> "g1"]
MCEndpoint == {Local, Other, Looping}
MCSlot == 1 .. 3
MCIndexes == {[k \in MCKey |-> IF k = <<1, "b">> THEN 1 ELSE 2],
              [k \in MCKey |-> IF k = <<1, "b">> THEN Nobody ELSE 2]}
MCContents == {<<Local, Other, Other>>, <<Looping, Other, Other>>}

R(len, vni, port, dir) == [prefixlen |-> len, vni |-> vni, port |-> port,
                           direction |-> dir, protocol |-> "tcp"]
MCRule == {R(48, 1, 30011, 0), R(64, 1, 80, 1), R(96, 1, 22, 1), R(32, 2, 0, 0)}

Checked(f) == [f EXCEPT !.check = Csum(HeaderSum(f))]

Good == Checked(
  [fits |-> 7, dmac |-> "g1", smac |-> "h3", etype |-> "ip", sip |-> 3,
   dip |-> 1, ttl |-> 2, proto |-> "udp", check |-> 0, port |-> "vxlan",
   options |-> TRUE, vni |-> 1, idmac |-> "x", ismac |-> "ma", itype |-> "ip",
   isip |-> "a", idip |-> "b", iproto |-> "tcp", iport |-> 80,
   op |-> "request", sha |-> "ma", tha |-> "x", tail |-> NoTail])
Ask == [Good EXCEPT !.itype = "arp"]
Chained == [Good EXCEPT !.port = "geneve"]
\* An ARP request that claims to come from an entrance.
Echo == Checked([Ask EXCEPT !.sip = 1, !.smac = "g1"])

Deviations ==
  {Good, Ask, Chained, Echo}
    \cup {[Good EXCEPT !.fits = n] : n \in 0 .. 6}
    \cup {Checked([Good EXCEPT !.ttl = n]) : n \in {0, 1}}
    \cup {[Good EXCEPT !.dmac = "h3"], [Good EXCEPT !.dmac = "g2"],
          [Good EXCEPT !.etype = "ipv6"], [Good EXCEPT !.proto = "icmp"],
          [Good EXCEPT !.port = "other"], [Good EXCEPT !.vni = 2],
          [Good EXCEPT !.itype = "other"], [Good EXCEPT !.idip = "z"],
          [Good EXCEPT !.iproto = "icmp"], [Good EXCEPT !.iport = 22]}
    \cup {[Ask EXCEPT !.fits = 5], [Ask EXCEPT !.fits = 6],
          [Ask EXCEPT !.op = "reply"], [Ask EXCEPT !.vni = 2],
          [Ask EXCEPT !.idip = "z"]}
    \cup {[Chained EXCEPT !.fits = 3], [Chained EXCEPT !.options = FALSE],
          [Chained EXCEPT !.itype = "arp"]}

\* To an endpoint that is not Looping from the start.
Second == Checked([Good EXCEPT !.vni = 2, !.ttl = 1])

MCFrames ==
  [x \in {"c1", "c2"} \X BOOLEAN |->
    CASE x = <<"c1", FALSE>> -> Deviations
      [] x = <<"c2", FALSE>> -> {}
      [] x = <<"c1", TRUE>> -> {Second, [Second EXCEPT !.iproto = "icmp"]}
      [] OTHER -> {Second}]

MCWrites == [b \in BOOLEAN |-> IF b THEN 0 ELSE 2]

=============================================================================
