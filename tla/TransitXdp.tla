----------------------------- MODULE TransitXdp -----------------------------
(***************************************************************************)
(* The transit XDP program of a gateway node: what becomes of a frame.     *)
(*                                                                         *)
(* The kernel runs the program for one frame on each CPU, while the daemon *)
(* and an agent rewrite the BPF maps from user space.  Nothing excludes    *)
(* the two, so a run takes one step between any two reads of shared maps.  *)
(* What a run reads of its frame alone takes no step of its own.           *)
(*                                                                         *)
(* A map lookup returns a pointer into the map.  endpoints_map is          *)
(* preallocated (map_flags 0): an element that is replaced or deleted is   *)
(* free for the next insertion at once, even while a run still holds its   *)
(* pointer.  Elements are therefore modelled as slots.                     *)
(***************************************************************************)
EXTENDS Naturals, Sequences

CONSTANTS
  CPU,           \* CPUs that run the program
  Frames,        \* frames that arrive, by CPU and build
  Queue,         \* receive queues
  Key,           \* endpoint keys used: <<vni, ip>>
  Slot,          \* elements of endpoints_map
  Endpoint,      \* endpoint_t values used
  EntranceList,  \* entrance lists the daemon writes
  FirstList,     \* the one it has written first, the longest
  Junk,          \* what an entrance holds that nobody has set
  Rule,          \* keys of sg_cidr_map used
  Roles,         \* roles of the interface tried: XDP_FWD, XDP_FTN
  Builds,        \* values of appendTail tried; this repository builds FALSE
  EgressPort,    \* the port of every egress check, 30011
  Base,          \* bound: header words and ttl count modulo Base
  MaxWrites,     \* bound: writes of user space to the maps, by build
  Indexes,       \* states epIdx starts from
  Contents,      \* states slots starts from
  Nobody         \* no slot, no frame

ASSUME BaseAssumption == Base \in Nat /\ Base > 1
ASSUME NobodyAssumption == Nobody \notin Slot
ASSUME WritesAssumption == MaxWrites \in [BOOLEAN -> Nat]
ASSUME BuildsAssumption == Builds \subseteq BOOLEAN

\* get_mac_from_ip keeps the IP in the MAC: entrances with one MAC are the same.
ASSUME ListsAssumption ==
  \A l \in EntranceList \cup {FirstList} :
    /\ l \in Seq({l[i] : i \in DOMAIN l})
    /\ Len(l) <= Len(FirstList)
    /\ \A i, j \in DOMAIN l :
         /\ l[i] = [mac |-> l[i].mac, ip |-> l[i].ip]
         /\ l[i].mac = l[j].mac => l[i] = l[j]

ASSUME EndpointAssumption == \A e \in Endpoint : e.hip \in 0 .. Base - 1

ASSUME MapsAssumption ==
  /\ Contents \subseteq [Slot -> Endpoint]
  /\ \A idx \in Indexes :
       /\ idx \in [Key -> Slot \cup {Nobody}]
       /\ \A j, k \in Key : idx[j] = idx[k] /\ idx[k] # Nobody => j = k

VARIABLES
  role,       \* tunnel_iface_t.role of the ingress interface
  num,        \* tunnel_iface_t.num_entrances
  entrances,  \* tunnel_iface_t.entrances
  writing,    \* the list a daemon's write of if_config_map has yet to copy
  epIdx,      \* endpoints_map: the slot of each key
  slots,      \* endpoints_map: what each slot holds
  rules,      \* sg_cidr_map
  jmp,        \* stages present in jmp_table
  xsks,       \* queues with a socket in xsks_map
  appendTail, \* how the program was built
  notAddTail, \* pkt_not_add_tail, a global of the program: 0 or not
  cpu,        \* the run on each CPU
  writes      \* history: writes of user space

config == <<role, num, entrances, writing>>
maps == <<config, epIdx, slots, rules, jmp, xsks>>
vars == <<maps, appendTail, notAddTail, cpu, writes>>

Verdict == {"PASS", "DROP", "TX", "ABORTED", "USER"}
Stage == {"PASS", "DROP", "TX"}
Step == {"idle", "eth", "ip", "egress", "ingress", "lookup", "inner",
         "outer", "hints", "verdict", "redirect", "done"}

(***************************************************************************)
(* Frames.  fits counts the headers a frame has in full: Ethernet, IP, UDP,*)
(* overlay, inner Ethernet, inner IP or ARP, inner TCP or UDP or the       *)
(* addresses of ARP.  An inner ARP has its addresses in isip, idip.        *)
(***************************************************************************)
Eth == 1    IPv4 == 2    Udp == 3    Overlay == 4
InnerEth == 5    InnerNet == 6    InnerTransport == 7

Has(f, layer) == f.fits >= layer

FrameFields ==
  {"fits", "dmac", "smac", "etype", "sip", "dip", "ttl", "proto", "check",
   "port", "options", "vni", "idmac", "ismac", "itype", "isip", "idip",
   "iproto", "iport", "op", "sha", "tha", "tail"}

IsFrame(f) ==
  /\ f = [x \in FrameFields |-> f[x]]
  /\ f.fits \in Nat
  /\ {f.ttl, f.sip, f.dip} \subseteq 0 .. Base - 1

ASSUME FramesAssumption ==
  \A c \in CPU, b \in Builds : \A f \in Frames[<<c, b>>] : IsFrame(f)

\* The sum of a header's 16-bit words.  All that never changes is word 0.
HeaderSum(f) == f.ttl + f.sip + f.dip

\* trn_csum_fold_helper, before the complement: four rounds.
FoldRound(c) == IF c \div Base > 0 THEN (c % Base) + (c \div Base) ELSE c
Fold(c) == FoldRound(FoldRound(FoldRound(FoldRound(c))))
Csum(c) == (Base - 1) - (Fold(c) % Base)

SetAddressesSumFirst(f, src, dst) ==
  LET g == [f EXCEPT !.sip = src, !.dip = dst]
  IN  [g EXCEPT !.check = Csum(HeaderSum(g)), !.ttl = (@ + Base - 1) % Base]

SetAddressesKeepTtl(f, src, dst) ==
  LET g == [f EXCEPT !.sip = src, !.dip = dst]
  IN  [g EXCEPT !.check = Csum(HeaderSum(g))]

\* trn_set_src_dst_ip_csum: check is zeroed before the sum is taken.
SetAddresses(f, src, dst) ==
  LET g == [f EXCEPT !.ttl = (@ + Base - 1) % Base, !.sip = src, !.dip = dst]
  IN  [g EXCEPT !.check = Csum(HeaderSum(g))]

\* Whether a receiver accepts the header.
Verifies(f) == Fold(HeaderSum(f) + f.check) = Base - 1

(***************************************************************************)
(* sg_cidr_map is a trie: an entry matches a key when it is not longer and *)
(* agrees on its bits, which are vni, port, direction and protocol before  *)
(* the addresses.  Lookups are SG_IPV4_PREFIX long and see no address.     *)
(***************************************************************************)
SgPrefix == 64

Covers(r, k) ==
  /\ r.prefixlen <= SgPrefix
  /\ r.prefixlen >= 32 => r.vni = k.vni
  /\ r.prefixlen >= 48 => r.port = k.port
  /\ r.prefixlen >= 56 => r.direction = k.direction
  /\ r.prefixlen >= 64 => r.protocol = k.protocol

SgKey(f, direction, port) ==
  [vni |-> f.vni, port |-> port, direction |-> direction, protocol |-> f.iproto]

Permitted(k) == \E r \in rules : Covers(r, k)

(***************************************************************************)
(* State.                                                                  *)
(***************************************************************************)
Idle == [pc |-> "idle", f |-> Nobody, in |-> Nobody, q |-> Nobody, ent |-> 0,
         ep |-> Nobody, act |-> "PASS", tip |-> 0, grown |-> FALSE,
         quiet |-> TRUE, sends |-> 0, ttl |-> 0]

Mapped == {epIdx[k] : k \in Key} \ {Nobody}

TypeOK ==
  /\ num \in Nat
  /\ epIdx \in [Key -> Slot \cup {Nobody}]
  /\ \A j, k \in Key : epIdx[j] = epIdx[k] /\ epIdx[k] # Nobody => j = k
  /\ \A s \in Mapped : slots[s] \in Endpoint
  /\ rules \subseteq Rule
  /\ jmp \subseteq Stage
  /\ xsks \subseteq Queue
  /\ notAddTail \in BOOLEAN
  /\ \A c \in CPU :
       /\ cpu[c].pc \in Step
       /\ cpu[c].act \in Verdict \cup {"EP_NOT_FOUND"}
       /\ cpu[c].pc \in {"inner", "outer"} => cpu[c].ep \in Slot
       /\ cpu[c].pc # "idle" => cpu[c].f.ttl \in 0 .. Base - 1

\* The load has attached the program; the maps hold what was there before.
Init ==
  /\ role \in Roles
  /\ entrances = FirstList
  /\ num = Len(FirstList)
  /\ writing = <<>>
  /\ epIdx \in Indexes
  /\ slots \in Contents
  /\ rules = Rule
  /\ jmp = Stage
  /\ xsks = Queue
  /\ appendTail \in Builds
  /\ notAddTail = TRUE
  /\ cpu = [c \in CPU |-> Idle]
  /\ writes = 0

Goto(c, pc) == cpu' = [cpu EXCEPT ![c].pc = pc]
Answer(c, act) == cpu' = [cpu EXCEPT ![c].pc = "verdict", ![c].act = act]

(***************************************************************************)
(* _transit: a frame arrives.  bpf_xdp_adjust_tail may fail; it grows the  *)
(* frame by a zeroed tail.  if_config_map is an array: its lookup finds    *)
(* the entry, written or not.                                              *)
(***************************************************************************)
TailOf(flags, vni, saddr, smac) ==
  [flags |-> flags, vni |-> vni, saddr |-> saddr, smac |-> smac]
NoTail == TailOf("none", 0, 0, "zero")

Grow(f, grown) == IF grown THEN [f EXCEPT !.tail = TailOf("0", 0, 0, "zero")] ELSE f

\* A run that comes upon a half copied list is not quiet.
Enter(c, f, q, sends, ttl) ==
  \E grown \in IF appendTail THEN BOOLEAN ELSE {FALSE} :
    /\ cpu' = [cpu EXCEPT ![c] = [Idle EXCEPT !.pc = "eth", !.q = q,
                 !.f = Grow(f, grown), !.in = f, !.grown = grown,
                 !.quiet = (writing = <<>>), !.sends = sends, !.ttl = ttl]]
    /\ notAddTail' = IF appendTail THEN ~ grown ELSE notAddTail

Receive(c, f, q) ==
  /\ cpu[c].pc = "idle"
  /\ Enter(c, f, q, 0, f.ttl)
  /\ UNCHANGED <<maps, appendTail, writes>>

\* trn_process_eth: the first entrance with the MAC of the frame.
ProcessEth(c) ==
  LET f == cpu[c].f
      Matching == {i \in 1 .. num : entrances[i].mac = f.dmac}
  IN
  /\ cpu[c].pc = "eth"
  /\ \/ ~ Has(f, Eth) /\ Answer(c, "ABORTED")
     \/ Has(f, Eth) /\ f.etype # "ip" /\ Answer(c, "PASS")
     \/ Has(f, Eth) /\ f.etype = "ip" /\ Matching = {} /\ Answer(c, "ABORTED")
     \/ /\ Has(f, Eth) /\ f.etype = "ip"
        /\ \E i \in Matching :
             /\ \A j \in Matching : i <= j
             /\ cpu' = [cpu EXCEPT ![c].pc = "ip", ![c].ent = i]
  /\ UNCHANGED <<maps, appendTail, notAddTail, writes>>

\* trn_process_inner_eth, and what of trn_process_inner_arp reads the frame.
InnerEthAct(f) ==
  IF ~ Has(f, InnerEth) THEN "ABORTED"
    ELSE IF f.itype = "arp" /\ role = "FWD" THEN
         (IF ~ Has(f, InnerNet) THEN "ABORTED"
            ELSE IF f.op # "request" THEN "DROP"      \* or unsupported types
            ELSE IF ~ Has(f, InnerTransport) THEN "ABORTED"
            ELSE "lookup")
    ELSE IF f.itype # "ip" THEN "DROP"
    ELSE IF ~ Has(f, InnerNet) THEN "ABORTED"
    ELSE "egress"

\* trn_process_geneve, trn_process_vxlan.
OverlayAct(f) ==
  IF ~ Has(f, Overlay) \/ (f.port = "geneve" /\ ~ f.options) THEN "ABORTED"
  ELSE InnerEthAct(f)

OverlayPort == IF role = "FTN" THEN "geneve" ELSE "vxlan"

\* trn_process_udp.
UdpAct(f) ==
  IF ~ Has(f, Udp) THEN "ABORTED"
    ELSE IF f.port = OverlayPort THEN OverlayAct(f)
    ELSE "PASS"

\* trn_process_ip, which reads the entrance again.
IpAct(f, e) ==
  IF ~ Has(f, IPv4) THEN "ABORTED"
    ELSE IF f.dip # e.ip THEN "ABORTED"
    ELSE IF f.ttl = 0 THEN "DROP"
    ELSE IF f.proto # "udp" THEN "PASS"
    ELSE UdpAct(f)

ProcessIp(c) ==
  LET act == IpAct(cpu[c].f, entrances[cpu[c].ent])
  IN
  /\ cpu[c].pc = "ip"
  /\ IF act \in Verdict THEN Answer(c, act) ELSE Goto(c, act)
  /\ UNCHANGED <<maps, appendTail, notAddTail, writes>>

(***************************************************************************)
(* trn_sg_check: two lookups, and none for what is neither TCP nor UDP in  *)
(* the second.  XDP_PASS means permitted here.                             *)
(***************************************************************************)
CheckEgress(c) ==
  /\ cpu[c].pc = "egress"
  /\ IF Permitted(SgKey(cpu[c].f, 0, EgressPort))
     THEN Goto(c, "ingress")
     ELSE Answer(c, "DROP")
  /\ UNCHANGED <<maps, appendTail, notAddTail, writes>>

Transport == {"tcp", "udp"}

CheckIngressAnswers(c) ==
  LET f == cpu[c].f
  IN
  /\ cpu[c].pc = "ingress"
  /\ IF f.iproto \notin Transport THEN Answer(c, "PASS")
       ELSE IF ~ Has(f, InnerTransport) THEN Answer(c, "ABORTED")
       ELSE IF Permitted(SgKey(f, 1, f.iport)) THEN Goto(c, "lookup")
       ELSE Answer(c, "DROP")
  /\ UNCHANGED <<maps, appendTail, notAddTail, writes>>

CheckIngress(c) ==
  LET f == cpu[c].f
  IN
  /\ cpu[c].pc = "ingress"
  /\ IF f.iproto \notin Transport THEN Goto(c, "lookup")
       ELSE IF ~ Has(f, InnerTransport) THEN Answer(c, "ABORTED")
       ELSE IF Permitted(SgKey(f, 1, f.iport)) THEN Goto(c, "lookup")
       ELSE Answer(c, "DROP")
  /\ UNCHANGED <<maps, appendTail, notAddTail, writes>>

\* trn_process_inner_ip and trn_process_inner_arp: the target endpoint.
FrameKey(f) == <<f.vni, f.idip>>

EpLookupAfterReply(c) ==
  LET k == FrameKey(cpu[c].f)
      replied == [cpu EXCEPT ![c].f.op = "reply"]
  IN
  /\ cpu[c].pc = "lookup"
  /\ cpu' = IF k \in Key /\ epIdx[k] # Nobody
            THEN [replied EXCEPT ![c].pc = "inner", ![c].ep = epIdx[k]]
            ELSE [replied EXCEPT ![c].pc = "verdict", ![c].act = "EP_NOT_FOUND"]
  /\ UNCHANGED <<maps, appendTail, notAddTail, writes>>

EpLookup(c) ==
  LET k == FrameKey(cpu[c].f)
  IN
  /\ cpu[c].pc = "lookup"
  /\ IF k \in Key /\ epIdx[k] # Nobody
     THEN cpu' = [cpu EXCEPT ![c].pc = "inner", ![c].ep = epIdx[k]]
     ELSE Answer(c, "EP_NOT_FOUND")
  /\ UNCHANGED <<maps, appendTail, notAddTail, writes>>

(***************************************************************************)
(* Rewriting.  The element is read for the inner addresses, then for the   *)
(* outer ones; what it holds may have changed in between.                  *)
(***************************************************************************)
InnerIp(f, e) == [f EXCEPT !.idmac = e.mac]

InnerArp(f, e) ==
  [f EXCEPT !.op = "reply", !.tha = f.sha, !.sha = e.mac,
            !.isip = f.idip, !.idip = f.isip]

\* The reader of pkt_not_add_tail before the hints, who saves the sender's host.
Hinted(f) == appendTail /\ f.itype = "ip" /\ f.iproto # "icmp"

RewriteInner(c) ==
  LET f == cpu[c].f
      e == slots[cpu[c].ep]
  IN
  /\ cpu[c].pc = "inner"
  /\ cpu' = [cpu EXCEPT ![c].pc = "outer",
               ![c].f = IF f.itype = "ip" THEN InnerIp(f, e) ELSE InnerArp(f, e),
               ![c].tip = IF Hinted(f) /\ ~ notAddTail THEN f.sip ELSE 0]
  /\ UNCHANGED <<maps, appendTail, notAddTail, writes>>

OuterIpSwapped(f, e) ==
  [SetAddresses(f, f.dip, e.hip) EXCEPT !.smac = e.hmac, !.dmac = e.hmac]

OuterIp(f, e) == [SetAddresses(f, f.dip, e.hip) EXCEPT !.smac = f.dmac, !.dmac = e.hmac]

OuterArp(f, e) ==
  [SetAddresses(f, f.dip, f.sip) EXCEPT !.idmac = f.ismac, !.ismac = e.mac,
     !.smac = f.dmac, !.dmac = f.smac]

RewriteOuter(c) ==
  LET f == cpu[c].f
      e == slots[cpu[c].ep]
  IN
  /\ cpu[c].pc = "outer"
  /\ cpu' = [cpu EXCEPT ![c].pc = IF Hinted(f) THEN "hints" ELSE "verdict",
               ![c].act = "TX",
               ![c].f = IF f.itype = "ip" THEN OuterIp(f, e) ELSE OuterArp(f, e)]
  /\ UNCHANGED <<maps, appendTail, notAddTail, writes>>

HintsRewrittenHost(f, tip) == TailOf("0x5354", f.vni, f.sip, f.smac)

\* The second reader of pkt_not_add_tail.  The source MAC is the rewritten one.
Hints(f, tip) == TailOf("0x5354", f.vni, tip, f.smac)

AppendHints(c) ==
  LET f == cpu[c].f
  IN
  /\ cpu[c].pc = "hints"
  /\ IF notAddTail THEN Goto(c, "verdict")
       ELSE IF ~ cpu[c].grown THEN Answer(c, "ABORTED")   \* no room before data_end
       ELSE cpu' = [cpu EXCEPT ![c].pc = "verdict",
                             ![c].f.tail = Hints(f, cpu[c].tip)]
  /\ UNCHANGED <<maps, appendTail, notAddTail, writes>>

(***************************************************************************)
(* _transit: the verdict.  The program of a stage takes over when there is *)
(* one; those of this repository return the verdict they are called on.    *)
(***************************************************************************)
StageVerdict(s) == s

Conclude(c) ==
  LET act == cpu[c].act
  IN
  /\ cpu[c].pc = "verdict"
  /\ act # "EP_NOT_FOUND"
  /\ cpu' = [cpu EXCEPT ![c].pc = "done",
               ![c].act = IF act \in jmp THEN StageVerdict(act) ELSE act]
  /\ UNCHANGED <<maps, appendTail, notAddTail, writes>>

\* An unknown endpoint goes to the socket of its queue, or is dropped.
FindSocket(c) ==
  /\ cpu[c].pc = "verdict"
  /\ cpu[c].act = "EP_NOT_FOUND"
  /\ IF cpu[c].q \in xsks THEN Goto(c, "redirect") ELSE Answer(c, "DROP")
  /\ UNCHANGED <<maps, appendTail, notAddTail, writes>>

\* bpf_redirect_map answers with its flags, XDP_ABORTED, if the socket is gone.
Redirect(c) ==
  /\ cpu[c].pc = "redirect"
  /\ cpu' = [cpu EXCEPT ![c].pc = "done",
               ![c].act = IF cpu[c].q \in xsks THEN "USER" ELSE "ABORTED"]
  /\ UNCHANGED <<maps, appendTail, notAddTail, writes>>

\* The frame leaves.  Sent to an entrance of the ZGC it comes to a gateway with
\* the same endpoints, here the same one.
Home(f) == \E i \in 1 .. num : entrances[i] = [mac |-> f.dmac, ip |-> f.dip]

Leave(c) ==
  /\ cpu[c].pc = "done"
  /\ ~ (cpu[c].act = "TX" /\ Home(cpu[c].f))
  /\ cpu' = [cpu EXCEPT ![c] = Idle]
  /\ UNCHANGED <<maps, appendTail, notAddTail, writes>>

\* History, counted up to one more than the TTL allows.
More(c) == IF cpu[c].sends > cpu[c].ttl THEN cpu[c].sends ELSE cpu[c].sends + 1

Return(c) ==
  /\ cpu[c].pc = "done"
  /\ cpu[c].act = "TX"
  /\ Home(cpu[c].f)
  /\ Enter(c, cpu[c].f, cpu[c].q, More(c), cpu[c].ttl)
  /\ UNCHANGED <<maps, appendTail, writes>>

Run(c) ==
  \/ ProcessEth(c) \/ ProcessIp(c) \/ CheckEgress(c) \/ CheckIngress(c)
  \/ EpLookup(c) \/ RewriteInner(c) \/ RewriteOuter(c) \/ AppendHints(c)
  \/ Conclude(c) \/ FindSocket(c) \/ Redirect(c) \/ Leave(c) \/ Return(c)

(***************************************************************************)
(* User space writes the maps.  No run is quiet across a write.            *)
(***************************************************************************)
Disturb == cpu' = [c \in CPU |-> [cpu[c] EXCEPT !.quiet = (cpu[c].pc = "idle")]]

Write ==
  /\ writes < MaxWrites[appendTail]
  /\ writes' = writes + 1
  /\ Disturb
  /\ UNCHANGED <<appendTail, notAddTail>>

WriteEndpointAnywhere(k, e) ==
  /\ Write
  /\ \E s \in Slot :
       /\ epIdx' = [epIdx EXCEPT ![k] = s]
       /\ slots' = [slots EXCEPT ![s] = e]
  /\ UNCHANGED <<config, rules, jmp, xsks>>

\* A new value goes into a free slot, the old one's becomes free.
WriteEndpoint(k, e) ==
  /\ Write
  /\ \E s \in Slot \ Mapped :
       /\ epIdx' = [epIdx EXCEPT ![k] = s]
       /\ slots' = [slots EXCEPT ![s] = e]
  /\ UNCHANGED <<config, rules, jmp, xsks>>

DeleteEndpoint(k) ==
  /\ epIdx[k] # Nobody
  /\ Write
  /\ epIdx' = [epIdx EXCEPT ![k] = Nobody]
  /\ UNCHANGED <<config, slots, rules, jmp, xsks>>

\* An array entry is copied in place: here its head, then its entrances.
WriteConfig(list) ==
  /\ writing = <<>>
  /\ Write
  /\ num' = Len(list)
  /\ writing' = list
  /\ UNCHANGED <<role, entrances, epIdx, slots, rules, jmp, xsks>>

\* The daemon's copy is on its stack, and set as far as its list goes.
Padded(list, junk) ==
  [i \in DOMAIN FirstList |-> IF i \in DOMAIN list THEN list[i] ELSE junk]

CopyEntrances ==
  /\ writing # <<>>
  /\ Disturb
  /\ \E junk \in IF Len(writing) = Len(FirstList) THEN {writing[1]} ELSE Junk :
       entrances' = Padded(writing, junk)
  /\ writing' = <<>>
  /\ UNCHANGED <<role, num, epIdx, slots, rules, jmp, xsks,
                 appendTail, notAddTail, writes>>

WriteRule(r) ==
  /\ Write
  /\ rules' = IF r \in rules THEN rules \ {r} ELSE rules \cup {r}
  /\ UNCHANGED <<config, epIdx, slots, jmp, xsks>>

WriteStage(s) ==
  /\ Write
  /\ jmp' = IF s \in jmp THEN jmp \ {s} ELSE jmp \cup {s}
  /\ UNCHANGED <<config, epIdx, slots, rules, xsks>>

WriteSocket(q) ==
  /\ Write
  /\ xsks' = IF q \in xsks THEN xsks \ {q} ELSE xsks \cup {q}
  /\ UNCHANGED <<config, epIdx, slots, rules, jmp>>

UserSpace ==
  \/ \E k \in Key, e \in Endpoint : WriteEndpoint(k, e)
  \/ \E k \in Key : DeleteEndpoint(k)
  \/ \E l \in EntranceList : WriteConfig(l)
  \/ CopyEntrances
  \/ \E r \in Rule : WriteRule(r)
  \/ \E s \in Stage : WriteStage(s)
  \/ \E q \in Queue : WriteSocket(q)

Next ==
  \/ \E c \in CPU : \E f \in Frames[<<c, appendTail>>], q \in Queue : Receive(c, f, q)
  \/ \E c \in CPU : Run(c)
  \/ UserSpace

Spec == Init /\ [][Next]_vars

(***************************************************************************)
(* Properties.                                                             *)
(***************************************************************************)
Sent(c) == cpu[c].pc = "done" /\ cpu[c].act = "TX"
Quiet(c) == cpu[c].pc = "done" /\ cpu[c].quiet

\* What a gateway is for, said of the whole frame at once.
ForThisNode(f) ==
  /\ \E i \in 1 .. num : entrances[i] = [mac |-> f.dmac, ip |-> f.dip]
  /\ f.etype = "ip" /\ f.proto = "udp" /\ f.port = OverlayPort /\ f.ttl > 0
  /\ f.port = "geneve" => f.options

Known(f) == FrameKey(f) \in Key /\ epIdx[FrameKey(f)] # Nobody

Routable(f) ==
  /\ f.itype = "ip"
  /\ f.iproto \in Transport => Has(f, InnerTransport)
  /\ Has(f, InnerNet)
  /\ Permitted(SgKey(f, 0, EgressPort))
  /\ f.iproto \in Transport => Permitted(SgKey(f, 1, f.iport))

Answerable(f) ==
  role = "FWD" /\ f.itype = "arp" /\ f.op = "request" /\ Has(f, InnerTransport)

\* A run no write disturbs sends a frame on exactly when it should: none that
\* is cut short, not permitted or unknown, and all the others.  (Of the build
\* of this repository: see the hints for the other.)
SentWhenDue ==
  \A c \in CPU : Quiet(c) /\ ~ appendTail =>
    (Sent(c) <=> LET f == cpu[c].in IN
                 ForThisNode(f) /\ Known(f) /\ (Routable(f) \/ Answerable(f)))

\* In a run no write disturbs, the frame goes to the host and the MAC the map
\* has for its own network and address, from the entrance it came to; an ARP
\* answer goes back to who asked.
SentToEndpoint ==
  \A c \in CPU : Sent(c) /\ Quiet(c) =>
    LET f == cpu[c].f
        g == cpu[c].in
        e == slots[epIdx[<<g.vni, g.idip>>]]
    IN  /\ epIdx[<<g.vni, g.idip>>] # Nobody
        /\ f.smac = g.dmac /\ f.sip = g.dip
        /\ IF f.itype = "ip"
           THEN /\ f.dip = e.hip /\ f.dmac = e.hmac /\ f.idmac = e.mac
                /\ <<f.isip, f.idip, f.ismac>> = <<g.isip, g.idip, g.ismac>>
           ELSE /\ f.dip = g.sip /\ f.dmac = g.smac /\ f.idmac = g.ismac
                /\ <<f.ismac, f.sha, f.tha>> = <<e.mac, e.mac, g.sha>>
                /\ <<f.isip, f.idip>> = <<g.idip, g.isip>>

\* Whatever user space does meanwhile, a frame that goes to the kernel, to a
\* socket or nowhere is as it arrived but for its tail: never half rewritten.
UnsentUntouched ==
  \A c \in CPU : cpu[c].pc = "done" /\ cpu[c].act \in {"PASS", "DROP", "USER"} =>
    [cpu[c].f EXCEPT !.tail = NoTail] = [cpu[c].in EXCEPT !.tail = NoTail]

\* The XDP_PASS by which trn_sg_check permits a frame is never taken for the
\* verdict: no tenant frame leaks into the stack of the gateway.
NoTenantFrameToKernel ==
  \A c \in CPU : cpu[c].pc = "done" /\ cpu[c].act = "PASS" =>
    LET f == cpu[c].in IN f.etype # "ip" \/ f.proto # "udp" \/ f.port # OverlayPort

\* Receivers accept the outer header of every frame sent on.
SentVerifies == \A c \in CPU : Sent(c) => Verifies(cpu[c].f)

\* An endpoint whose host is an entrance makes no frame go round for ever: it is
\* sent at most as often as its TTL says, and an ARP answer is never answered.
LoopsEnd ==
  \A c \in CPU :
    /\ cpu[c].sends <= cpu[c].ttl
    /\ Sent(c) => cpu[c].sends < cpu[c].ttl
    /\ Sent(c) /\ cpu[c].f.itype = "arp" => cpu[c].sends = 0

\* Hints name the host the frame came from and its network.  When another CPU
\* changes pkt_not_add_tail between the two reads the host is 0, no other.
HintsNameSender ==
  \A c \in CPU : Sent(c) /\ cpu[c].f.tail.flags = "0x5354" =>
    LET h == cpu[c].f.tail
        g == cpu[c].in
    IN  g.tail = NoTail => h.vni = g.vni /\ h.saddr \in {g.sip, 0} /\ h.smac = g.dmac

=============================================================================
