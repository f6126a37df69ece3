-------------------------- MODULE TransitXdpProofs --------------------------
(***************************************************************************)
(* Theorems about TransitXdp, for any number of CPUs, endpoints, slots,    *)
(* rules and writes of user space, any entrance lists, any frames and any  *)
(* modulus Base.                                                           *)
(***************************************************************************)
EXTENDS TransitXdp, SequenceTheorems, TLAPS

(***************************************************************************)
(* The inductive invariant.                                                *)
(***************************************************************************)
RunFields == {"pc", "f", "in", "q", "ent", "ep", "act", "tip", "grown",
              "quiet", "sends", "ttl"}

IsRun(r) ==
  /\ r = [x \in RunFields |-> r[x]]
  /\ r.pc \in Step
  /\ r.act \in Verdict \cup {"EP_NOT_FOUND"}
  /\ r.grown \in BOOLEAN /\ r.quiet \in BOOLEAN
  /\ r.sends \in Nat /\ r.ttl \in Nat
  /\ r.pc = "idle" => r = Idle
  /\ r.pc # "idle" => IsFrame(r.f) /\ IsFrame(r.in) /\ r.q \in Queue
  /\ r.pc \in {"inner", "outer"} => r.ep \in Slot

MapsShape ==
  /\ num \in Nat
  /\ epIdx \in [Key -> Slot \cup {Nobody}]
  /\ \A j, k \in Key : epIdx[j] = epIdx[k] /\ epIdx[k] # Nobody => j = k
  /\ slots \in [Slot -> Endpoint]
  /\ rules \subseteq Rule /\ jmp \subseteq Stage /\ xsks \subseteq Queue

Shape ==
  /\ MapsShape
  /\ appendTail \in Builds
  /\ notAddTail \in BOOLEAN
  /\ cpu = [c \in CPU |-> cpu[c]]
  /\ \A c \in CPU : IsRun(cpu[c])

\* The configuration holds a list of entrances, or has one to copy.
Listed ==
  /\ writing = <<>> =>
       \E l \in EntranceList \cup {FirstList} :
         /\ num = Len(l)
         /\ \A i \in 1 .. num : entrances[i] = l[i]
  /\ writing # <<>> => writing \in EntranceList /\ num = Len(writing)

Config ==
  /\ Listed
  /\ \A c \in CPU : cpu[c].pc # "idle" /\ cpu[c].quiet => writing = <<>>

\* Frames that agree but for the tail.
Agree(f, g) == \A x \in FrameFields \ {"tail"} : f[x] = g[x]

Inner(f, e) == IF f.itype = "ip" THEN InnerIp(f, e) ELSE InnerArp(f, e)
Outer(f, e) == IF f.itype = "ip" THEN OuterIp(f, e) ELSE OuterArp(f, e)

Sending(r) == r.pc = "hints" \/ (r.pc \in {"verdict", "done"} /\ r.act = "TX")

\* A run of a frame that will not be sent: the hints alone abort later.
Reading(r) ==
  r.pc \in {"eth", "ip", "egress", "ingress", "lookup", "inner", "redirect"}
    \/ (r.pc \in {"verdict", "done"} /\ r.act \in {"PASS", "DROP", "USER", "EP_NOT_FOUND"})

\* What a frame has been made into, at each step of a run.  The two reads of
\* the element give one value in a quiet run.
Made(r) ==
  /\ Reading(r) => Agree(r.f, r.in)
  /\ r.pc = "outer" =>
       \E e \in Endpoint : /\ Agree(r.f, Inner(r.in, e))
                           /\ r.quiet => e = slots[r.ep]
  /\ Sending(r) =>
       \E d, e \in Endpoint :
         /\ Agree(r.f, Outer(Inner(r.in, d), e))
         /\ r.quiet => d = e /\ e = slots[epIdx[FrameKey(r.in)]]

\* Where a run of a quiet frame has found its endpoint.
Found(r) ==
  /\ r.pc \in {"inner", "outer"} /\ r.quiet =>
       FrameKey(r.in) \in Key /\ epIdx[FrameKey(r.in)] = r.ep
  /\ Sending(r) /\ r.quiet => Known(r.in)

\* Frames that come this far are IP or ARP requests with a TTL to spend.
Rewriting(r) ==
  r.pc \in {"egress", "ingress", "lookup", "inner", "outer"} \/ Sending(r)

Fit(r) ==
  /\ Rewriting(r) =>
       /\ r.in.ttl > 0
       /\ r.in.itype = "ip" \/ (r.in.itype = "arp" /\ r.in.op = "request")
  /\ r.pc \in {"egress", "ingress"} => r.in.itype = "ip"

\* Each sending costs one of the TTL; what comes back is no request.
Hops(r) ==
  r.pc # "idle" =>
    /\ r.in.ttl + r.sends = r.ttl
    /\ r.sends > 0 /\ r.in.itype = "arp" => r.in.op = "reply"

\* XDP_PASS is for what is no tunnel frame.
Passed(r) ==
  r.pc \in {"verdict", "done"} /\ r.act = "PASS" =>
    r.in.etype # "ip" \/ r.in.proto # "udp" \/ r.in.port # OverlayPort

\* The tail is a zeroed one until the hints are written.
Tail0 == TailOf("0", 0, 0, "zero")

Tailed(r) ==
  /\ r.pc \in {"outer", "hints"} => r.tip \in {r.in.sip, 0}
  /\ r.pc \notin {"idle", "verdict", "done"} \/ (r.pc # "idle" /\ ~ Sending(r)) =>
       r.f.tail \in {r.in.tail, Tail0}
  /\ Sending(r) =>
       \/ r.f.tail \in {r.in.tail, Tail0}
       \/ \E tip \in {r.in.sip, 0} : r.f.tail = Hints(r.f, tip)
  /\ r.pc = "hints" => appendTail /\ r.act = "TX" /\ r.in.itype = "ip"
  /\ Sending(r) /\ r.in.itype # "ip" => r.f.tail \in {r.in.tail, Tail0}

\* What a quiet run has read of the maps, in the build of the repository.
Matches(r) == {i \in 1 .. num : entrances[i].mac = r.in.dmac}

Due(f) == ForThisNode(f) /\ Known(f) /\ (Routable(f) \/ Answerable(f))

Read(r) ==
  r.pc # "idle" /\ r.quiet /\ ~ appendTail =>
    /\ r.pc = "ip" =>
         /\ Has(r.in, Eth) /\ r.in.etype = "ip"
         /\ r.ent \in Matches(r) /\ \A j \in Matches(r) : r.ent <= j
    /\ r.pc \in {"egress", "ingress"} => ForThisNode(r.in) /\ Has(r.in, InnerNet)
    /\ r.pc = "ingress" => Permitted(SgKey(r.in, 0, EgressPort))
    /\ r.pc \in {"lookup", "inner", "outer"} \/ Sending(r) =>
         ForThisNode(r.in) /\ (Routable(r.in) \/ Answerable(r.in))
    /\ r.pc = "redirect" \/ (r.pc \in {"verdict", "done"} /\ r.act # "TX") =>
         ~ Due(r.in)

RunInv(r) ==
  /\ Made(r) /\ Found(r) /\ Fit(r) /\ Hops(r) /\ Passed(r) /\ Tailed(r) /\ Read(r)

Inv == Shape /\ Config /\ \A c \in CPU : RunInv(cpu[c])

(***************************************************************************)
(* The checksum.                                                           *)
(***************************************************************************)
LEMMA Div0 == ASSUME NEW c \in 0 .. Base - 1 PROVE c \div Base = 0 /\ c % Base = c
BY BaseAssumption, SMT
LEMMA Div1 == ASSUME NEW c \in Base .. 2 * Base - 1 PROVE c \div Base = 1 /\ c % Base = c - Base
BY BaseAssumption, SMT
LEMMA Div2 == ASSUME NEW c \in 2 * Base .. 3 * Base - 1 PROVE c \div Base = 2 /\ c % Base = c - 2 * Base
BY BaseAssumption, SMT
LEMMA Div3 == ASSUME NEW c \in 3 * Base .. 4 * Base - 1 PROVE c \div Base = 3 /\ c % Base = c - 3 * Base
BY BaseAssumption, SMT

\* One round: what it leaves of each range.
LEMMA Round ==
  ASSUME NEW c \in 0 .. 4 * Base - 1
  PROVE  /\ c < Base => FoldRound(c) = c
         /\ Base <= c /\ c < 2 * Base => FoldRound(c) = c - Base + 1
         /\ 2 * Base <= c /\ c < 3 * Base => FoldRound(c) = c - 2 * Base + 2
         /\ 3 * Base <= c => FoldRound(c) = c - 3 * Base + 3
<1>1. c < Base => c \div Base = 0 /\ c % Base = c
  BY BaseAssumption, Div0, SMT
<1>2. Base <= c /\ c < 2 * Base => c \div Base = 1 /\ c % Base = c - Base
  BY BaseAssumption, Div1, SMT
<1>3. 2 * Base <= c /\ c < 3 * Base => c \div Base = 2 /\ c % Base = c - 2 * Base
  BY BaseAssumption, Div2, SMT
<1>4. 3 * Base <= c => c \div Base = 3 /\ c % Base = c - 3 * Base
  BY BaseAssumption, Div3, SMT
<1> QED
  BY <1>1, <1>2, <1>3, <1>4, BaseAssumption, SMT DEF FoldRound

\* A sum keeps its residue modulo Base - 1 and is not made zero.
LEMMA FoldFits ==
  ASSUME NEW c \in 0 .. 4 * (Base - 1)
  PROVE  /\ Fold(c) \in 0 .. Base - 1
         /\ \/ c = Fold(c) \/ c = Fold(c) + (Base - 1)
            \/ c = Fold(c) + 2 * (Base - 1) \/ c = Fold(c) + 3 * (Base - 1)
         /\ Fold(c) = 0 <=> c = 0
<1> DEFINE d == FoldRound(c)  e == FoldRound(d)  f == FoldRound(e)
           Folds(x, y) ==
             \/ x = y \/ x = y + (Base - 1)
             \/ x = y + 2 * (Base - 1) \/ x = y + 3 * (Base - 1)
<1>1. d \in 0 .. Base + 1 /\ Folds(c, d) /\ (d = 0 <=> c = 0)
  BY Round, BaseAssumption, SMT
<1>2. e \in 0 .. Base /\ (e = d \/ e = d - (Base - 1)) /\ (e = 0 <=> d = 0)
  <2> HIDE DEF d
  <2> QED  BY <1>1, Round, BaseAssumption, SMT
<1>3. f \in 0 .. Base - 1 /\ (f = e \/ f = e - (Base - 1)) /\ (f = 0 <=> e = 0)
  <2> HIDE DEF d, e
  <2> QED  BY <1>2, Round, BaseAssumption, SMT
<1>4. Fold(c) = f
  <2>1. FoldRound(f) = f
    <3> HIDE DEF f
    <3> QED  BY <1>3, Round, BaseAssumption, SMT
  <2> QED  BY <2>1 DEF Fold
<1> HIDE DEF d, e, f
<1> QED
  BY <1>1, <1>2, <1>3, <1>4, BaseAssumption, SMT

\* The checksum of RFC 1071: with it in place a header folds to all ones.
LEMMA ChecksumVerifies ==
  ASSUME NEW s \in 0 .. 3 * (Base - 1)
  PROVE  /\ Csum(s) \in 0 .. Base - 1
         /\ Fold(s + Csum(s)) = Base - 1
<1>1. Fold(s) \in 0 .. Base - 1 /\ Csum(s) = (Base - 1) - Fold(s)
  BY FoldFits, Div0, BaseAssumption, SMT DEF Csum
<1>2. s + Csum(s) \in 0 .. 4 * (Base - 1) /\ s + Csum(s) > 0
  BY <1>1, FoldFits, BaseAssumption, SMT
<1>3. /\ s = Fold(s) \/ s = Fold(s) + (Base - 1)
         \/ s = Fold(s) + 2 * (Base - 1) \/ s = Fold(s) + 3 * (Base - 1)
  BY FoldFits, BaseAssumption, SMT
<1> DEFINE t == s + Csum(s)
<1>4. \/ t = Base - 1 \/ t = 2 * (Base - 1) \/ t = 3 * (Base - 1) \/ t = 4 * (Base - 1)
  BY <1>1, <1>3, BaseAssumption, SMT
<1>5. /\ Fold(t) \in 0 .. Base - 1 /\ Fold(t) # 0
      /\ t = Fold(t) \/ t = Fold(t) + (Base - 1)
         \/ t = Fold(t) + 2 * (Base - 1) \/ t = Fold(t) + 3 * (Base - 1)
  <2> HIDE DEF t
  <2>1. t \in 0 .. 4 * (Base - 1) /\ t > 0
    BY <1>2 DEF t
  <2> QED  BY <2>1, FoldFits, BaseAssumption, SMT
<1> HIDE DEF t
<1>6. Fold(t) = Base - 1
  BY <1>4, <1>5, BaseAssumption, SMT
<1> QED
  BY <1>1, <1>6, BaseAssumption, SMT DEF t

(***************************************************************************)
(* What the rewriting leaves of each field.                                *)
(***************************************************************************)
LEMMA InnerIpFields ==
  ASSUME NEW f, IsFrame(f), NEW e
  PROVE  /\ IsFrame(InnerIp(f, e))
         /\ \A x \in FrameFields \ {"idmac"} : InnerIp(f, e)[x] = f[x]
         /\ InnerIp(f, e).idmac = e.mac
BY DEF IsFrame, FrameFields, InnerIp

LEMMA InnerArpFields ==
  ASSUME NEW f, IsFrame(f), NEW e
  PROVE  LET g == InnerArp(f, e)
         IN  /\ IsFrame(g)
             /\ \A x \in FrameFields \ {"op", "tha", "sha", "isip", "idip"} : g[x] = f[x]
             /\ g.op = "reply" /\ g.tha = f.sha /\ g.sha = e.mac
             /\ g.isip = f.idip /\ g.idip = f.isip
BY DEF IsFrame, FrameFields, InnerArp

LEMMA InnerKeeps ==
  ASSUME NEW f, IsFrame(f), NEW e
  PROVE  LET g == Inner(f, e)
         IN  IsFrame(g) /\ g.itype = f.itype /\ g.ttl = f.ttl /\ g.tail = f.tail
<1> DEFINE g == Inner(f, e)
<1>1. CASE f.itype = "ip"
  <2>1. g = InnerIp(f, e)
    BY <1>1 DEF Inner
  <2> HIDE DEF g
  <2>2. IsFrame(g) /\ \A x \in FrameFields \ {"idmac"} : g[x] = f[x]
    BY <2>1, InnerIpFields
  <2> QED  BY <2>2 DEF FrameFields, g
<1>2. CASE f.itype # "ip"
  <2>1. g = InnerArp(f, e)
    BY <1>2 DEF Inner
  <2> HIDE DEF g
  <2>2. /\ IsFrame(g)
        /\ \A x \in FrameFields \ {"op", "tha", "sha", "isip", "idip"} : g[x] = f[x]
    BY <2>1, InnerArpFields
  <2> QED  BY <2>2 DEF FrameFields, g
<1> QED
  BY <1>1, <1>2

LEMMA SetAddressesFields ==
  ASSUME NEW f, IsFrame(f), f.ttl > 0,
         NEW src \in 0 .. Base - 1, NEW dst \in 0 .. Base - 1
  PROVE  LET g == SetAddresses(f, src, dst)
         IN  /\ IsFrame(g)
             /\ \A x \in FrameFields \ {"ttl", "sip", "dip", "check"} : g[x] = f[x]
             /\ g.ttl = f.ttl - 1 /\ g.sip = src /\ g.dip = dst
             /\ g.check = Csum((f.ttl - 1) + src + dst)
             /\ Verifies(g)
<1>1. (f.ttl + Base - 1) % Base = f.ttl - 1
  BY Div1, BaseAssumption, SMT DEF IsFrame
<1> DEFINE h == [f EXCEPT !.ttl = f.ttl - 1, !.sip = src, !.dip = dst]
           g == SetAddresses(f, src, dst)
<1>2. /\ h = [x \in FrameFields |-> h[x]]
      /\ \A x \in FrameFields \ {"ttl", "sip", "dip"} : h[x] = f[x]
      /\ h.ttl = f.ttl - 1 /\ h.sip = src /\ h.dip = dst
  BY DEF IsFrame, FrameFields
<1>3. g = [h EXCEPT !.check = Csum(HeaderSum(h))]
  BY <1>1 DEF SetAddresses
<1> HIDE DEF h
<1>4. HeaderSum(h) = (f.ttl - 1) + src + dst
  BY <1>2 DEF HeaderSum
<1> DEFINE n == (f.ttl - 1) + src + dst
<1>5. /\ g = [x \in FrameFields |-> g[x]]
      /\ \A x \in FrameFields \ {"check"} : g[x] = h[x]
      /\ g.check = Csum(n)
  BY <1>2, <1>3, <1>4 DEF FrameFields
<1> HIDE DEF g
<1>6. n \in 0 .. 3 * (Base - 1)
  BY BaseAssumption, SMT DEF IsFrame
<1>7. Fold(n + Csum(n)) = Base - 1
  <2> HIDE DEF n
  <2> QED  BY <1>6, ChecksumVerifies
<1>8. HeaderSum(g) = n /\ g.check = Csum(n)
  BY <1>2, <1>5 DEF HeaderSum, FrameFields
<1>9. Verifies(g)
  BY <1>7, <1>8 DEF Verifies
<1>10. /\ \A x \in FrameFields \ {"ttl", "sip", "dip", "check"} : g[x] = f[x]
       /\ g.ttl = f.ttl - 1 /\ g.sip = src /\ g.dip = dst
  BY <1>2, <1>5 DEF FrameFields
<1>11. IsFrame(g)
  <2>1. g.fits = f.fits
    BY <1>10 DEF FrameFields
  <2>2. f.ttl - 1 \in 0 .. Base - 1
    BY BaseAssumption, SMT DEF IsFrame
  <2> QED  BY <1>5, <1>10, <2>1, <2>2 DEF IsFrame
<1> QED
  BY <1>5, <1>9, <1>10, <1>11 DEF g

LEMMA OuterFields ==
  ASSUME NEW f, IsFrame(f), f.ttl > 0, NEW e \in Endpoint
  PROVE  LET g == Outer(f, e)
         IN  /\ IsFrame(g) /\ Verifies(g)
             /\ g.ttl = f.ttl - 1 /\ g.sip = f.dip /\ g.smac = f.dmac
             /\ \A x \in FrameFields \ {"ttl", "sip", "dip", "check", "smac", "dmac",
                                         "idmac", "ismac"} : g[x] = f[x]
             /\ f.itype = "ip" =>
                  /\ g.dip = e.hip /\ g.dmac = e.hmac
                  /\ g.idmac = f.idmac /\ g.ismac = f.ismac
                  /\ g.check = Csum((f.ttl - 1) + f.dip + e.hip)
             /\ f.itype # "ip" =>
                  /\ g.dip = f.sip /\ g.dmac = f.smac
                  /\ g.idmac = f.ismac /\ g.ismac = e.mac
                  /\ g.check = Csum((f.ttl - 1) + f.dip + f.sip)
<1> DEFINE dst == IF f.itype = "ip" THEN e.hip ELSE f.sip
           h == SetAddresses(f, f.dip, dst)
           g == Outer(f, e)
<1>1. f.dip \in 0 .. Base - 1 /\ dst \in 0 .. Base - 1
  BY EndpointAssumption DEF IsFrame
<1>2. /\ IsFrame(h) /\ Verifies(h)
      /\ \A x \in FrameFields \ {"ttl", "sip", "dip", "check"} : h[x] = f[x]
      /\ h.ttl = f.ttl - 1 /\ h.sip = f.dip /\ h.dip = dst
      /\ h.check = Csum((f.ttl - 1) + f.dip + dst)
  BY <1>1, SetAddressesFields
<1>3. g = IF f.itype = "ip" THEN [h EXCEPT !.smac = f.dmac, !.dmac = e.hmac]
          ELSE [h EXCEPT !.idmac = f.ismac, !.ismac = e.mac,
                         !.smac = f.dmac, !.dmac = f.smac]
  BY DEF Outer, OuterIp, OuterArp
<1> HIDE DEF h, g
<1>4. /\ g = [x \in FrameFields |-> g[x]]
      /\ g.smac = f.dmac
      /\ \A x \in FrameFields \ {"smac", "dmac", "idmac", "ismac"} : g[x] = h[x]
      /\ f.itype = "ip" => g.dmac = e.hmac /\ g.idmac = h.idmac /\ g.ismac = h.ismac
      /\ f.itype # "ip" => g.dmac = f.smac /\ g.idmac = f.ismac /\ g.ismac = e.mac
  BY <1>2, <1>3 DEF IsFrame, FrameFields
<1>5. /\ g.ttl = h.ttl /\ g.sip = h.sip /\ g.dip = h.dip /\ g.check = h.check
      /\ g.fits = h.fits /\ h.idmac = f.idmac /\ h.ismac = f.ismac
  BY <1>2, <1>4 DEF FrameFields
<1>6. IsFrame(g) /\ Verifies(g)
  BY <1>2, <1>4, <1>5 DEF IsFrame, Verifies, HeaderSum
<1>7. \A x \in FrameFields \ {"ttl", "sip", "dip", "check", "smac", "dmac", "idmac", "ismac"} :
        g[x] = f[x]
  BY <1>2, <1>4
<1> QED
  BY <1>2, <1>4, <1>5, <1>6, <1>7 DEF g

LEMMA AgreeInner ==
  ASSUME NEW f, NEW g, IsFrame(f), IsFrame(g), Agree(f, g), NEW e
  PROVE  Agree(Inner(f, e), Inner(g, e)) /\ IsFrame(Inner(f, e))
<1>1. \A x \in FrameFields \ {"tail"} : f[x] = g[x]
  BY DEF Agree
<1>2. f.itype = g.itype /\ f.sha = g.sha /\ f.isip = g.isip /\ f.idip = g.idip
  BY <1>1 DEF FrameFields
<1> DEFINE a == Inner(f, e)  b == Inner(g, e)
<1>3. CASE f.itype = "ip"
  <2>1. a = InnerIp(f, e) /\ b = InnerIp(g, e)
    BY <1>2, <1>3 DEF Inner
  <2> HIDE DEF a, b
  <2>2. /\ IsFrame(a) /\ a.idmac = e.mac
        /\ \A x \in FrameFields \ {"idmac"} : a[x] = f[x]
    BY <2>1, InnerIpFields
  <2>3. b.idmac = e.mac /\ \A x \in FrameFields \ {"idmac"} : b[x] = g[x]
    BY <2>1, InnerIpFields
  <2>4. \A x \in FrameFields \ {"tail"} : a[x] = b[x]
    BY <1>1, <2>2, <2>3
  <2> QED  BY <2>2, <2>4 DEF Agree, a, b
<1>4. CASE f.itype # "ip"
  <2>1. a = InnerArp(f, e) /\ b = InnerArp(g, e)
    BY <1>2, <1>4 DEF Inner
  <2> HIDE DEF a, b
  <2> DEFINE Changed == {"op", "tha", "sha", "isip", "idip"}
  <2>2. /\ IsFrame(a) /\ a.op = "reply" /\ a.tha = f.sha /\ a.sha = e.mac
        /\ a.isip = f.idip /\ a.idip = f.isip
        /\ \A x \in FrameFields \ Changed : a[x] = f[x]
    BY <2>1, InnerArpFields
  <2>3. /\ b.op = "reply" /\ b.tha = g.sha /\ b.sha = e.mac
        /\ b.isip = g.idip /\ b.idip = g.isip
        /\ \A x \in FrameFields \ Changed : b[x] = g[x]
    BY <2>1, InnerArpFields
  <2>4. \A x \in FrameFields \ {"tail"} : a[x] = b[x]
    BY <1>1, <1>2, <2>2, <2>3
  <2> QED  BY <2>2, <2>4 DEF Agree, a, b
<1> QED
  BY <1>3, <1>4

LEMMA AgreeOuter ==
  ASSUME NEW f, NEW g, IsFrame(f), IsFrame(g), Agree(f, g), g.ttl > 0,
         NEW e \in Endpoint
  PROVE  Agree(Outer(f, e), Outer(g, e)) /\ IsFrame(Outer(f, e))
<1>1. \A x \in FrameFields \ {"tail"} : f[x] = g[x]
  BY DEF Agree
<1>2. /\ f.itype = g.itype /\ f.ttl = g.ttl /\ f.sip = g.sip /\ f.dip = g.dip
      /\ f.smac = g.smac /\ f.dmac = g.dmac /\ f.idmac = g.idmac /\ f.ismac = g.ismac
  BY <1>1 DEF FrameFields
<1> DEFINE a == Outer(f, e)  b == Outer(g, e)
<1>3. /\ a.ttl = b.ttl /\ a.sip = b.sip /\ a.smac = b.smac /\ a.dip = b.dip /\ a.dmac = b.dmac
      /\ a.idmac = b.idmac /\ a.ismac = b.ismac /\ a.check = b.check
  BY <1>2, OuterFields
<1>4. \A x \in FrameFields \ {"ttl", "sip", "dip", "check", "smac", "dmac", "idmac", "ismac"} :
        a[x] = f[x] /\ b[x] = g[x]
  BY <1>2, OuterFields
<1> HIDE DEF a, b
<1>5. \A x \in FrameFields \ {"tail"} : a[x] = b[x]
  BY <1>1, <1>3, <1>4
<1> QED
  BY <1>2, <1>5, OuterFields DEF Agree, a, b

\* What is known of a frame that has been rewritten from g.
LEMMA Outcome ==
  ASSUME NEW f, NEW g, IsFrame(f), IsFrame(g), g.ttl > 0,
         NEW d \in Endpoint, NEW e \in Endpoint,
         Agree(f, Outer(Inner(g, d), e))
  PROVE  /\ Verifies(f)
         /\ f.ttl = g.ttl - 1 /\ f.sip = g.dip /\ f.smac = g.dmac
         /\ f.itype = g.itype /\ f.vni = g.vni /\ f.iproto = g.iproto
         /\ g.itype = "ip" =>
              /\ f.dip = e.hip /\ f.dmac = e.hmac /\ f.idmac = d.mac
              /\ f.isip = g.isip /\ f.idip = g.idip /\ f.ismac = g.ismac
         /\ g.itype # "ip" =>
              /\ f.dip = g.sip /\ f.dmac = g.smac /\ f.idmac = g.ismac
              /\ f.ismac = e.mac /\ f.sha = d.mac /\ f.tha = g.sha /\ f.op = "reply"
              /\ f.isip = g.idip /\ f.idip = g.isip
<1> DEFINE i == Inner(g, d)  o == Outer(i, e)
<1>1. /\ IsFrame(i)
      /\ i.ttl = g.ttl /\ i.sip = g.sip /\ i.dip = g.dip /\ i.smac = g.smac /\ i.dmac = g.dmac
      /\ i.itype = g.itype /\ i.vni = g.vni /\ i.iproto = g.iproto /\ i.ismac = g.ismac
      /\ g.itype = "ip" => i.idmac = d.mac /\ i.isip = g.isip /\ i.idip = g.idip
      /\ g.itype # "ip" => /\ i.op = "reply" /\ i.tha = g.sha /\ i.sha = d.mac
                            /\ i.isip = g.idip /\ i.idip = g.isip
  <2>1. CASE g.itype = "ip"
    <3>1. i = InnerIp(g, d)
      BY <2>1 DEF Inner
    <3> HIDE DEF i
    <3>2. IsFrame(i) /\ i.idmac = d.mac /\ \A x \in FrameFields \ {"idmac"} : i[x] = g[x]
      BY <3>1, InnerIpFields
    <3> QED  BY <2>1, <3>2 DEF FrameFields
  <2>2. CASE g.itype # "ip"
    <3>1. i = InnerArp(g, d)
      BY <2>2 DEF Inner
    <3> HIDE DEF i
    <3>2. /\ IsFrame(i) /\ i.op = "reply" /\ i.tha = g.sha /\ i.sha = d.mac
          /\ i.isip = g.idip /\ i.idip = g.isip
          /\ \A x \in FrameFields \ {"op", "tha", "sha", "isip", "idip"} : i[x] = g[x]
      BY <3>1, InnerArpFields
    <3> QED  BY <2>2, <3>2 DEF FrameFields
  <2> QED  BY <2>1, <2>2
<1> HIDE DEF i
<1>2. /\ IsFrame(o) /\ Verifies(o)
      /\ o.ttl = i.ttl - 1 /\ o.sip = i.dip /\ o.smac = i.dmac
      /\ o.itype = i.itype /\ o.vni = i.vni /\ o.iproto = i.iproto
      /\ o.isip = i.isip /\ o.idip = i.idip /\ o.sha = i.sha /\ o.tha = i.tha /\ o.op = i.op
      /\ i.itype = "ip" => o.dip = e.hip /\ o.dmac = e.hmac /\ o.idmac = i.idmac /\ o.ismac = i.ismac
      /\ i.itype # "ip" => /\ o.dip = i.sip /\ o.dmac = i.smac
                            /\ o.idmac = i.ismac /\ o.ismac = e.mac
  <2>1. i.ttl > 0
    BY <1>1
  <2> QED  BY <1>1, <2>1, OuterFields DEF FrameFields
<1> HIDE DEF o
<1>3. Agree(f, o)
  BY DEF o, i
<1>4. /\ f.ttl = o.ttl /\ f.sip = o.sip /\ f.dip = o.dip /\ f.smac = o.smac /\ f.dmac = o.dmac
      /\ f.check = o.check /\ f.itype = o.itype /\ f.vni = o.vni /\ f.iproto = o.iproto
      /\ f.idmac = o.idmac /\ f.ismac = o.ismac /\ f.isip = o.isip /\ f.idip = o.idip
      /\ f.sha = o.sha /\ f.tha = o.tha /\ f.op = o.op
  BY <1>3 DEF Agree, FrameFields
<1>5. Verifies(f)
  BY <1>2, <1>4 DEF Verifies, HeaderSum
<1> QED
  BY <1>1, <1>2, <1>4, <1>5

(***************************************************************************)
(* What a step does to a run.                                              *)
(***************************************************************************)
\* The frame stays as it is, and so does what the run remembers.
Same(r, s) ==
  /\ s.f = r.f /\ s.in = r.in /\ s.q = r.q /\ s.tip = r.tip /\ s.grown = r.grown
  /\ s.quiet = r.quiet /\ s.sends = r.sends /\ s.ttl = r.ttl

LEMMA Goes ==
  ASSUME NEW r, IsRun(r), r.pc # "idle", NEW p \in Step \ {"idle", "inner", "outer"}
  PROVE  LET s == [r EXCEPT !.pc = p]
         IN  IsRun(s) /\ Same(r, s) /\ s.pc = p /\ s.act = r.act /\ s.ent = r.ent
BY DEF IsRun, RunFields, Same

LEMMA Answers ==
  ASSUME NEW r, IsRun(r), r.pc # "idle", NEW a \in Verdict \cup {"EP_NOT_FOUND"}
  PROVE  LET s == [r EXCEPT !.pc = "verdict", !.act = a]
         IN  IsRun(s) /\ Same(r, s) /\ s.pc = "verdict" /\ s.act = a
BY DEF IsRun, RunFields, Same, Step

LEMMA Ends ==
  ASSUME NEW r, IsRun(r), r.pc # "idle", NEW a \in Verdict \cup {"EP_NOT_FOUND"}
  PROVE  LET s == [r EXCEPT !.pc = "done", !.act = a]
         IN  IsRun(s) /\ Same(r, s) /\ s.pc = "done" /\ s.act = a
BY DEF IsRun, RunFields, Same, Step

LEMMA PicksEntrance ==
  ASSUME NEW r, IsRun(r), r.pc # "idle", NEW i
  PROVE  LET s == [r EXCEPT !.pc = "ip", !.ent = i]
         IN  IsRun(s) /\ Same(r, s) /\ s.pc = "ip" /\ s.ent = i
BY DEF IsRun, RunFields, Same, Step

LEMMA PicksSlot ==
  ASSUME NEW r, IsRun(r), r.pc # "idle", NEW e \in Slot
  PROVE  LET s == [r EXCEPT !.pc = "inner", !.ep = e]
         IN  IsRun(s) /\ Same(r, s) /\ s.pc = "inner" /\ s.ep = e
BY DEF IsRun, RunFields, Same, Step

LEMMA AppendsTail ==
  ASSUME NEW r, IsRun(r), r.pc = "hints", NEW h
  PROVE  LET s == [r EXCEPT !.pc = "verdict", !.f.tail = h]
         IN  /\ IsRun(s) /\ s.pc = "verdict" /\ s.act = r.act
             /\ Agree(s.f, r.f) /\ s.f.tail = h
             /\ s.in = r.in /\ s.quiet = r.quiet /\ s.sends = r.sends /\ s.ttl = r.ttl
<1> DEFINE f == [r.f EXCEPT !.tail = h]
<1>1. IsFrame(f) /\ Agree(f, r.f) /\ f.tail = h
  BY DEF IsRun, IsFrame, FrameFields, Agree
<1> HIDE DEF f
<1>2. [r EXCEPT !.pc = "verdict", !.f.tail = h] = [r EXCEPT !.pc = "verdict", !.f = f]
  BY DEF f, IsRun, RunFields
<1> QED
  BY <1>1, <1>2 DEF IsRun, RunFields, Step

LEMMA Grows ==
  ASSUME NEW f, IsFrame(f), NEW grown
  PROVE  LET g == Grow(f, grown)
         IN  IsFrame(g) /\ Agree(g, f) /\ g.tail \in {f.tail, Tail0}
BY DEF IsFrame, FrameFields, Agree, Grow, Tail0

(***************************************************************************)
(* A step of a run leaves the maps and the other runs alone.               *)
(***************************************************************************)
LEMMA Carries ==
  ASSUME UNCHANGED <<maps, appendTail>>, NEW c \in CPU, RunInv(cpu'[c])
  PROVE  RunInv(cpu[c])'
<1> USE DEF maps, config
<1>1. Made(cpu[c])'
  BY DEF RunInv, Made, Reading, Sending, FrameKey
<1>2. Found(cpu[c])'
  BY DEF RunInv, Found, Sending, Known, FrameKey
<1>3. Fit(cpu[c])' /\ Hops(cpu[c])'
  BY DEF RunInv, Fit, Hops, Rewriting, Sending
<1>4. Passed(cpu[c])'
  BY DEF RunInv, Passed, OverlayPort
<1>5. Tailed(cpu[c])'
  BY DEF RunInv, Tailed, Sending
<1>6. Read(cpu[c])'
  BY DEF RunInv, Read, Sending, Matches, Due, ForThisNode, OverlayPort, Known, FrameKey,
         Routable, Permitted, SgKey, Covers, Answerable
<1> QED
  BY <1>1, <1>2, <1>3, <1>4, <1>5, <1>6 DEF RunInv

LEMMA RunStep ==
  ASSUME Inv, NEW c \in CPU, NEW s, IsRun(s), RunInv(s),
         cpu' = [cpu EXCEPT ![c] = s],
         s.pc # "idle" /\ s.quiet => writing = <<>>,
         UNCHANGED <<maps, appendTail>>, notAddTail' \in BOOLEAN
  PROVE  Inv'
<1>1. /\ cpu' = [d \in CPU |-> cpu'[d]]
      /\ \A d \in CPU : cpu'[d] = s \/ cpu'[d] = cpu[d]
      /\ \A d \in CPU : cpu'[d].pc # "idle" /\ cpu'[d].quiet => writing = <<>>
  BY DEF Inv, Shape, Config
<1>2. Shape'
  <2>1. \A d \in CPU : IsRun(cpu'[d])
    BY <1>1 DEF Inv, Shape
  <2>2. \A d \in CPU : IsRun(cpu[d])'
    BY <2>1 DEF IsRun
  <2> QED  BY <1>1, <2>2 DEF Inv, Shape, MapsShape, maps, config
<1>3. Config'
  BY <1>1 DEF Inv, Config, Listed, maps, config
<1>4. \A d \in CPU : RunInv(cpu[d])'
  <2>1. \A d \in CPU : RunInv(cpu'[d])
    BY <1>1 DEF Inv
  <2> QED  BY <2>1, Carries
<1> QED
  BY <1>2, <1>3, <1>4 DEF Inv

(***************************************************************************)
(* What the program reads of a frame, before it rewrites it.               *)
(***************************************************************************)
LEMMA ReadsAlike ==
  ASSUME NEW f, NEW g, Agree(f, g)
  PROVE  /\ f.fits = g.fits /\ f.etype = g.etype /\ f.dmac = g.dmac /\ f.ttl = g.ttl
         /\ f.itype = g.itype /\ f.iproto = g.iproto /\ f.iport = g.iport /\ f.sip = g.sip
         /\ FrameKey(f) = FrameKey(g)
         /\ \A d, p : SgKey(f, d, p) = SgKey(g, d, p)
         /\ \A e : IpAct(f, e) = IpAct(g, e)
<1>1. \A x \in FrameFields \ {"tail"} : f[x] = g[x]
  BY DEF Agree
<1>2. /\ f.fits = g.fits /\ f.etype = g.etype /\ f.dmac = g.dmac /\ f.ttl = g.ttl
      /\ f.itype = g.itype /\ f.iproto = g.iproto /\ f.iport = g.iport /\ f.dip = g.dip
      /\ f.proto = g.proto /\ f.port = g.port /\ f.options = g.options /\ f.op = g.op
      /\ f.vni = g.vni /\ f.idip = g.idip /\ f.sip = g.sip
  BY <1>1 DEF FrameFields
<1> QED
  BY <1>2 DEF FrameKey, SgKey, IpAct, UdpAct, OverlayAct, InnerEthAct, Has

\* A frame for a tenant's endpoint: all that IpAct looks at is in order.
Tunnelled(f, e) ==
  /\ f.dip = e.ip /\ f.ttl # 0 /\ f.proto = "udp" /\ f.port = OverlayPort
  /\ f.port = "geneve" => f.options
  /\ (f.itype = "ip" /\ Has(f, InnerNet)) \/ Answerable(f)

LEMMA IpActs ==
  ASSUME NEW f, IsFrame(f), NEW e
  PROVE  LET a == IpAct(f, e)
         IN  /\ a \in {"ABORTED", "DROP", "PASS", "egress", "lookup"}
             /\ a = "PASS" => f.proto # "udp" \/ f.port # OverlayPort
             /\ a \in {"egress", "lookup"} <=> Tunnelled(f, e)
             /\ a = "egress" => f.itype = "ip"
             /\ a = "lookup" => Answerable(f)
<1> DEFINE inner == InnerEthAct(f)
<1>1. /\ Has(f, InnerNet) => Has(f, InnerEth)
      /\ Has(f, InnerTransport) => Has(f, InnerNet)
      /\ Has(f, InnerEth) => Has(f, Overlay)
      /\ Has(f, Overlay) => Has(f, Udp)
      /\ Has(f, Udp) => Has(f, IPv4)
  BY DEF IsFrame, Has, IPv4, Udp, Overlay, InnerEth, InnerNet, InnerTransport
<1>2. /\ inner \in {"ABORTED", "DROP", "egress", "lookup"}
      /\ inner = "egress" <=> f.itype = "ip" /\ Has(f, InnerNet)
      /\ inner = "lookup" <=> Answerable(f)
  BY <1>1 DEF InnerEthAct, Answerable
<1>3. inner \in {"egress", "lookup"} => Has(f, InnerEth)
  BY <1>1, <1>2 DEF Answerable
<1> HIDE DEF inner
<1> QED
  BY <1>1, <1>2, <1>3 DEF IpAct, UdpAct, OverlayAct, Tunnelled, inner

LEMMA DueFrame ==
  ASSUME NEW f, IsFrame(f), Due(f)
  PROVE  /\ Has(f, Eth) /\ f.etype = "ip" /\ Known(f)
         /\ \E i \in 1 .. num :
              /\ entrances[i] = [mac |-> f.dmac, ip |-> f.dip]
              /\ Tunnelled(f, entrances[i])
BY DEF IsFrame, Due, ForThisNode, Tunnelled, Routable, Answerable, Has,
       Eth, InnerNet, InnerTransport

\* Entrances of a list that is complete differ in their MACs.
LEMMA EntranceOfMac ==
  ASSUME Config, writing = <<>>, num \in Nat,
         NEW i \in 1 .. num, NEW j \in 1 .. num, entrances[i].mac = entrances[j].mac
  PROVE  /\ entrances[i] = entrances[j]
         /\ entrances[i] = [mac |-> entrances[i].mac, ip |-> entrances[i].ip]
<1>1. PICK l \in EntranceList \cup {FirstList} :
        num = Len(l) /\ \A k \in 1 .. num : entrances[k] = l[k]
  BY DEF Config, Listed
<1>2. DOMAIN l = 1 .. num
  <2> DEFINE S == {l[k] : k \in DOMAIN l}
  <2>1. l \in Seq(S)
    BY ListsAssumption
  <2> HIDE DEF S
  <2> QED  BY <1>1, <2>1
<1>3. \A a, b \in DOMAIN l :
        /\ l[a] = [mac |-> l[a].mac, ip |-> l[a].ip]
        /\ l[a].mac = l[b].mac => l[a] = l[b]
  BY ListsAssumption, Zenon
<1>4. entrances[i] = l[i] /\ entrances[j] = l[j]
  BY <1>1
<1>5. l[i] = l[j] /\ l[i] = [mac |-> l[i].mac, ip |-> l[i].ip]
  BY <1>2, <1>3, <1>4, Zenon
<1> QED
  BY <1>4, <1>5, Zenon

(***************************************************************************)
(* Each step of a run keeps its invariant.                                 *)
(***************************************************************************)
Stands(s) == IsRun(s) /\ RunInv(s)

\* While the frame is only read, what was made of it and where it has been stays.
LEMMA ReadsOn ==
  ASSUME NEW r, Stands(r), Reading(r), NEW s, IsRun(s), Same(r, s),
         s.pc \notin {"idle", "outer"}, ~ Sending(s)
  PROVE  /\ Made(s) /\ Hops(s) /\ Tailed(s)
         /\ r.pc # "idle" /\ IsFrame(r.f) /\ IsFrame(r.in) /\ Agree(r.f, r.in)
<1>1. r.pc # "idle" /\ IsFrame(r.f) /\ IsFrame(r.in) /\ Agree(r.f, r.in)
  BY DEF Stands, IsRun, RunInv, Made, Reading
<1>2. Made(s)
  BY <1>1 DEF Made, Same
<1>3. Hops(s)
  BY <1>1 DEF Stands, RunInv, Hops, Same
<1>4. ~ Sending(r)
  BY DEF Reading, Sending
<1>5. Tailed(s)
  BY <1>1, <1>4 DEF Stands, RunInv, Tailed, Same, Sending
<1> QED
  BY <1>1, <1>2, <1>3, <1>5

\* A verdict other than to send needs no more than these two facts.
LEMMA GivesUp ==
  ASSUME NEW r, Stands(r), Reading(r), NEW a \in {"ABORTED", "DROP", "PASS", "EP_NOT_FOUND"},
         a = "PASS" => r.in.etype # "ip" \/ r.in.proto # "udp" \/ r.in.port # OverlayPort,
         r.quiet /\ ~ appendTail => ~ Due(r.in)
  PROVE  Stands([r EXCEPT !.pc = "verdict", !.act = a])
<1> DEFINE s == [r EXCEPT !.pc = "verdict", !.act = a]
<1>1. IsRun(s) /\ Same(r, s) /\ s.pc = "verdict" /\ s.act = a
  <2>1. r.pc # "idle" /\ IsRun(r)
    BY DEF Reading, Stands
  <2>2. a \in Verdict \cup {"EP_NOT_FOUND"}
    BY DEF Verdict
  <2> QED  BY <2>1, <2>2, Answers
<1> HIDE DEF s
<1>2. ~ Sending(s)
  BY <1>1 DEF Sending
<1>3. Made(s) /\ Hops(s) /\ Tailed(s)
  BY <1>1, <1>2, ReadsOn
<1>4. Found(s) /\ Fit(s)
  BY <1>1, <1>2 DEF Found, Fit, Rewriting
<1>5. Passed(s)
  BY <1>1 DEF Passed, Same
<1>6. Read(s)
  BY <1>1, <1>2 DEF Read, Same
<1>7. Stands(s)
  BY <1>1, <1>3, <1>4, <1>5, <1>6 DEF Stands, RunInv
<1> QED
  BY <1>7 DEF s

\* The other way on: what remains to be shown of a step that reads on.
LEMMA GoesOn ==
  ASSUME NEW r, Stands(r), Reading(r), NEW s, IsRun(s), Same(r, s),
         s.pc \in {"ip", "egress", "ingress", "lookup", "inner"},
         Found(s), Fit(s), Read(s)
  PROVE  Stands(s)
<1>1. Made(s) /\ Hops(s) /\ Tailed(s)
  BY ReadsOn DEF Sending
<1>2. Passed(s)
  BY DEF Passed
<1> QED
  BY <1>1, <1>2 DEF Stands, RunInv

\* A step that moves the run of a CPU to one the invariant holds of.
Moves(c) ==
  \E s : /\ cpu' = [cpu EXCEPT ![c] = s]
         /\ Stands(s)
         /\ s.pc # "idle" /\ s.quiet => writing = <<>>

LEMMA RunsOn ==
  ASSUME Inv, NEW c \in CPU, cpu[c].pc # "idle", NEW s, Stands(s), s.quiet = cpu[c].quiet,
         cpu' = [cpu EXCEPT ![c] = s]
  PROVE  Moves(c)
BY DEF Moves, Inv, Config

LEMMA AnswerMoves ==
  ASSUME Inv, NEW c \in CPU, Reading(cpu[c]),
         NEW a \in {"ABORTED", "DROP", "PASS", "EP_NOT_FOUND"}, Answer(c, a),
         a = "PASS" => LET g == cpu[c].in
                       IN  g.etype # "ip" \/ g.proto # "udp" \/ g.port # OverlayPort,
         cpu[c].quiet /\ ~ appendTail => ~ Due(cpu[c].in)
  PROVE  Moves(c)
<1> DEFINE r == cpu[c]
           s == [r EXCEPT !.pc = "verdict", !.act = a]
<1>1. Stands(r) /\ r.pc # "idle"
  BY DEF Inv, Shape, Stands, Reading
<1>2. cpu' = [cpu EXCEPT ![c] = s]
  BY DEF Answer
<1>3. Stands(s)
  <2> HIDE DEF r
  <2> QED  BY <1>1, GivesUp DEF r
<1>4. s.quiet = r.quiet
  <2> HIDE DEF r
  <2> QED  BY <1>1 DEF Stands, IsRun, RunFields
<1> HIDE DEF s
<1> QED
  BY <1>1, <1>2, <1>3, <1>4, RunsOn

LEMMA EthStands ==
  ASSUME Inv, NEW c \in CPU, ProcessEth(c)
  PROVE  Moves(c)
<1> DEFINE r == cpu[c]
           Matching == {i \in 1 .. num : entrances[i].mac = r.f.dmac}
<1>1. Stands(r) /\ r.pc = "eth"
  BY DEF Inv, Shape, Stands, ProcessEth
<1> HIDE DEF r
<1>2. Reading(r) /\ r.pc # "idle"
  BY <1>1 DEF Reading
<1>3. IsFrame(r.f) /\ IsFrame(r.in) /\ Agree(r.f, r.in)
  BY <1>1, <1>2 DEF Stands, IsRun, RunInv, Made
<1>4. /\ Has(r.f, Eth) <=> Has(r.in, Eth)
      /\ r.f.etype = r.in.etype /\ r.f.dmac = r.in.dmac
  BY <1>3, ReadsAlike DEF Has
<1>5. Due(r.in) => Has(r.in, Eth) /\ r.in.etype = "ip" /\ Matching # {}
  <2> SUFFICES ASSUME Due(r.in)
               PROVE  Has(r.in, Eth) /\ r.in.etype = "ip" /\ Matching # {}
    OBVIOUS
  <2>1. Has(r.in, Eth) /\ r.in.etype = "ip"
    BY <1>3, DueFrame
  <2>2. PICK i \in 1 .. num : entrances[i] = [mac |-> r.in.dmac, ip |-> r.in.dip]
    BY <1>3, DueFrame
  <2>3. i \in Matching
    BY <1>4, <2>2
  <2> QED  BY <2>1, <2>3
<1>6. CASE ~ Has(r.f, Eth) /\ Answer(c, "ABORTED")
  BY <1>2, <1>4, <1>5, <1>6, AnswerMoves DEF r
<1>7. CASE Has(r.f, Eth) /\ r.f.etype # "ip" /\ Answer(c, "PASS")
  BY <1>2, <1>4, <1>5, <1>7, AnswerMoves DEF r
<1>8. CASE Matching = {} /\ Answer(c, "ABORTED")
  BY <1>2, <1>5, <1>8, AnswerMoves DEF r
<1>9. ASSUME Has(r.f, Eth), r.f.etype = "ip",
              NEW i \in Matching, \A j \in Matching : i <= j,
              cpu' = [cpu EXCEPT ![c].pc = "ip", ![c].ent = i]
      PROVE  Moves(c)
  <2> DEFINE s == [r EXCEPT !.pc = "ip", !.ent = i]
  <2>1. cpu' = [cpu EXCEPT ![c] = s]
    BY <1>9 DEF Inv, Shape, r
  <2>2. IsRun(s) /\ Same(r, s) /\ s.pc = "ip" /\ s.ent = i
    BY <1>1, <1>2, PicksEntrance DEF Stands
  <2> HIDE DEF s
  <2>3. Found(s) /\ Fit(s)
    BY <2>2 DEF Found, Fit, Rewriting, Sending
  <2>4. Matches(s) = Matching
    BY <1>4, <2>2 DEF Matches, Same
  <2>5. Read(s)
    BY <1>4, <1>9, <2>2, <2>4 DEF Read, Same, Sending
  <2>6. Stands(s)
    BY <1>1, <1>2, <2>2, <2>3, <2>5, GoesOn
  <2> QED  BY <1>2, <2>1, <2>2, <2>6, RunsOn DEF Same, r
<1> QED
  BY <1>6, <1>7, <1>8, <1>9 DEF ProcessEth, r

LEMMA IpStands ==
  ASSUME Inv, NEW c \in CPU, ProcessIp(c)
  PROVE  Moves(c)
<1> DEFINE r == cpu[c]
           e == entrances[r.ent]
           act == IpAct(r.in, e)
           s == [r EXCEPT !.pc = act]
<1>1. Stands(r) /\ r.pc = "ip"
  BY DEF Inv, Shape, Stands, ProcessIp
<1>2. IF IpAct(r.f, e) \in Verdict THEN Answer(c, IpAct(r.f, e))
                                    ELSE Goto(c, IpAct(r.f, e))
  BY DEF ProcessIp
<1> HIDE DEF r, e
<1>3. Reading(r) /\ r.pc # "idle"
  BY <1>1 DEF Reading
<1>4. IsFrame(r.f) /\ IsFrame(r.in) /\ Agree(r.f, r.in)
  BY <1>1, <1>3 DEF Stands, IsRun, RunInv, Made
<1>5. IF act \in Verdict THEN Answer(c, act) ELSE Goto(c, act)
  BY <1>2, <1>4, ReadsAlike
<1>6. /\ act \in {"ABORTED", "DROP", "PASS", "egress", "lookup"}
      /\ act = "PASS" => r.in.proto # "udp" \/ r.in.port # OverlayPort
      /\ act \in {"egress", "lookup"} <=> Tunnelled(r.in, e)
      /\ act = "egress" => r.in.itype = "ip"
      /\ act = "lookup" => Answerable(r.in)
  BY <1>4, IpActs
\* A quiet run judges by the one entrance that has the MAC of the frame.
<1>7. ASSUME r.quiet, ~ appendTail
      PROVE  /\ r.ent \in 1 .. num /\ e.mac = r.in.dmac /\ r.in.etype = "ip"
             /\ writing = <<>>
  BY <1>1, <1>3, <1>7 DEF Stands, RunInv, Read, Matches, Inv, Config, r, e
<1>8. ASSUME r.quiet, ~ appendTail, Due(r.in)
      PROVE  Tunnelled(r.in, e)
  <2>1. PICK i \in 1 .. num : /\ entrances[i] = [mac |-> r.in.dmac, ip |-> r.in.dip]
                              /\ Tunnelled(r.in, entrances[i])
    BY <1>4, <1>8, DueFrame
  <2>2. entrances[i].mac = r.in.dmac
    BY <2>1
  <2>3. Config /\ num \in Nat
    BY DEF Inv, Shape, MapsShape
  <2>4. /\ r.ent \in 1 .. num /\ writing = <<>>
        /\ entrances[r.ent].mac = entrances[i].mac
    BY <1>7, <1>8, <2>2 DEF e
  <2>5. entrances[i] = e
    BY <2>3, <2>4, EntranceOfMac DEF e
  <2> QED  BY <2>1, <2>5
<1>9. ASSUME r.quiet, ~ appendTail, Tunnelled(r.in, e)
      PROVE  ForThisNode(r.in) /\ (Has(r.in, InnerNet) \/ Answerable(r.in))
  <2>1. e = [mac |-> e.mac, ip |-> e.ip]
    BY <1>7, <1>9, EntranceOfMac DEF Inv, Shape, MapsShape, e
  <2>2. \E i \in 1 .. num : entrances[i] = [mac |-> r.in.dmac, ip |-> r.in.dip]
    BY <1>7, <1>9, <2>1 DEF Tunnelled, e
  <2>3. r.in.ttl > 0
    BY <1>4, <1>9 DEF Tunnelled, IsFrame
  <2> QED  BY <1>7, <1>9, <2>2, <2>3 DEF ForThisNode, Tunnelled
<1> HIDE DEF act
<1>10. CASE act \in {"ABORTED", "DROP", "PASS"}
  <2>1. Answer(c, act)
    BY <1>5, <1>10 DEF Verdict
  <2>2. r.quiet /\ ~ appendTail => ~ Due(r.in)
    BY <1>6, <1>8, <1>10
  <2> QED  BY <1>3, <1>6, <1>10, <2>1, <2>2, AnswerMoves DEF r
<1>11. CASE act \in {"egress", "lookup"}
  <2>1. cpu' = [cpu EXCEPT ![c] = s]
    BY <1>5, <1>11 DEF Goto, Verdict, r
  <2>2. IsRun(s) /\ Same(r, s) /\ s.pc = act
    BY <1>1, <1>3, <1>11, Goes DEF Stands, Step
  <2> HIDE DEF s
  <2>3. Found(s)
    BY <1>11, <2>2 DEF Found, Sending
  <2>4. Tunnelled(r.in, e) /\ r.in.ttl > 0
    BY <1>4, <1>6, <1>11 DEF Tunnelled, IsFrame
  <2>5. Fit(s)
    BY <1>6, <1>11, <2>2, <2>4 DEF Fit, Same, Answerable, Rewriting
  <2>6. Read(s)
    BY <1>6, <1>9, <1>11, <2>2, <2>4 DEF Read, Same, Sending, Answerable
  <2>7. Stands(s)
    BY <1>1, <1>3, <1>11, <2>2, <2>3, <2>5, <2>6, GoesOn
  <2> QED  BY <1>3, <2>1, <2>2, <2>7, RunsOn DEF Same, r
<1> QED
  BY <1>6, <1>10, <1>11

LEMMA EgressStands ==
  ASSUME Inv, NEW c \in CPU, CheckEgress(c)
  PROVE  Moves(c)
<1> DEFINE r == cpu[c]
           s == [r EXCEPT !.pc = "ingress"]
           k == SgKey(r.in, 0, EgressPort)
<1>1. Stands(r) /\ r.pc = "egress"
  BY DEF Inv, Shape, Stands, CheckEgress
<1>2. IF Permitted(SgKey(r.f, 0, EgressPort)) THEN Goto(c, "ingress") ELSE Answer(c, "DROP")
  BY DEF CheckEgress
<1> HIDE DEF r
<1>3. /\ Reading(r) /\ r.pc # "idle"
      /\ IsFrame(r.in) /\ Agree(r.f, r.in)
      /\ r.in.itype = "ip" /\ r.in.ttl > 0
  BY <1>1 DEF Reading, Stands, IsRun, RunInv, Made, Fit, Rewriting
<1>4. IF Permitted(k) THEN Goto(c, "ingress") ELSE Answer(c, "DROP")
  BY <1>2, <1>3, ReadsAlike
<1>5. CASE ~ Permitted(k)
  <2>1. ~ Due(r.in)
    BY <1>3, <1>5 DEF Due, Routable, Answerable
  <2> QED  BY <1>3, <1>4, <1>5, <2>1, AnswerMoves DEF r
<1>6. CASE Permitted(k)
  <2>1. cpu' = [cpu EXCEPT ![c] = s]
    BY <1>4, <1>6 DEF Goto, r
  <2>2. IsRun(s) /\ Same(r, s) /\ s.pc = "ingress"
    BY <1>1, <1>3, Goes DEF Stands, Step
  <2> HIDE DEF s
  <2>3. Found(s) /\ Fit(s)
    BY <1>3, <2>2 DEF Found, Sending, Fit, Same
  <2>4. Read(s)
    BY <1>1, <1>3, <1>6, <2>2 DEF Stands, RunInv, Read, Same, Sending
  <2>5. Stands(s)
    BY <1>1, <1>3, <2>2, <2>3, <2>4, GoesOn
  <2> QED  BY <1>3, <2>1, <2>2, <2>5, RunsOn DEF Same, r
<1> QED
  BY <1>5, <1>6

LEMMA IngressStands ==
  ASSUME Inv, NEW c \in CPU, CheckIngress(c)
  PROVE  Moves(c)
<1> DEFINE r == cpu[c]
           s == [r EXCEPT !.pc = "lookup"]
           k == SgKey(r.in, 1, r.in.iport)
           act == IF r.in.iproto \notin Transport THEN "lookup"
                  ELSE IF ~ Has(r.in, InnerTransport) THEN "ABORTED"
                  ELSE IF Permitted(k) THEN "lookup" ELSE "DROP"
<1>1. Stands(r) /\ r.pc = "ingress"
  BY DEF Inv, Shape, Stands, CheckIngress
<1>2. IF r.f.iproto \notin Transport THEN Goto(c, "lookup")
       ELSE IF ~ Has(r.f, InnerTransport) THEN Answer(c, "ABORTED")
       ELSE IF Permitted(SgKey(r.f, 1, r.f.iport)) THEN Goto(c, "lookup")
       ELSE Answer(c, "DROP")
  BY DEF CheckIngress
<1> HIDE DEF r
<1>3. /\ Reading(r) /\ r.pc # "idle"
      /\ IsFrame(r.in) /\ Agree(r.f, r.in)
      /\ r.in.itype = "ip" /\ r.in.ttl > 0
  BY <1>1 DEF Reading, Stands, IsRun, RunInv, Made, Fit, Rewriting
<1>4. /\ r.f.iproto = r.in.iproto /\ r.f.iport = r.in.iport
      /\ Has(r.f, InnerTransport) <=> Has(r.in, InnerTransport)
      /\ SgKey(r.f, 1, r.in.iport) = k
  BY <1>3, ReadsAlike DEF Has
<1>5. /\ act = "lookup" => Goto(c, "lookup")
      /\ act # "lookup" => act \in {"ABORTED", "DROP"} /\ Answer(c, act)
  BY <1>2, <1>4
<1>6. CASE act # "lookup"
  <2>1. ~ Due(r.in)
    BY <1>3, <1>6 DEF Due, Routable, Answerable
  <2> QED  BY <1>3, <1>5, <1>6, <2>1, AnswerMoves DEF r
<1>7. CASE act = "lookup"
  <2>1. cpu' = [cpu EXCEPT ![c] = s]
    BY <1>5, <1>7 DEF Goto, r
  <2>2. IsRun(s) /\ Same(r, s) /\ s.pc = "lookup"
    BY <1>1, <1>3, Goes DEF Stands, Step
  <2> HIDE DEF s
  <2>3. Found(s) /\ Fit(s)
    BY <1>3, <2>2 DEF Found, Sending, Fit, Same
  <2>4. r.in.iproto \in Transport => Has(r.in, InnerTransport) /\ Permitted(k)
    BY <1>7
  <2>5. Read(s)
    BY <1>1, <1>3, <2>2, <2>4 DEF Stands, RunInv, Read, Same, Sending, Routable
  <2>6. Stands(s)
    BY <1>1, <1>3, <2>2, <2>3, <2>5, GoesOn
  <2> QED  BY <1>3, <2>1, <2>2, <2>6, RunsOn DEF Same, r
<1> QED
  BY <1>6, <1>7

LEMMA LookupStands ==
  ASSUME Inv, NEW c \in CPU, EpLookup(c)
  PROVE  Moves(c)
<1> DEFINE r == cpu[c]
           k == FrameKey(r.in)
           s == [r EXCEPT !.pc = "inner", !.ep = epIdx[k]]
<1>1. Stands(r) /\ r.pc = "lookup"
  BY DEF Inv, Shape, Stands, EpLookup
<1>2. LET j == FrameKey(r.f)
      IN  IF j \in Key /\ epIdx[j] # Nobody
          THEN cpu' = [cpu EXCEPT ![c].pc = "inner", ![c].ep = epIdx[j]]
          ELSE Answer(c, "EP_NOT_FOUND")
  BY DEF EpLookup
<1>3. /\ Reading(r) /\ r.pc # "idle"
      /\ IsFrame(r.in) /\ Agree(r.f, r.in)
      /\ r.in.ttl > 0 /\ (r.in.itype = "ip" \/ (r.in.itype = "arp" /\ r.in.op = "request"))
  <2> HIDE DEF r
  <2> QED  BY <1>1 DEF Reading, Stands, IsRun, RunInv, Made, Fit, Rewriting
<1>4. FrameKey(r.f) = k
  <2> HIDE DEF r
  <2> QED  BY <1>3, ReadsAlike
<1>5. CASE ~ Known(r.in)
  <2>1. Answer(c, "EP_NOT_FOUND")
    BY <1>2, <1>4, <1>5 DEF Known
  <2> QED  BY <1>3, <1>5, <2>1, AnswerMoves DEF Due
<1>6. CASE Known(r.in)
  <2>1. cpu' = [cpu EXCEPT ![c].pc = "inner", ![c].ep = epIdx[k]]
    BY <1>2, <1>4, <1>6 DEF Known
  <2>2. cpu' = [cpu EXCEPT ![c] = s]
    BY <2>1 DEF Inv, Shape
  <2> HIDE DEF r
  <2>3. k \in Key /\ epIdx[k] \in Slot
    BY <1>6 DEF Known, Inv, Shape, MapsShape
  <2>4. IsRun(s) /\ Same(r, s) /\ s.pc = "inner" /\ s.ep = epIdx[k]
    BY <1>1, <1>3, <2>3, PicksSlot DEF Stands
  <2> HIDE DEF s
  <2>5. Found(s)
    BY <1>6, <2>3, <2>4 DEF Found, Same, Sending
  <2>6. Fit(s)
    BY <1>3, <2>4 DEF Sending, Fit, Same
  <2>7. Read(s)
    BY <1>1, <1>3, <2>4 DEF Stands, RunInv, Read, Same, Sending
  <2>8. Stands(s)
    BY <1>1, <1>3, <2>4, <2>5, <2>6, <2>7, GoesOn
  <2> QED  BY <1>3, <2>2, <2>4, <2>8, RunsOn DEF Same, r
<1> QED
  BY <1>5, <1>6

LEMMA AgreeChains ==
  ASSUME NEW f, NEW g, NEW h, Agree(f, g), Agree(g, h)
  PROVE  Agree(f, h)
BY DEF Agree

LEMMA InnerStands ==
  ASSUME Inv, NEW c \in CPU, RewriteInner(c)
  PROVE  Moves(c)
<1> DEFINE r == cpu[c]
           e == slots[r.ep]
           g == Inner(r.f, e)
           tip == IF Hinted(r.f) /\ ~ notAddTail THEN r.f.sip ELSE 0
           s == [r EXCEPT !.pc = "outer", !.f = g, !.tip = tip]
<1>1. Stands(r) /\ r.pc = "inner"
  BY DEF Inv, Shape, Stands, RewriteInner
<1>2. cpu' = [cpu EXCEPT ![c] = s]
  BY DEF RewriteInner, Inner
<1> HIDE DEF r, tip
<1>3. /\ Reading(r) /\ r.pc # "idle"
      /\ IsFrame(r.f) /\ IsFrame(r.in) /\ Agree(r.f, r.in)
      /\ r.in.ttl > 0 /\ (r.in.itype = "ip" \/ (r.in.itype = "arp" /\ r.in.op = "request"))
      /\ r.f.tail \in {r.in.tail, Tail0}
  BY <1>1 DEF Reading, Stands, IsRun, RunInv, Made, Fit, Rewriting, Tailed
<1>4. e \in Endpoint
  BY <1>1 DEF Stands, IsRun, Inv, Shape, MapsShape
<1>5. IsFrame(g) /\ Agree(g, Inner(r.in, e))
  BY <1>3, AgreeInner
<1>6. g.tail = r.f.tail
  BY <1>3, InnerKeeps
<1>7. tip \in {r.in.sip, 0}
  BY <1>3, ReadsAlike DEF tip
<1> HIDE DEF e, g
<1>8. /\ IsRun(s) /\ s.pc = "outer" /\ s.f = g /\ s.tip = tip /\ s.ep = r.ep
      /\ s.in = r.in /\ s.quiet = r.quiet /\ s.sends = r.sends /\ s.ttl = r.ttl
  BY <1>1, <1>3, <1>5 DEF Stands, IsRun, RunFields, Step
<1> HIDE DEF s
<1>9. Made(s)
  BY <1>4, <1>5, <1>8 DEF Made, Reading, Sending, e
<1>10. Found(s)
  BY <1>1, <1>8 DEF Stands, RunInv, Found, Sending
<1>11. Fit(s) /\ Passed(s)
  BY <1>3, <1>8 DEF Fit, Passed, Sending
<1>12. Hops(s)
  BY <1>1, <1>8 DEF Stands, RunInv, Hops
<1>13. Tailed(s)
  BY <1>3, <1>6, <1>7, <1>8 DEF Tailed, Sending
<1>14. Read(s)
  BY <1>1, <1>3, <1>8 DEF Stands, RunInv, Read, Sending
<1>15. Stands(s)
  BY <1>8, <1>9, <1>10, <1>11, <1>12, <1>13, <1>14 DEF Stands, RunInv
<1> QED
  BY <1>2, <1>3, <1>8, <1>15, RunsOn DEF r

LEMMA OuterStands ==
  ASSUME Inv, NEW c \in CPU, RewriteOuter(c)
  PROVE  Moves(c)
<1> DEFINE r == cpu[c]
           e == slots[r.ep]
           g == Outer(r.f, e)
           p == IF Hinted(r.f) THEN "hints" ELSE "verdict"
           s == [r EXCEPT !.pc = p, !.act = "TX", !.f = g]
<1>1. Stands(r) /\ r.pc = "outer"
  BY DEF Inv, Shape, Stands, RewriteOuter
<1>2. cpu' = [cpu EXCEPT ![c] = s]
  BY DEF RewriteOuter, Outer
<1> HIDE DEF r, p
<1>3. /\ r.pc # "idle" /\ ~ Sending(r) /\ Rewriting(r)
      /\ IsFrame(r.f) /\ IsFrame(r.in) /\ r.ep \in Slot
      /\ r.in.ttl > 0 /\ (r.in.itype = "ip" \/ (r.in.itype = "arp" /\ r.in.op = "request"))
      /\ r.f.tail \in {r.in.tail, Tail0}
      /\ r.tip \in {r.in.sip, 0}
  BY <1>1 DEF Sending, Stands, IsRun, RunInv, Fit, Rewriting, Tailed
<1>4. e \in Endpoint
  BY <1>3 DEF Inv, Shape, MapsShape
<1>5. PICK d \in Endpoint : /\ Agree(r.f, Inner(r.in, d))
                            /\ r.quiet => d = e
  BY <1>1 DEF Stands, RunInv, Made
<1> HIDE DEF e
<1> DEFINE i == Inner(r.in, d)
<1>6. IsFrame(i) /\ i.itype = r.in.itype /\ i.ttl = r.in.ttl
  BY <1>3, InnerKeeps
<1>7. r.f.itype = r.in.itype /\ r.f.ttl > 0
  <2> HIDE DEF i
  <2>1. Agree(r.f, i)
    BY <1>5 DEF i
  <2> QED  BY <1>3, <1>6, <2>1, ReadsAlike
<1>8. IsFrame(g) /\ Agree(g, Outer(i, e))
  <2> HIDE DEF i
  <2>1. Agree(r.f, i) /\ i.ttl > 0
    BY <1>3, <1>5, <1>6 DEF i
  <2> QED  BY <1>3, <1>4, <1>6, <2>1, AgreeOuter
<1>9. g.tail = r.f.tail
  BY <1>3, <1>4, <1>7, OuterFields DEF FrameFields
<1> HIDE DEF i, g
<1>10. /\ p \in {"hints", "verdict"}
       /\ p = "hints" => appendTail /\ r.in.itype = "ip"
  BY <1>7 DEF p, Hinted
<1>11. /\ IsRun(s) /\ s.pc = p /\ s.act = "TX" /\ s.f = g /\ s.tip = r.tip
       /\ s.in = r.in /\ s.quiet = r.quiet /\ s.sends = r.sends /\ s.ttl = r.ttl
  BY <1>1, <1>3, <1>8, <1>10 DEF Stands, IsRun, RunFields, Step, Verdict
<1> HIDE DEF s
<1>12. Sending(s) /\ ~ Reading(s)
  BY <1>10, <1>11 DEF Sending, Reading
<1>13. r.quiet => Known(r.in) /\ epIdx[FrameKey(r.in)] = r.ep
  BY <1>1, <1>3, NobodyAssumption DEF Stands, RunInv, Found, Known
<1>14. Made(s)
  <2>1. Agree(s.f, Outer(Inner(s.in, d), e))
    BY <1>8, <1>11 DEF i
  <2>2. s.quiet => d = e /\ e = slots[epIdx[FrameKey(s.in)]]
    BY <1>5, <1>11, <1>13 DEF e
  <2>3. s.pc # "outer"
    BY <1>10, <1>11
  <2> QED  BY <1>4, <1>12, <2>1, <2>2, <2>3 DEF Made
<1>15. Found(s) /\ Fit(s) /\ Passed(s)
  BY <1>3, <1>10, <1>11, <1>13 DEF Found, Fit, Passed
<1>16. Hops(s)
  BY <1>1, <1>3, <1>11 DEF Stands, RunInv, Hops
<1>17. Tailed(s)
  BY <1>3, <1>9, <1>10, <1>11, <1>12 DEF Tailed
<1>18. Read(s)
  BY <1>1, <1>3, <1>10, <1>11 DEF Stands, RunInv, Read
<1>19. Stands(s)
  BY <1>11, <1>14, <1>15, <1>16, <1>17, <1>18 DEF Stands, RunInv
<1> QED
  BY <1>2, <1>3, <1>11, <1>19, RunsOn DEF r

LEMMA HintsStand ==
  ASSUME Inv, NEW c \in CPU, AppendHints(c)
  PROVE  Moves(c)
<1> DEFINE r == cpu[c]
<1>1. Stands(r) /\ r.pc = "hints"
  BY DEF Inv, Shape, Stands, AppendHints
<1>2. \/ cpu' = [cpu EXCEPT ![c] = [r EXCEPT !.pc = "verdict"]]
      \/ cpu' = [cpu EXCEPT ![c] = [r EXCEPT !.pc = "verdict", !.act = "ABORTED"]]
      \/ cpu' = [cpu EXCEPT ![c] = [r EXCEPT !.pc = "verdict", !.f.tail = Hints(r.f, r.tip)]]
  BY DEF AppendHints, Goto, Answer, Inv, Shape
<1> HIDE DEF r
<1>3. /\ r.pc # "idle" /\ IsRun(r) /\ Sending(r) /\ Rewriting(r)
      /\ r.act = "TX" /\ appendTail /\ r.in.itype = "ip"
      /\ r.tip \in {r.in.sip, 0}
      /\ RunInv(r)
  BY <1>1 DEF Sending, Stands, RunInv, Rewriting, Tailed
<1>4. ASSUME NEW s, cpu' = [cpu EXCEPT ![c] = s], IsRun(s),
             s.pc = "verdict", s.act \in {"TX", "ABORTED"}, s.in = r.in, s.quiet = r.quiet,
             s.sends = r.sends, s.ttl = r.ttl, s.act = "TX" => Agree(s.f, r.f),
             s.f.tail = r.f.tail \/ (s.act = "TX" /\ s.f.tail = Hints(s.f, r.tip))
      PROVE  Moves(c)
  <2>1. Made(s)
    <3>1. PICK d \in Endpoint, e \in Endpoint :
            /\ Agree(r.f, Outer(Inner(r.in, d), e))
            /\ r.quiet => d = e /\ e = slots[epIdx[FrameKey(r.in)]]
      BY <1>3 DEF RunInv, Made
    <3>2. s.act = "TX" => Agree(s.f, Outer(Inner(s.in, d), e))
      BY <1>4, <3>1, AgreeChains
    <3> QED  BY <1>4, <3>1, <3>2 DEF Made, Reading, Sending
  <2>2. Found(s) /\ Fit(s) /\ Passed(s)
    BY <1>3, <1>4 DEF RunInv, Found, Fit, Passed, Sending, Rewriting
  <2>3. Hops(s)
    BY <1>3, <1>4 DEF RunInv, Hops
  <2>4. Tailed(s)
    <3>1. r.f.tail \in {r.in.tail, Tail0}
      BY <1>1, <1>3 DEF RunInv, Tailed
    <3> QED  BY <1>3, <1>4, <3>1 DEF Tailed, Sending
  <2>5. Read(s)
    BY <1>3 DEF Read
  <2>6. Stands(s)
    BY <1>4, <2>1, <2>2, <2>3, <2>4, <2>5 DEF Stands, RunInv
  <2> QED  BY <1>3, <1>4, <2>6, RunsOn DEF r
<1>5. CASE cpu' = [cpu EXCEPT ![c] = [r EXCEPT !.pc = "verdict"]]
  <2> DEFINE s == [r EXCEPT !.pc = "verdict"]
  <2>1. IsRun(s) /\ Same(r, s) /\ s.pc = "verdict" /\ s.act = r.act
    BY <1>3, Goes DEF Step
  <2> HIDE DEF s
  <2>2. cpu' = [cpu EXCEPT ![c] = s]
    BY <1>5 DEF s
  <2>3. Agree(s.f, r.f)
    BY <2>1 DEF Same, Agree
  <2> QED  BY <1>3, <1>4, <2>1, <2>2, <2>3 DEF Same
<1>6. CASE cpu' = [cpu EXCEPT ![c] = [r EXCEPT !.pc = "verdict", !.act = "ABORTED"]]
  <2> DEFINE s == [r EXCEPT !.pc = "verdict", !.act = "ABORTED"]
  <2>1. IsRun(s) /\ Same(r, s) /\ s.pc = "verdict" /\ s.act = "ABORTED"
    BY <1>3 DEF IsRun, RunFields, Same, Step, Verdict
  <2> HIDE DEF s
  <2>2. cpu' = [cpu EXCEPT ![c] = s]
    BY <1>6 DEF s
  <2> QED  BY <1>3, <1>4, <2>1, <2>2 DEF Same
<1>7. CASE cpu' = [cpu EXCEPT ![c] = [r EXCEPT !.pc = "verdict", !.f.tail = Hints(r.f, r.tip)]]
  <2> DEFINE h == Hints(r.f, r.tip)
             s == [r EXCEPT !.pc = "verdict", !.f.tail = h]
  <2>1. cpu' = [cpu EXCEPT ![c] = s]
    BY <1>7
  <2> HIDE DEF h
  <2>2. /\ IsRun(s) /\ s.pc = "verdict" /\ s.act = r.act
        /\ Agree(s.f, r.f) /\ s.f.tail = h
        /\ s.in = r.in /\ s.quiet = r.quiet /\ s.sends = r.sends /\ s.ttl = r.ttl
    BY <1>1, <1>3, AppendsTail
  <2> HIDE DEF s
  <2>3. s.f.vni = r.f.vni /\ s.f.smac = r.f.smac
    BY <2>2 DEF Agree, FrameFields
  <2>4. h = Hints(s.f, r.tip)
    BY <2>3 DEF h, Hints
  <2> QED  BY <1>3, <1>4, <2>1, <2>2, <2>4
<1> QED
  BY <1>2, <1>5, <1>6, <1>7

LEMMA ConcludeStands ==
  ASSUME Inv, NEW c \in CPU, Conclude(c)
  PROVE  Moves(c)
<1> DEFINE r == cpu[c]
           s == [r EXCEPT !.pc = "done", !.act = r.act]
<1>1. Stands(r) /\ r.pc = "verdict" /\ r.act # "EP_NOT_FOUND"
  BY DEF Inv, Shape, Stands, Conclude
<1>2. cpu' = [cpu EXCEPT ![c] = s]
  BY DEF Conclude, StageVerdict, Inv, Shape
<1> HIDE DEF r
<1>3. IsRun(s) /\ Same(r, s) /\ s.pc = "done" /\ s.act = r.act
  <2>1. r.act \in Verdict \cup {"EP_NOT_FOUND"}
    BY <1>1 DEF Stands, IsRun
  <2>2. IsRun(r) /\ r.pc # "idle"
    BY <1>1 DEF Stands
  <2> HIDE DEF s
  <2>3. /\ IsRun([r EXCEPT !.pc = "done", !.act = r.act])
        /\ Same(r, [r EXCEPT !.pc = "done", !.act = r.act])
        /\ [r EXCEPT !.pc = "done", !.act = r.act].pc = "done"
        /\ [r EXCEPT !.pc = "done", !.act = r.act].act = r.act
    BY <2>1, <2>2, Ends
  <2> QED  BY <2>3 DEF s
<1> HIDE DEF s
<1>4. /\ Sending(s) <=> Sending(r)
      /\ Reading(s) <=> Reading(r)
      /\ Rewriting(s) <=> Rewriting(r)
  BY <1>1, <1>3 DEF Sending, Reading, Rewriting
<1>5. Made(s)
  BY <1>1, <1>3, <1>4 DEF Stands, RunInv, Made, Same
<1>6. Found(s) /\ Fit(s) /\ Passed(s)
  BY <1>1, <1>3, <1>4 DEF Stands, RunInv, Found, Fit, Passed, Same
<1>7. Hops(s)
  BY <1>1, <1>3 DEF Stands, RunInv, Hops, Same
<1>8. Tailed(s)
  BY <1>1, <1>3, <1>4 DEF Stands, RunInv, Tailed, Same
<1>9. Read(s)
  BY <1>1, <1>3, <1>4 DEF Stands, RunInv, Read, Same
<1>10. Stands(s)
  BY <1>3, <1>5, <1>6, <1>7, <1>8, <1>9 DEF Stands, RunInv
<1> QED
  BY <1>1, <1>2, <1>3, <1>10, RunsOn DEF Same, r

\* A frame for an unknown endpoint is not due, and stays so on its way out.
LEMMA UnknownMoves ==
  ASSUME Inv, NEW c \in CPU, NEW s, cpu' = [cpu EXCEPT ![c] = s],
         \/ cpu[c].pc = "verdict" /\ cpu[c].act = "EP_NOT_FOUND"
         \/ cpu[c].pc = "redirect",
         IsRun(s), Same(cpu[c], s),
         s.pc = "redirect" \/ (s.pc = "done" /\ s.act \in {"USER", "ABORTED"})
  PROVE  Moves(c)
<1> DEFINE r == cpu[c]
<1>1. Stands(r)
  BY DEF Inv, Shape, Stands
<1>2. r.quiet /\ ~ appendTail => ~ Due(r.in)
  BY <1>1 DEF Stands, RunInv, Read
<1> HIDE DEF r
<1>3. Reading(r) /\ r.pc # "idle"
  BY DEF Reading, r
<1>4. ~ Sending(s) /\ Same(r, s)
  BY DEF Sending, r
<1>5. Made(s) /\ Hops(s) /\ Tailed(s)
  BY <1>1, <1>3, <1>4, ReadsOn
<1>6. Found(s) /\ Fit(s) /\ Passed(s)
  BY <1>4 DEF Found, Fit, Rewriting, Passed
<1>7. Read(s)
  BY <1>2, <1>4 DEF Read, Same
<1>8. Stands(s)
  BY <1>5, <1>6, <1>7 DEF Stands, RunInv
<1> QED
  BY <1>3, <1>4, <1>8, RunsOn DEF Same, r

LEMMA SocketStands ==
  ASSUME Inv, NEW c \in CPU, FindSocket(c)
  PROVE  Moves(c)
<1> DEFINE r == cpu[c]
           s == [r EXCEPT !.pc = "redirect"]
<1>1. Stands(r) /\ r.pc = "verdict" /\ r.act = "EP_NOT_FOUND"
  BY DEF Inv, Shape, Stands, FindSocket
<1>2. cpu' = [cpu EXCEPT ![c] = s] \/ Answer(c, "DROP")
  BY DEF FindSocket, Goto
<1> HIDE DEF r
<1>3. CASE Answer(c, "DROP")
  <2>1. Reading(r) /\ (r.quiet /\ ~ appendTail => ~ Due(r.in))
    BY <1>1 DEF Reading, Stands, RunInv, Read
  <2> QED  BY <1>3, <2>1, AnswerMoves DEF r
<1>4. CASE cpu' = [cpu EXCEPT ![c] = s]
  <2>1. IsRun(s) /\ Same(r, s) /\ s.pc = "redirect"
    BY <1>1, Goes DEF Stands, Step
  <2> HIDE DEF s
  <2> QED  BY <1>1, <1>4, <2>1, UnknownMoves DEF r
<1> QED
  BY <1>2, <1>3, <1>4

LEMMA RedirectStands ==
  ASSUME Inv, NEW c \in CPU, Redirect(c)
  PROVE  Moves(c)
<1> DEFINE r == cpu[c]
           a == IF r.q \in xsks THEN "USER" ELSE "ABORTED"
           s == [r EXCEPT !.pc = "done", !.act = a]
<1>1. Stands(r) /\ r.pc = "redirect"
  BY DEF Inv, Shape, Stands, Redirect
<1>2. cpu' = [cpu EXCEPT ![c] = s]
  BY DEF Redirect, Inv, Shape
<1> HIDE DEF r
<1>3. a \in {"USER", "ABORTED"}
  OBVIOUS
<1>4. a \in Verdict \cup {"EP_NOT_FOUND"}
  BY <1>3 DEF Verdict
<1> HIDE DEF a
<1>5. IsRun(s) /\ Same(r, s) /\ s.pc = "done" /\ s.act = a
  BY <1>1, <1>4, Ends DEF Stands
<1> HIDE DEF s
<1> QED
  BY <1>1, <1>2, <1>3, <1>5, UnknownMoves DEF r

LEMMA LeaveStands ==
  ASSUME Inv, NEW c \in CPU, Leave(c)
  PROVE  Moves(c)
<1>1. cpu' = [cpu EXCEPT ![c] = Idle]
  BY DEF Leave
<1>2. IsRun(Idle) /\ Idle.pc = "idle"
  BY DEF IsRun, Idle, RunFields, Step, Verdict
<1>3. RunInv(Idle)
  BY <1>2 DEF RunInv, Made, Found, Fit, Hops, Passed, Tailed, Read, Reading, Sending, Rewriting
<1> QED
  BY <1>1, <1>2, <1>3 DEF Moves, Stands

\* A run begins: all it must bring is a frame, and its hops counted.
LEMMA EnterMoves ==
  ASSUME NEW c \in CPU, NEW f, NEW q \in Queue, NEW n \in Nat, NEW ttl \in Nat,
         IsFrame(f), Enter(c, f, q, n, ttl), f.ttl + n = ttl,
         n > 0 /\ f.itype = "arp" => f.op = "reply"
  PROVE  Moves(c) /\ (appendTail \in BOOLEAN /\ notAddTail \in BOOLEAN => notAddTail' \in BOOLEAN)
<1> DEFINE quiet == (writing = <<>>)
<1>1. PICK grown \in IF appendTail THEN BOOLEAN ELSE {FALSE} :
        /\ cpu' = [cpu EXCEPT ![c] = [Idle EXCEPT !.pc = "eth", !.q = q,
                     !.f = Grow(f, grown), !.in = f, !.grown = grown,
                     !.quiet = quiet, !.sends = n, !.ttl = ttl]]
        /\ notAddTail' = IF appendTail THEN ~ grown ELSE notAddTail
  BY DEF Enter
<1>2. grown \in BOOLEAN /\ quiet \in BOOLEAN
  OBVIOUS
<1> DEFINE g == Grow(f, grown)
           s == [Idle EXCEPT !.pc = "eth", !.q = q, !.f = g, !.in = f,
                     !.grown = grown, !.quiet = quiet, !.sends = n, !.ttl = ttl]
<1>3. cpu' = [cpu EXCEPT ![c] = s]
  BY <1>1
<1> HIDE DEF quiet, g
<1>4. /\ IsRun(s) /\ s.pc = "eth" /\ s.in = f /\ s.quiet = quiet
      /\ s.sends = n /\ s.ttl = ttl
      /\ Agree(s.f, f) /\ s.f.tail \in {f.tail, Tail0}
  <2>1. IsFrame(g) /\ Agree(g, f) /\ g.tail \in {f.tail, Tail0}
    BY Grows DEF g
  <2>2. /\ s = [x \in RunFields |-> s[x]]
        /\ s.pc = "eth" /\ s.act = "PASS" /\ s.f = g /\ s.in = f /\ s.q = q
        /\ s.grown = grown /\ s.quiet = quiet /\ s.sends = n /\ s.ttl = ttl
    BY DEF Idle, RunFields
  <2> HIDE DEF s
  <2> QED  BY <1>2, <2>1, <2>2 DEF IsRun, Step, Verdict
<1> HIDE DEF s
<1>5. Made(s) /\ Found(s) /\ Fit(s) /\ Hops(s) /\ Passed(s)
  BY <1>4 DEF Made, Found, Fit, Hops, Passed, Reading, Sending, Rewriting
<1>6. Tailed(s) /\ Read(s)
  BY <1>4 DEF Tailed, Read, Sending
<1>7. Moves(c)
  BY <1>3, <1>4, <1>5, <1>6 DEF Moves, Stands, RunInv, quiet
<1> QED
  BY <1>1, <1>2, <1>7

LEMMA ReturnStands ==
  ASSUME Inv, NEW c \in CPU, Return(c)
  PROVE  Moves(c) /\ notAddTail' \in BOOLEAN
<1> DEFINE r == cpu[c]
<1>1. /\ Stands(r) /\ r.pc = "done" /\ r.act = "TX"
      /\ Enter(c, r.f, r.q, More(c), r.ttl)
      /\ appendTail \in BOOLEAN /\ notAddTail \in BOOLEAN
  BY BuildsAssumption DEF Inv, Shape, Stands, Return
<1>2. More(c) = IF r.sends > r.ttl THEN r.sends ELSE r.sends + 1
  BY DEF More
<1> HIDE DEF r
<1>3. /\ r.pc # "idle" /\ Sending(r) /\ Rewriting(r) /\ IsRun(r) /\ RunInv(r)
      /\ IsFrame(r.f) /\ IsFrame(r.in) /\ r.q \in Queue /\ r.sends \in Nat /\ r.ttl \in Nat
      /\ r.in.ttl > 0
      /\ r.in.ttl + r.sends = r.ttl
  BY <1>1 DEF Sending, Rewriting, Stands, IsRun, RunInv, Fit, Hops
<1>4. PICK d \in Endpoint, e \in Endpoint : Agree(r.f, Outer(Inner(r.in, d), e))
  BY <1>3 DEF RunInv, Made
<1>5. /\ r.f.ttl = r.in.ttl - 1 /\ r.f.itype = r.in.itype
      /\ r.in.itype # "ip" => r.f.op = "reply"
  BY <1>3, <1>4, Outcome
<1>6. r.in.ttl \in Nat /\ r.f.ttl \in Nat
  BY <1>3, BaseAssumption DEF IsFrame
<1>7. More(c) \in Nat /\ r.f.ttl + More(c) = r.ttl
  BY <1>2, <1>3, <1>5, <1>6
<1> QED
  BY <1>1, <1>3, <1>5, <1>7, EnterMoves

LEMMA ReceiveStands ==
  ASSUME Inv, NEW c \in CPU, NEW f \in Frames[<<c, appendTail>>], NEW q \in Queue,
         Receive(c, f, q)
  PROVE  Moves(c) /\ notAddTail' \in BOOLEAN
<1>1. /\ IsFrame(f)
      /\ appendTail \in BOOLEAN /\ notAddTail \in BOOLEAN
  BY FramesAssumption, BuildsAssumption DEF Inv, Shape
<1>2. f.ttl \in Nat /\ f.ttl + 0 = f.ttl
  BY <1>1, BaseAssumption DEF IsFrame
<1> QED
  BY <1>1, <1>2, EnterMoves DEF Receive

LEMMA RunKeeps ==
  ASSUME Inv, NEW c \in CPU, Run(c)
  PROVE  Inv'
<1>1. UNCHANGED <<maps, appendTail>>
  BY DEF Run, ProcessEth, ProcessIp, CheckEgress, CheckIngress, EpLookup, RewriteInner,
         RewriteOuter, AppendHints, Conclude, FindSocket, Redirect, Leave, Return
<1>2. Moves(c)
  BY EthStands, IpStands, EgressStands, IngressStands, LookupStands, InnerStands,
     OuterStands, HintsStand, ConcludeStands, SocketStands, RedirectStands, LeaveStands,
     ReturnStands DEF Run
<1>3. notAddTail' \in BOOLEAN
  <2>1. CASE Return(c)
    BY <2>1, ReturnStands
  <2>2. CASE ~ Return(c)
    BY <2>2 DEF Run, ProcessEth, ProcessIp, CheckEgress, CheckIngress, EpLookup, RewriteInner,
       RewriteOuter, AppendHints, Conclude, FindSocket, Redirect, Leave, Inv, Shape
  <2> QED  BY <2>1, <2>2
<1> QED
  BY <1>1, <1>2, <1>3, RunStep DEF Moves, Stands

LEMMA ReceiveKeeps ==
  ASSUME Inv, NEW c \in CPU, NEW f \in Frames[<<c, appendTail>>], NEW q \in Queue,
         Receive(c, f, q)
  PROVE  Inv'
<1>1. UNCHANGED <<maps, appendTail>>
  BY DEF Receive
<1> QED
  BY <1>1, ReceiveStands, RunStep DEF Moves, Stands

(***************************************************************************)
(* A write of user space leaves no run quiet, and no run reads the maps    *)
(* it has changed as they were.                                            *)
(***************************************************************************)
LEMMA DisturbKeeps ==
  ASSUME Inv, Disturb, role' = role, appendTail' = appendTail
  PROVE  /\ cpu' = [c \in CPU |-> cpu'[c]]
         /\ \A c \in CPU : /\ IsRun(cpu'[c]) /\ RunInv(cpu[c])'
                           /\ cpu'[c].pc # "idle" => ~ cpu'[c].quiet
<1>1. cpu' = [c \in CPU |-> cpu'[c]]
  BY DEF Disturb
<1> SUFFICES ASSUME NEW c \in CPU
             PROVE  /\ IsRun(cpu'[c]) /\ RunInv(cpu[c])'
                    /\ cpu'[c].pc # "idle" => ~ cpu'[c].quiet
  BY <1>1
<1> DEFINE r == cpu[c]
           s == cpu'[c]
<1>2. s = [r EXCEPT !.quiet = (r.pc = "idle")]
  BY DEF Disturb
<1>3. IsRun(r) /\ RunInv(r)
  BY DEF Inv, Shape
<1> HIDE DEF r
<1>4. CASE r.pc = "idle"
  <2>1. s = Idle
    BY <1>2, <1>3, <1>4 DEF IsRun, Idle
  <2>2. IsRun(s) /\ s.pc = "idle"
    BY <2>1 DEF IsRun, Idle, RunFields, Step, Verdict
  <2>3. RunInv(cpu[c])'
    BY <2>2 DEF RunInv, Made, Found, Fit, Hops, Passed, Tailed, Read, Reading, Sending, Rewriting
  <2> QED  BY <2>2, <2>3
<1>5. CASE r.pc # "idle"
  <2>1. /\ IsRun(s) /\ ~ s.quiet
        /\ s.pc = r.pc /\ s.act = r.act /\ s.f = r.f /\ s.in = r.in /\ s.tip = r.tip
        /\ s.sends = r.sends /\ s.ttl = r.ttl
    BY <1>2, <1>3, <1>5 DEF IsRun, RunFields
  <2> HIDE DEF s
  <2>2. /\ Reading(s) <=> Reading(r)
        /\ Sending(s) <=> Sending(r)
        /\ Rewriting(s) <=> Rewriting(r)
    BY <2>1 DEF Reading, Sending, Rewriting
  <2>3. Made(cpu[c])'
    <3>1. Made(r)
      BY <1>3 DEF RunInv
    <3>2. /\ Reading(s) => Agree(s.f, s.in)
          /\ s.pc = "outer" => \E e \in Endpoint : Agree(s.f, Inner(s.in, e))
          /\ Sending(s) => \E d, e \in Endpoint : Agree(s.f, Outer(Inner(s.in, d), e))
      BY <2>1, <2>2, <3>1 DEF Made
    <3> QED  BY <2>1, <3>2 DEF Made, Reading, Sending, s
  <2>4. Found(cpu[c])'
    BY <2>1 DEF Found, s
  <2>5. Fit(cpu[c])' /\ Hops(cpu[c])'
    <3>1. Fit(s) /\ Hops(s)
      BY <1>3, <2>1, <2>2 DEF RunInv, Fit, Hops
    <3> QED  BY <3>1 DEF Fit, Hops, Rewriting, Sending, s
  <2>6. Passed(cpu[c])'
    <3>1. Passed(s)
      BY <1>3, <2>1 DEF RunInv, Passed
    <3> QED  BY <3>1 DEF Passed, OverlayPort, s
  <2>7. Tailed(cpu[c])'
    <3>1. Tailed(s)
      BY <1>3, <2>1, <2>2 DEF RunInv, Tailed
    <3> QED  BY <3>1 DEF Tailed, Sending, s
  <2>8. Read(cpu[c])'
    BY <2>1 DEF Read, s
  <2>9. RunInv(cpu[c])'
    BY <2>3, <2>4, <2>5, <2>6, <2>7, <2>8 DEF RunInv
  <2> QED  BY <2>1, <2>9 DEF s
<1> QED
  BY <1>4, <1>5

LEMMA WriteKeeps ==
  ASSUME Inv, Disturb, UNCHANGED <<role, appendTail, notAddTail>>, MapsShape', Listed'
  PROVE  Inv'
<1>1. /\ cpu' = [c \in CPU |-> cpu'[c]]
      /\ \A c \in CPU : /\ IsRun(cpu'[c]) /\ RunInv(cpu[c])'
                        /\ cpu'[c].pc # "idle" => ~ cpu'[c].quiet
  BY DisturbKeeps
<1>2. \A c \in CPU : IsRun(cpu[c])'
  BY <1>1 DEF IsRun
<1>3. Shape'
  BY <1>1, <1>2 DEF Shape, Inv
<1>4. Config'
  BY <1>1 DEF Config
<1> QED
  BY <1>1, <1>3, <1>4 DEF Inv

LEMMA ListLength ==
  ASSUME NEW l \in EntranceList \cup {FirstList}
  PROVE  DOMAIN l = 1 .. Len(l) /\ Len(l) \in Nat /\ Len(l) <= Len(FirstList)
<1> DEFINE S == {l[k] : k \in DOMAIN l}
<1>1. l \in Seq(S)
  BY ListsAssumption
<1> HIDE DEF S
<1>2. DOMAIN l = 1 .. Len(l) /\ Len(l) \in Nat
  BY <1>1
<1>3. Len(l) <= Len(FirstList)
  BY ListsAssumption, Zenon
<1> QED
  BY <1>2, <1>3

LEMMA UserSpaceKeeps ==
  ASSUME Inv, UserSpace
  PROVE  Inv'
<1>1. MapsShape /\ Listed
  BY DEF Inv, Shape, Config, MapsShape, Listed
<1>2. ASSUME NEW k \in Key, NEW e \in Endpoint, WriteEndpoint(k, e)
      PROVE  Inv'
  <2>1. PICK s \in Slot \ Mapped : /\ epIdx' = [epIdx EXCEPT ![k] = s]
                                   /\ slots' = [slots EXCEPT ![s] = e]
    BY <1>2 DEF WriteEndpoint
  <2>2. /\ UNCHANGED <<role, num, entrances, writing, rules, jmp, xsks, appendTail, notAddTail>>
        /\ Disturb
    BY <1>2 DEF WriteEndpoint, Write, config
  <2>3. MapsShape'
    BY <1>1, <2>1, <2>2 DEF MapsShape, Mapped
  <2>4. Listed'
    BY <1>1, <2>2 DEF Listed
  <2> QED  BY <2>2, <2>3, <2>4, WriteKeeps
<1>3. ASSUME NEW k \in Key, DeleteEndpoint(k)
      PROVE  Inv'
  <2>1. /\ epIdx' = [epIdx EXCEPT ![k] = Nobody]
        /\ UNCHANGED <<role, num, entrances, writing, slots, rules, jmp, xsks,
                       appendTail, notAddTail>>
        /\ Disturb
    BY <1>3 DEF DeleteEndpoint, Write, config
  <2>2. MapsShape'
    BY <1>1, <2>1 DEF MapsShape
  <2>3. Listed'
    BY <1>1, <2>1 DEF Listed
  <2> QED  BY <2>1, <2>2, <2>3, WriteKeeps
<1>4. ASSUME NEW l \in EntranceList, WriteConfig(l)
      PROVE  Inv'
  <2>1. /\ num' = Len(l) /\ writing' = l
        /\ UNCHANGED <<role, entrances, epIdx, slots, rules, jmp, xsks, appendTail, notAddTail>>
        /\ Disturb
    BY <1>4 DEF WriteConfig, Write
  <2>2. MapsShape'
    BY <1>1, <2>1, ListLength DEF MapsShape
  <2>3. Listed'
    BY <2>1 DEF Listed
  <2> QED  BY <2>1, <2>2, <2>3, WriteKeeps
<1>5. ASSUME CopyEntrances
      PROVE  Inv'
  <2>1. PICK junk : entrances' = Padded(writing, junk)
    BY <1>5 DEF CopyEntrances
  <2>2. /\ writing' = <<>> /\ Disturb
        /\ UNCHANGED <<role, num, epIdx, slots, rules, jmp, xsks, appendTail, notAddTail>>
    BY <1>5 DEF CopyEntrances
  <2>3. writing \in EntranceList /\ num = Len(writing)
    BY <1>1, <1>5 DEF Listed, CopyEntrances
  <2>4. /\ DOMAIN writing = 1 .. num
        /\ 1 .. num \subseteq DOMAIN FirstList
    BY <2>3, ListLength
  <2>5. \A i \in 1 .. num : entrances'[i] = writing[i]
    BY <2>1, <2>4 DEF Padded
  <2>6. Listed'
    BY <2>2, <2>3, <2>5 DEF Listed
  <2>7. MapsShape'
    BY <1>1, <2>2 DEF MapsShape
  <2> QED  BY <2>2, <2>6, <2>7, WriteKeeps
<1>6. ASSUME \/ \E r \in Rule : WriteRule(r)
             \/ \E s \in Stage : WriteStage(s)
             \/ \E q \in Queue : WriteSocket(q)
      PROVE  Inv'
  <2>1. /\ UNCHANGED <<role, num, entrances, writing, epIdx, slots, appendTail, notAddTail>>
        /\ Disturb
    BY <1>6 DEF WriteRule, WriteStage, WriteSocket, Write, config
  <2>2. rules' \subseteq Rule /\ jmp' \subseteq Stage /\ xsks' \subseteq Queue
    BY <1>1, <1>6 DEF WriteRule, WriteStage, WriteSocket, MapsShape
  <2>3. MapsShape' /\ Listed'
    BY <1>1, <2>1, <2>2 DEF MapsShape, Listed
  <2> QED  BY <2>1, <2>3, WriteKeeps
<1> QED
  BY <1>2, <1>3, <1>4, <1>5, <1>6 DEF UserSpace

LEMMA InitInv == Init => Inv
<1> SUFFICES ASSUME Init PROVE Inv
  OBVIOUS
<1>1. IsRun(Idle) /\ RunInv(Idle)
  BY DEF IsRun, Idle, RunFields, Step, Verdict, RunInv, Made, Found, Fit, Hops, Passed,
         Tailed, Read, Reading, Sending, Rewriting
<1>2. Idle.pc = "idle"
  BY DEF Idle
<1>3. cpu = [c \in CPU |-> cpu[c]] /\ \A c \in CPU : cpu[c] = Idle
  BY DEF Init
<1>4. Shape
  BY <1>1, <1>3, MapsAssumption, ListLength DEF Init, Shape, MapsShape
<1>5. Config
  BY <1>2, <1>3 DEF Init, Config, Listed
<1> QED
  BY <1>1, <1>3, <1>4, <1>5 DEF Inv

LEMMA StutterKeeps ==
  ASSUME Inv, UNCHANGED vars
  PROVE  Inv'
<1>1. UNCHANGED <<maps, appendTail, notAddTail, cpu>>
  BY DEF vars
<1>2. \A c \in CPU : IsRun(cpu[c])'
  BY <1>1 DEF Inv, Shape, IsRun
<1>3. Shape' /\ Config'
  BY <1>1, <1>2 DEF Inv, Shape, MapsShape, Config, Listed, maps, config
<1>4. \A c \in CPU : RunInv(cpu[c])'
  BY <1>1, Carries DEF Inv
<1> QED
  BY <1>3, <1>4 DEF Inv

LEMMA Invariance == Spec => []Inv
<1>1. Inv /\ [Next]_vars => Inv'
  BY ReceiveKeeps, RunKeeps, UserSpaceKeeps, StutterKeeps DEF Next
<1> QED
  BY <1>1, InitInv, PTL DEF Spec

(***************************************************************************)
(* Theorems.                                                               *)
(***************************************************************************)
\* Maps and runs hold what they should, and no two keys share an element of
\* endpoints_map, wherever daemons write while programs run.
THEOREM TypeCorrect == Spec => []TypeOK
<1>1. Inv => TypeOK
  <2> SUFFICES ASSUME Inv PROVE TypeOK
    OBVIOUS
  <2>1. \A s \in Mapped : slots[s] \in Endpoint
    BY DEF Inv, Shape, MapsShape, Mapped
  <2>2. ASSUME NEW c \in CPU
        PROVE  /\ cpu[c].pc \in Step
               /\ cpu[c].act \in Verdict \cup {"EP_NOT_FOUND"}
               /\ cpu[c].pc \in {"inner", "outer"} => cpu[c].ep \in Slot
               /\ cpu[c].pc # "idle" => cpu[c].f.ttl \in 0 .. Base - 1
    BY <2>2 DEF Inv, Shape, IsRun, IsFrame
  <2> QED  BY <2>1, <2>2 DEF TypeOK, Inv, Shape, MapsShape
<1> QED
  BY <1>1, Invariance, PTL

\* A run that no write disturbs sends exactly the frames that are for this
\* node, permitted and known, for any frames, rules, endpoints and entrances.
THEOREM SendsWhenDue == Spec => []SentWhenDue
<1>1. Inv => SentWhenDue
  <2> SUFFICES ASSUME Inv, NEW c \in CPU, Quiet(c), ~ appendTail
               PROVE  Sent(c) <=> Due(cpu[c].in)
    BY DEF SentWhenDue, Due
  <2> DEFINE r == cpu[c]
  <2>1. r.pc = "done" /\ r.quiet /\ RunInv(r)
    BY DEF Inv, Quiet
  <2>2. CASE r.act = "TX"
    <3>1. Sending(r)
      BY <2>1, <2>2 DEF Sending
    <3>2. Known(r.in)
      BY <2>1, <3>1 DEF RunInv, Found
    <3>3. ForThisNode(r.in) /\ (Routable(r.in) \/ Answerable(r.in))
      BY <2>1, <3>1 DEF RunInv, Read
    <3> QED  BY <2>1, <2>2, <3>2, <3>3 DEF Sent, Due
  <2>3. CASE r.act # "TX"
    BY <2>1, <2>3 DEF RunInv, Read, Sent
  <2> QED  BY <2>2, <2>3
<1> QED
  BY <1>1, Invariance, PTL

LEMMA SentFrame ==
  ASSUME Inv, NEW c \in CPU, Sent(c)
  PROVE  /\ IsFrame(cpu[c].f) /\ IsFrame(cpu[c].in) /\ Sending(cpu[c]) /\ RunInv(cpu[c])
         /\ cpu[c].in.ttl > 0
         /\ \E d, e \in Endpoint :
              /\ Agree(cpu[c].f, Outer(Inner(cpu[c].in, d), e))
              /\ cpu[c].quiet => d = e /\ e = slots[epIdx[FrameKey(cpu[c].in)]]
<1> DEFINE r == cpu[c]
<1>1. r.pc = "done" /\ r.act = "TX" /\ RunInv(r) /\ IsRun(r)
  BY DEF Sent, Inv, Shape
<1> HIDE DEF r
<1>2. Sending(r)
  BY <1>1 DEF Sending
<1>3. IsFrame(r.f) /\ IsFrame(r.in)
  BY <1>1 DEF IsRun
<1>4. r.in.ttl > 0
  BY <1>1, <1>2 DEF RunInv, Fit, Rewriting
<1>5. \E d, e \in Endpoint :
        /\ Agree(r.f, Outer(Inner(r.in, d), e))
        /\ r.quiet => d = e /\ e = slots[epIdx[FrameKey(r.in)]]
  BY <1>1, <1>2 DEF RunInv, Made
<1> QED
  BY <1>1, <1>2, <1>3, <1>4, <1>5 DEF r

\* In such a run a frame goes where the map says the endpoint of its own network
\* and address is, from the entrance it came to; an ARP answer goes back.
THEOREM SendsToEndpoint == Spec => []SentToEndpoint
<1>1. Inv => SentToEndpoint
  <2> SUFFICES ASSUME Inv, NEW c \in CPU, Sent(c), Quiet(c)
               PROVE  LET f == cpu[c].f
                          g == cpu[c].in
                          e == slots[epIdx[<<g.vni, g.idip>>]]
                      IN  /\ epIdx[<<g.vni, g.idip>>] # Nobody
                          /\ f.smac = g.dmac /\ f.sip = g.dip
                          /\ IF f.itype = "ip"
                             THEN /\ f.dip = e.hip /\ f.dmac = e.hmac /\ f.idmac = e.mac
                                  /\ <<f.isip, f.idip, f.ismac>> = <<g.isip, g.idip, g.ismac>>
                             ELSE /\ f.dip = g.sip /\ f.dmac = g.smac /\ f.idmac = g.ismac
                                  /\ <<f.ismac, f.sha, f.tha>> = <<e.mac, e.mac, g.sha>>
                                  /\ <<f.isip, f.idip>> = <<g.idip, g.isip>>
    BY DEF SentToEndpoint
  <2> DEFINE r == cpu[c]
  <2>1. r.quiet
    BY DEF Quiet
  <2>2. PICK d \in Endpoint, e \in Endpoint :
          /\ Agree(r.f, Outer(Inner(r.in, d), e))
          /\ d = e /\ e = slots[epIdx[FrameKey(r.in)]]
    BY <2>1, SentFrame
  <2>3. Known(r.in)
    BY <2>1, SentFrame DEF RunInv, Found
  <2>4. FrameKey(r.in) = <<r.in.vni, r.in.idip>>
    BY DEF FrameKey
  <2>5. IsFrame(r.f) /\ IsFrame(r.in) /\ r.in.ttl > 0
    BY SentFrame
  <2> HIDE DEF r
  <2>6. /\ r.f.sip = r.in.dip /\ r.f.smac = r.in.dmac /\ r.f.itype = r.in.itype
        /\ r.in.itype = "ip" =>
             /\ r.f.dip = e.hip /\ r.f.dmac = e.hmac /\ r.f.idmac = d.mac
             /\ r.f.isip = r.in.isip /\ r.f.idip = r.in.idip /\ r.f.ismac = r.in.ismac
        /\ r.in.itype # "ip" =>
             /\ r.f.dip = r.in.sip /\ r.f.dmac = r.in.smac /\ r.f.idmac = r.in.ismac
             /\ r.f.ismac = e.mac /\ r.f.sha = d.mac /\ r.f.tha = r.in.sha
             /\ r.f.isip = r.in.idip /\ r.f.idip = r.in.isip
    BY <2>2, <2>5, Outcome
  <2> QED  BY <2>2, <2>3, <2>4, <2>6 DEF Known, r
<1> QED
  BY <1>1, Invariance, PTL

\* A frame that is not sent leaves as it came but for its tail, whatever user
\* space does during the run.
THEOREM LeavesUntouched == Spec => []UnsentUntouched
<1>1. Inv => UnsentUntouched
  <2> SUFFICES ASSUME Inv, NEW c \in CPU, cpu[c].pc = "done",
                      cpu[c].act \in {"PASS", "DROP", "USER"}
               PROVE  [cpu[c].f EXCEPT !.tail = NoTail] = [cpu[c].in EXCEPT !.tail = NoTail]
    BY DEF UnsentUntouched
  <2>1. /\ Agree(cpu[c].f, cpu[c].in)
        /\ IsFrame(cpu[c].f) /\ IsFrame(cpu[c].in)
    BY DEF Inv, Shape, IsRun, RunInv, Made, Reading
  <2> QED  BY <2>1 DEF Agree, IsFrame
<1> QED
  BY <1>1, Invariance, PTL

\* No frame of a tunnel is handed to the kernel of the gateway.
THEOREM NoTenantFramePasses == Spec => []NoTenantFrameToKernel
<1>1. Inv => NoTenantFrameToKernel
  BY DEF Inv, RunInv, Passed, NoTenantFrameToKernel
<1> QED
  BY <1>1, Invariance, PTL

\* The outer header of every frame sent has the checksum that receivers expect,
\* for any width of a word and any addresses.
THEOREM SendsVerify == Spec => []SentVerifies
<1>1. Inv => SentVerifies
  BY SentFrame, Outcome DEF SentVerifies
<1> QED
  BY <1>1, Invariance, PTL

\* No frame goes round for ever among the gateways, whatever the endpoints say.
THEOREM RoundsEnd == Spec => []LoopsEnd
<1>1. Inv => LoopsEnd
  <2> SUFFICES ASSUME Inv, NEW c \in CPU
               PROVE  /\ cpu[c].sends <= cpu[c].ttl
                      /\ Sent(c) => cpu[c].sends < cpu[c].ttl
                      /\ Sent(c) /\ cpu[c].f.itype = "arp" => cpu[c].sends = 0
    BY DEF LoopsEnd
  <2> DEFINE r == cpu[c]
  <2>1. IsRun(r) /\ RunInv(r)
    BY DEF Inv, Shape
  <2>2. r.sends \in Nat /\ r.ttl \in Nat /\ r.sends <= r.ttl
    <3> HIDE DEF r
    <3>1. CASE r.pc = "idle"
      BY <2>1, <3>1 DEF IsRun, Idle
    <3>2. CASE r.pc # "idle"
      <4>1. r.in.ttl \in Nat /\ r.in.ttl + r.sends = r.ttl
        BY <2>1, <3>2, BaseAssumption DEF IsRun, IsFrame, RunInv, Hops
      <4> QED  BY <2>1, <4>1 DEF IsRun
    <3> QED  BY <3>1, <3>2
  <2>3. ASSUME Sent(c)
        PROVE  r.sends < r.ttl /\ (r.f.itype = "arp" => r.sends = 0)
    <3>1. PICK d \in Endpoint, e \in Endpoint : Agree(r.f, Outer(Inner(r.in, d), e))
      BY <2>3, SentFrame
    <3>2. IsFrame(r.f) /\ IsFrame(r.in) /\ r.in.ttl > 0 /\ Sending(r) /\ r.pc # "idle"
      BY <2>3, SentFrame DEF Sent
    <3> HIDE DEF r
    <3>3. r.f.itype = r.in.itype
      BY <3>1, <3>2, Outcome
    <3>4. r.in.ttl \in Nat /\ r.in.ttl + r.sends = r.ttl
      BY <2>1, <3>2, BaseAssumption DEF IsFrame, RunInv, Hops
    <3>5. r.in.itype = "arp" => r.sends = 0
      BY <2>1, <2>2, <3>2 DEF RunInv, Hops, Fit, Rewriting
    <3> QED  BY <2>2, <3>2, <3>3, <3>4, <3>5
  <2> QED  BY <2>2, <2>3
<1> QED
  BY <1>1, Invariance, PTL

\* A hint names the network and the host its frame came from, or host 0, for any
\* number of CPUs that write pkt_not_add_tail.
THEOREM HintsTellSender == Spec => []HintsNameSender
<1>1. Inv => HintsNameSender
  <2> SUFFICES ASSUME Inv, NEW c \in CPU, Sent(c), cpu[c].f.tail.flags = "0x5354",
                      cpu[c].in.tail = NoTail
               PROVE  LET h == cpu[c].f.tail
                          g == cpu[c].in
                      IN  h.vni = g.vni /\ h.saddr \in {g.sip, 0} /\ h.smac = g.dmac
    BY DEF HintsNameSender
  <2> DEFINE r == cpu[c]
  <2>1. PICK d \in Endpoint, e \in Endpoint : Agree(r.f, Outer(Inner(r.in, d), e))
    BY SentFrame
  <2>2. IsFrame(r.f) /\ IsFrame(r.in) /\ r.in.ttl > 0 /\ Sending(r) /\ RunInv(r)
    BY SentFrame
  <2> HIDE DEF r
  <2>3. r.f.vni = r.in.vni /\ r.f.smac = r.in.dmac
    BY <2>1, <2>2, Outcome
  <2>4. r.f.tail.flags = "0x5354" /\ r.in.tail = NoTail
    BY DEF r
  <2>5. r.f.tail \notin {r.in.tail, Tail0}
    BY <2>4 DEF NoTail, Tail0, TailOf
  <2>6. PICK tip \in {r.in.sip, 0} : r.f.tail = Hints(r.f, tip)
    BY <2>2, <2>5 DEF RunInv, Tailed
  <2>7. r.f.tail.vni = r.f.vni /\ r.f.tail.saddr = tip /\ r.f.tail.smac = r.f.smac
    BY <2>6 DEF Hints, TailOf
  <2> QED  BY <2>3, <2>6, <2>7 DEF r
<1> QED
  BY <1>1, Invariance, PTL

=============================================================================
