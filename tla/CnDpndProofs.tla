---------------------------- MODULE CnDpndProofs ----------------------------
(***************************************************************************)
(* Theorems about CnDpnd, for any number of CPUs, starts and hints, any    *)
(* queue length and any frames.                                            *)
(***************************************************************************)
EXTENDS CnDpnd, SequenceTheorems, TLAPS

(***************************************************************************)
(* The inductive invariant.                                                *)
(***************************************************************************)
Pushable == {f \in Arriving : EthAct(f) = "push"}
HintSet == {Hint(f, k) : f \in Pushable, k \in 1 .. MaxPushes}

Shape ==
  /\ pushes \in 0 .. MaxPushes
  /\ attached \in 0 .. MaxStarts
  /\ cpu \in [CPU -> [prog : 0 .. MaxStarts, f : Arriving \cup {Nothing},
                      act : {"none", "push", "PASS", "DROP", "ABORTED"}]]
  /\ proc \in [Starts -> Process]
  /\ queue \in [Starts -> Seq(HintSet)]
  /\ sendbuf \in [Starts -> HintSet \cup {Nothing}]
  /\ told \in [Flows -> HintSet \cup {Nothing}]
  /\ newest \in [Flows -> [prog : Starts, hint : HintSet] \cup {Nothing}]

\* A verdict is that of the frame; a run that pushes has a program.
Runs ==
  \A c \in CPU :
    /\ cpu[c].prog # 0 <=> cpu[c].act = "push"
    /\ cpu[c].act = "push" => cpu[c].f \in Pushable
    /\ cpu[c].f = Nothing <=> cpu[c].act = "none"
    /\ cpu[c].act \in {"DROP", "ABORTED"} => cpu[c].act = EthAct(cpu[c].f)
    /\ cpu[c].prog # 0 => proc[cpu[c].prog] # "none"

\* Starts are numbered in order, and own nothing before they happen.
Started ==
  \A n \in Starts :
    /\ proc[n] = "sending" <=> sendbuf[n] # Nothing
    /\ proc[n] = "none" => attached # n /\ queue[n] = <<>>
    /\ \A m \in Starts : m < n /\ proc[m] = "none" => proc[n] = "none"

\* Numbers grow along a queue, by one for each place at least.
Spaced ==
  \A n \in Starts :
    /\ Len(queue[n]) <= Cap
    /\ \A i \in DOMAIN queue[n] :
         /\ queue[n][i].serial <= pushes
         /\ sendbuf[n] # Nothing => sendbuf[n].serial < queue[n][i].serial
         /\ \A j \in DOMAIN queue[n] :
              i <= j => queue[n][j].serial >= queue[n][i].serial + (j - i)
    /\ sendbuf[n] # Nothing => sendbuf[n].serial <= pushes

\* A hint is with a start: in its queue, or popped and not sent yet.
With(h, n) == sendbuf[n] = h \/ \E i \in DOMAIN queue[n] : queue[n][i] = h

\* No hint is with two starts, nor newer than the newest of its flow.
Owned ==
  \A fl \in Flows : newest[fl] # Nothing =>
    LET new == newest[fl].hint
    IN  /\ new.flow = fl /\ new.serial <= pushes
        /\ proc[newest[fl].prog] # "none"
        /\ \A n \in Starts, h \in HintSet : With(h, n) =>
             /\ h.flow = fl => h.serial <= new.serial
             /\ h.serial = new.serial => h = new /\ n = newest[fl].prog

OneReader ==
  ~ overlap => \A m, n \in Starts : Reading(m) /\ Reading(n) => m = n

\* The agent has been told the newest hint: nothing of the flow is left behind it.
ToldLast ==
  \A fl \in Flows :
    /\ told[fl] # Nothing => told[fl].flow = fl /\ told[fl].serial <= pushes
    /\ newest[fl] # Nothing /\ told[fl] = newest[fl].hint =>
         /\ proc[newest[fl].prog] \in {"reading", "sending", "dead"}
         /\ \A h \in HintSet : With(h, newest[fl].prog) => h.flow # fl

\* The newest hint is on its way, told, lost or pushed out.
Kept ==
  \A fl \in Flows : newest[fl] # Nothing /\ ~ overlap =>
    LET new == newest[fl].hint
        n == newest[fl].prog
    IN  Alive(n) => \/ With(new, n)
                    \/ told[fl] = new
                    \/ new.serial \in lost
                    \/ pushes - new.serial >= Cap

IInv == Shape /\ Runs /\ Started /\ Spaced /\ Owned /\ OneReader /\ ToldLast /\ Kept

(***************************************************************************)
(* Hints.                                                                  *)
(***************************************************************************)
\* A hint is pushed only for a frame whose tail a gateway of its network wrote.
LEMMA PushedNamesHost ==
  ASSUME NEW f \in Pushable
  PROVE  f.tail.saddr \in {HostOf[<<f.vni, f.isip>>], 0}
<1>1. f \in Arriving /\ EthAct(f) = "push"
  BY DEF Pushable
<1>2. UdpAct(f) = "push"
  BY <1>1 DEF EthAct
<1>3. InnerIpAct(f) = "push"
  BY <1>2 DEF UdpAct
<1>4. f.tail # Nothing /\ f.tail.flags = "0x5354" /\ f.tail.vni = f.vni
  BY <1>3 DEF InnerIpAct, NoRoomVerdict
<1> QED BY <1>1, <1>4, GatewayAssumption

LEMMA HintFacts ==
  ASSUME NEW h \in HintSet
  PROVE  /\ h # Nothing
         /\ h.serial \in 1 .. MaxPushes
         /\ h.flow \in Flows
         /\ h.dip = h.flow.daddr
         /\ h.dhip \in {HostOf[<<h.flow.vni, h.flow.daddr>>], 0}
<1>1. PICK f \in Pushable, k \in 1 .. MaxPushes : h = Hint(f, k)
  BY DEF HintSet
<1>2. f \in Arriving /\ EthAct(f) = "push"
  BY DEF Pushable
<1>3. h # Nothing
  BY <1>1, <1>2, FramesAssumption
<1>4. h.serial = k /\ h.flow = Flow(f) /\ h.dip = f.isip /\ h.dhip = f.tail.saddr
  BY <1>1 DEF Hint
<1>5. h.flow.vni = f.vni /\ h.flow.daddr = f.isip
  BY <1>4 DEF Flow
<1>6. h.flow \in Flows
  BY <1>2, <1>4 DEF Flows
<1> QED BY <1>2, <1>3, <1>4, <1>5, <1>6, PushedNamesHost

LEMMA SerialNat == \A h \in HintSet : h.serial \in Nat
<1>1. ASSUME NEW h \in HintSet PROVE h.serial \in Nat
  <2>1. h.serial \in 1 .. MaxPushes
    BY HintFacts
  <2> QED BY <2>1, BoundsAssumption
<1> QED BY <1>1

LEMMA HintMade ==
  ASSUME NEW f \in Pushable, NEW k \in 1 .. MaxPushes
  PROVE  /\ Hint(f, k) \in HintSet
         /\ Hint(f, k).serial = k
         /\ Hint(f, k).flow = Flow(f)
         /\ Flow(f) \in Flows
BY DEF HintSet, Hint, Pushable, Flows

(***************************************************************************)
(* What an action does to a queue.                                         *)
(***************************************************************************)
LEMMA PushedQueue ==
  ASSUME NEW q \in Seq(HintSet), Len(q) <= Cap, NEW h \in HintSet
  PROVE  LET r == Pushed(q, h)
             gone == IF Len(q) = Cap THEN 1 ELSE 0
         IN  /\ r \in Seq(HintSet)
             /\ Len(r) = Len(q) + 1 - gone
             /\ Len(r) <= Cap
             /\ r[Len(r)] = h
             /\ \A i \in 1 .. Len(r) - 1 : r[i] = q[i + gone]
<1>1. Len(q) \in Nat
  OBVIOUS
<1>2. CASE Len(q) = Cap
  <2>1. q # <<>>
    BY <1>2, CapAssumption
  <2>2. /\ Tail(q) \in Seq(HintSet)
        /\ Len(Tail(q)) = Len(q) - 1
        /\ \A i \in 1 .. Len(Tail(q)) : Tail(q)[i] = q[i + 1]
    BY <2>1, HeadTailProperties
  <2>3. Pushed(q, h) = Append(Tail(q), h)
    BY <1>2 DEF Pushed
  <2>4. /\ Append(Tail(q), h) \in Seq(HintSet)
        /\ Len(Append(Tail(q), h)) = Len(q)
        /\ \A i \in 1 .. Len(Tail(q)) : Append(Tail(q), h)[i] = Tail(q)[i]
        /\ Append(Tail(q), h)[Len(q)] = h
    BY <1>1, <2>2, AppendProperties
  <2> QED BY <1>1, <1>2, <2>2, <2>3, <2>4
<1>3. CASE Len(q) # Cap
  <2>1. Pushed(q, h) = Append(q, h)
    BY <1>3 DEF Pushed
  <2>2. /\ Append(q, h) \in Seq(HintSet)
        /\ Len(Append(q, h)) = Len(q) + 1
        /\ \A i \in 1 .. Len(q) : Append(q, h)[i] = q[i]
        /\ Append(q, h)[Len(q) + 1] = h
    BY AppendProperties
  <2> QED BY <1>1, <1>3, <2>1, <2>2, CapAssumption
<1> QED BY <1>2, <1>3

LEMMA PoppedQueue ==
  ASSUME NEW q \in Seq(HintSet), q # <<>>
  PROVE  /\ Head(q) = q[1] /\ Head(q) \in HintSet
         /\ Tail(q) \in Seq(HintSet)
         /\ Len(q) \in Nat /\ Len(q) > 0 /\ Len(Tail(q)) = Len(q) - 1
         /\ \A i \in 1 .. Len(Tail(q)) : Tail(q)[i] = q[i + 1]
BY HeadTailProperties

LEMMA Domains ==
  /\ \A n \in Starts : n \in Nat /\ n # 0 /\ n \in 0 .. MaxStarts
  /\ \A n \in 0 .. MaxStarts : n # 0 => n \in Starts
  /\ 0 \in 0 .. MaxStarts
  /\ \A q \in Seq(HintSet) : DOMAIN q = 1 .. Len(q) /\ Len(q) \in Nat
BY BoundsAssumption DEF Starts

(***************************************************************************)
(* Preservation.  The parts one after the other, since the later ones use  *)
(* the earlier.                                                            *)
(***************************************************************************)
LEMMA Initially == Init => IInv
<1> SUFFICES ASSUME Init PROVE IInv
  OBVIOUS
<1>1. Shape
  BY Domains, BoundsAssumption DEF Init, Shape, Idle, Process
<1>2. Runs
  <2>1. Nothing \notin Pushable
    BY FramesAssumption DEF Pushable
  <2> QED BY <2>1 DEF Init, Runs, Idle
<1>3. Started /\ OneReader
  BY Domains DEF Init, Started, OneReader, Reading
<1>4. Spaced
  BY CapAssumption DEF Init, Spaced
<1>5. Owned /\ ToldLast /\ Kept
  BY DEF Init, Owned, ToldLast, Kept
<1> QED BY <1>1, <1>2, <1>3, <1>4, <1>5 DEF IInv

\* What a push finds.
LEMMA PushFacts ==
  ASSUME Shape, Runs, Started, Spaced, NEW c \in CPU, Push(c)
  PROVE  LET n == cpu[c].prog
             h == Hint(cpu[c].f, pushes + 1)
         IN  /\ n \in Starts /\ proc[n] # "none"
             /\ h \in HintSet /\ h.serial = pushes + 1
             /\ h.flow \in Flows
             /\ pushes \in Nat /\ pushes + 1 \in 1 .. MaxPushes
             /\ queue[n] \in Seq(HintSet) /\ Len(queue[n]) <= Cap
             /\ queue' = [queue EXCEPT ![n] = Pushed(queue[n], h)]
             /\ newest' = [newest EXCEPT ![h.flow] = [prog |-> n, hint |-> h]]
             /\ pushes' = pushes + 1
             /\ UNCHANGED <<attached, proc, sendbuf, told, lost, overlap>>
<1> DEFINE n == cpu[c].prog
           h == Hint(cpu[c].f, pushes + 1)
<1>1. n \in Starts /\ cpu[c].f \in Pushable /\ proc[n] # "none"
  BY Domains DEF Push, Shape, Runs
<1>2. pushes \in Nat /\ pushes + 1 \in 1 .. MaxPushes
  BY BoundsAssumption DEF Push, Shape
<1>3. h \in HintSet /\ h.serial = pushes + 1 /\ h.flow \in Flows
  BY <1>1, <1>2, HintMade
<1>4. queue[n] \in Seq(HintSet) /\ Len(queue[n]) <= Cap
  BY <1>1 DEF Shape, Spaced
<1>5. /\ queue' = [queue EXCEPT ![n] = Pushed(queue[n], h)]
      /\ newest' = [newest EXCEPT ![h.flow] = [prog |-> n, hint |-> h]]
      /\ pushes' = pushes + 1
      /\ UNCHANGED <<attached, proc, sendbuf, told, lost, overlap>>
  BY DEF Push
<1> QED BY <1>1, <1>2, <1>3, <1>4, <1>5

LEMMA ActionCases ==
  ASSUME [Next]_vars,
         NEW P,
         UNCHANGED vars => P,
         \A c \in CPU, f \in Frames[pushes] : Arrive(c, f) => P,
         \A c \in CPU : (Push(c) => P) /\ (Leave(c) => P),
         \A n \in Starts, obj \in Objects, force \in BOOLEAN : Start(n, obj, force) => P,
         \A n \in Starts :
           /\ FindQueue(n) => P
           /\ NoQueue(n) => P
           /\ Unfit(n) => P
           /\ Pop(n) => P
           /\ Send(n) => P
           /\ SendFails(n) => P
           /\ Kill(n) => P
           /\ Free(n) => P,
         Unload => P
  PROVE  P
BY DEF Next, ProgramStep, ProcessStep

LEMMA ShapeStep ==
  ASSUME Shape, Runs, Started, Spaced, [Next]_vars
  PROVE  Shape'
<1>1. CASE UNCHANGED vars
  BY <1>1 DEF Shape, vars, daemon, history
<1>2. ASSUME NEW c \in CPU, NEW f \in Frames[pushes], Arrive(c, f)
      PROVE  Shape'
  <2>1. f \in Arriving
    BY DEF Shape, Arriving
  <2>2. EthAct(f) \in {"push", "PASS", "DROP", "ABORTED"}
    BY DEF EthAct, UdpAct, InnerIpAct, NoRoomVerdict
  <2> QED BY <1>2, <2>1, <2>2, Domains DEF Arrive, Shape, daemon, history
<1>3. ASSUME NEW c \in CPU, Push(c) PROVE Shape'
  <2> DEFINE n == cpu[c].prog
             h == Hint(cpu[c].f, pushes + 1)
  <2>1. Pushed(queue[n], h) \in Seq(HintSet)
    BY <1>3, PushFacts, PushedQueue
  <2>2. cpu' = [cpu EXCEPT ![c].prog = 0, ![c].act = "PASS"]
    BY <1>3 DEF Push
  <2> DEFINE Act == {"none", "push", "PASS", "DROP", "ABORTED"}
             Runs_ == [prog : 0 .. MaxStarts, f : Arriving \cup {Nothing}, act : Act]
  <2>a. cpu \in [CPU -> Runs_] /\ 0 \in 0 .. MaxStarts
    BY Domains DEF Shape
  <2>b. [cpu[c] EXCEPT !.prog = 0, !.act = "PASS"] \in Runs_
    BY <2>a
  <2>3. cpu' \in [CPU -> Runs_]
    <3>. HIDE DEF Runs_
    <3> QED BY <2>2, <2>a, <2>b
  <2>4. /\ n \in Starts /\ h \in HintSet /\ h.flow \in Flows
        /\ pushes + 1 \in 1 .. MaxPushes
        /\ queue' = [queue EXCEPT ![n] = Pushed(queue[n], h)]
        /\ newest' = [newest EXCEPT ![h.flow] = [prog |-> n, hint |-> h]]
        /\ pushes' = pushes + 1
        /\ UNCHANGED <<attached, proc, sendbuf, told>>
    BY <1>3, PushFacts
  <2> HIDE DEF n, h
  <2>5. queue' \in [Starts -> Seq(HintSet)]
    BY <2>1, <2>4 DEF Shape
  <2>6. newest' \in [Flows -> [prog : Starts, hint : HintSet] \cup {Nothing}]
    BY <2>4 DEF Shape
  <2>7. pushes' \in 0 .. MaxPushes
    BY <2>4, BoundsAssumption
  <2> QED BY <2>3, <2>4, <2>5, <2>6, <2>7 DEF Shape
<1>4. ASSUME NEW c \in CPU, Leave(c) PROVE Shape'
  BY <1>4, Domains DEF Leave, Shape, Idle, daemon, history
<1>5. ASSUME NEW n \in Starts, NEW obj \in Objects, NEW force \in BOOLEAN,
             Start(n, obj, force)
      PROVE  Shape'
  BY <1>5, Domains DEF Start, Shape, Process, history
<1>6. ASSUME NEW n \in Starts, FindQueue(n) \/ NoQueue(n) \/ Unfit(n)
      PROVE  Shape'
  BY <1>6, Domains DEF FindQueue, NoQueue, Unfit, Shape, Process, history
<1>7. ASSUME NEW n \in Starts, Pop(n) PROVE Shape'
  <2>1. queue[n] \in Seq(HintSet) /\ queue[n] # <<>>
    BY <1>7 DEF Pop, Shape
  <2> QED BY <1>7, <2>1, PoppedQueue DEF Pop, Shape, Process, history
<1>8. ASSUME NEW n \in Starts, Send(n) \/ SendFails(n) PROVE Shape'
  <2>1. sendbuf[n] \in HintSet
    BY <1>8 DEF Send, SendFails, Sent, Started, Shape
  <2> QED BY <1>8, <2>1, HintFacts DEF Send, SendFails, Sent, Shape, Process
<1>9. ASSUME NEW n \in Starts, Kill(n) \/ Free(n) PROVE Shape'
  <2>1. <<>> \in Seq(HintSet)
    OBVIOUS
  <2>2. CASE Kill(n)
    BY <2>2 DEF Kill, Shape, Process, history
  <2>3. CASE Free(n)
    BY <2>1, <2>3 DEF Free, Shape, history
  <2> QED BY <1>9, <2>2, <2>3
<1>10. CASE Unload
  BY <1>10, Domains DEF Unload, Shape, daemon, history
<1> HIDE DEF Shape
<1> QED
  <2> DEFINE P == Shape'
  <2> HIDE DEF P
  <2> QED BY <1>1, <1>2, <1>3, <1>4, <1>5, <1>6, <1>7, <1>8, <1>9, <1>10, ActionCases DEF P

\* A process that has started never is one that has not, nor has one that reads
\* ever not read.
LEMMA Onward ==
  ASSUME Shape, [Next]_vars
  PROVE  \A n \in Starts :
           /\ proc[n] # "none" => proc'[n] # "none"
           /\ proc[n] \in {"reading", "sending", "dead"}
                => proc'[n] \in {"reading", "sending", "dead"}
<1> DEFINE P == \A n \in Starts :
                  /\ proc[n] # "none" => proc'[n] # "none"
                  /\ proc[n] \in {"reading", "sending", "dead"}
                       => proc'[n] \in {"reading", "sending", "dead"}
<1>1. UNCHANGED proc => P
  OBVIOUS
<1>2. ASSUME NEW n \in Starts,
             \/ proc[n] = "none" /\ proc' = [proc EXCEPT ![n] = "loaded"]
             \/ proc' = [proc EXCEPT ![n] = "reading"]
             \/ proc' = [proc EXCEPT ![n] = "sending"]
             \/ proc' = [proc EXCEPT ![n] = "dead"]
      PROVE  P
  BY <1>2 DEF Shape
<1> HIDE DEF P
<1>3. UNCHANGED vars => P
  BY <1>1 DEF vars, daemon
<1>4. \A c \in CPU, f \in Frames[pushes] : Arrive(c, f) => P
  BY <1>1 DEF Arrive, daemon
<1>5. \A c \in CPU : (Push(c) => P) /\ (Leave(c) => P)
  BY <1>1 DEF Push, Leave, daemon
<1>6. \A n \in Starts, obj \in Objects, force \in BOOLEAN : Start(n, obj, force) => P
  BY <1>2 DEF Start
<1>7. \A n \in Starts :
        /\ FindQueue(n) => P
        /\ NoQueue(n) => P
        /\ Unfit(n) => P
        /\ Pop(n) => P
        /\ Send(n) => P
        /\ SendFails(n) => P
        /\ Kill(n) => P
        /\ Free(n) => P
  BY <1>1, <1>2 DEF FindQueue, NoQueue, Unfit, Pop, Send, SendFails, Sent, Kill, Free
<1>8. Unload => P
  BY <1>1 DEF Unload, daemon
<1>9. P
  BY <1>3, <1>4, <1>5, <1>6, <1>7, <1>8, ActionCases
<1> QED BY <1>9 DEF P

LEMMA RunsStep ==
  ASSUME Shape, Runs, Started, Spaced, [Next]_vars
  PROVE  Runs'
<1> DEFINE Run(c) ==
      /\ cpu[c].prog # 0 <=> cpu[c].act = "push"
      /\ cpu[c].act = "push" => cpu[c].f \in Pushable
      /\ cpu[c].f = Nothing <=> cpu[c].act = "none"
      /\ cpu[c].act \in {"DROP", "ABORTED"} => cpu[c].act = EthAct(cpu[c].f)
<1>1. \A c \in CPU : Run(c)'
  <2>1. CASE UNCHANGED cpu
    BY <2>1 DEF Runs
  <2>2. ASSUME NEW c \in CPU, NEW f \in Frames[pushes], Arrive(c, f)
        PROVE  \A x \in CPU : Run(x)'
    <3>1. f \in Arriving /\ f # Nothing
      <4>1. pushes \in 0 .. MaxPushes
        BY DEF Shape
      <4>2. f \in Arriving
        BY <4>1 DEF Arriving
      <4> QED BY <4>2, FramesAssumption
    <3>2. EthAct(f) \in {"push", "PASS", "DROP", "ABORTED"}
      BY DEF EthAct, UdpAct, InnerIpAct, NoRoomVerdict
    <3>3. cpu'[c] = [prog |-> IF EthAct(f) = "push" THEN attached ELSE 0,
                     f |-> f, act |-> EthAct(f)]
      BY <2>2 DEF Arrive, Shape
    <3>4. \A x \in CPU \ {c} : cpu'[x] = cpu[x]
      BY <2>2 DEF Arrive, Shape
    <3>5. attached # 0
      BY <2>2 DEF Arrive
    <3>6. Run(c)'
      BY <3>1, <3>2, <3>3, <3>5 DEF Pushable
    <3>7. \A x \in CPU \ {c} : Run(x)'
      BY <3>4 DEF Runs
    <3> QED BY <3>6, <3>7
  <2>3. ASSUME NEW c \in CPU, Push(c) PROVE \A x \in CPU : Run(x)'
    <3>1. /\ cpu'[c] = [cpu[c] EXCEPT !.prog = 0, !.act = "PASS"]
          /\ \A x \in CPU \ {c} : cpu'[x] = cpu[x]
      BY <2>3 DEF Push, Shape
    <3>2. cpu'[c].prog = 0 /\ cpu'[c].act = "PASS" /\ cpu'[c].f = cpu[c].f
      BY <3>1 DEF Shape
    <3>3. cpu[c].f # Nothing
      BY <2>3 DEF Push, Runs
    <3>4. Run(c)'
      BY <3>2, <3>3
    <3>5. \A x \in CPU \ {c} : Run(x)'
      BY <3>1 DEF Runs
    <3> QED BY <3>4, <3>5
  <2>4. ASSUME NEW c \in CPU, Leave(c) PROVE \A x \in CPU : Run(x)'
    BY <2>4 DEF Leave, Shape, Runs, Idle
  <2> QED
    <3> DEFINE P == \A x \in CPU : Run(x)'
    <3>1. UNCHANGED cpu => P
      BY <2>1
    <3> HIDE DEF P, Run
    <3>2. UNCHANGED vars => P
      BY <3>1 DEF vars
    <3>3. \A c \in CPU, f \in Frames[pushes] : Arrive(c, f) => P
      BY <2>2 DEF P
    <3>4. \A c \in CPU : (Push(c) => P) /\ (Leave(c) => P)
      BY <2>3, <2>4 DEF P
    <3>5. \A n \in Starts, obj \in Objects, force \in BOOLEAN : Start(n, obj, force) => P
      BY <3>1 DEF Start
    <3>6. \A n \in Starts :
            /\ FindQueue(n) => P
            /\ NoQueue(n) => P
            /\ Unfit(n) => P
            /\ Pop(n) => P
            /\ Send(n) => P
            /\ SendFails(n) => P
            /\ Kill(n) => P
            /\ Free(n) => P
      BY <3>1 DEF FindQueue, NoQueue, Unfit, Pop, Send, SendFails, Sent, Kill, Free
    <3>7. Unload => P
      BY <3>1 DEF Unload
    <3>8. P
      BY <3>2, <3>3, <3>4, <3>5, <3>6, <3>7, ActionCases
    <3> QED BY <3>8 DEF P
<1>2. \A n \in Starts : proc[n] # "none" => proc'[n] # "none"
  BY Onward
<1>3. ASSUME NEW c \in CPU, cpu'[c].prog # 0
      PROVE  cpu'[c].prog \in Starts /\ proc[cpu'[c].prog] # "none"
  <2> DEFINE P == cpu'[c].prog \in Starts /\ proc[cpu'[c].prog] # "none"
  <2>1. UNCHANGED cpu => P
    BY <1>3, Domains DEF Runs, Shape
  <2>2. ASSUME NEW d \in CPU, NEW f \in Frames[pushes], Arrive(d, f) PROVE P
    <3>1. attached \in Starts /\ proc[attached] # "none"
      BY <2>2, Domains DEF Arrive, Started, Shape
    <3>2. CASE c = d
      BY <1>3, <2>2, <3>1, <3>2 DEF Arrive, Shape
    <3>3. CASE c # d
      <4>1. cpu'[c] = cpu[c]
        BY <2>2, <3>3 DEF Arrive, Shape
      <4> QED BY <1>3, <4>1, Domains DEF Runs, Shape
    <3> QED BY <3>2, <3>3
  <2>3. ASSUME NEW d \in CPU, Push(d) \/ Leave(d) PROVE P
    <3>1. CASE c = d
      BY <1>3, <2>3, <3>1 DEF Push, Leave, Shape, Idle
    <3>2. CASE c # d
      <4>1. cpu'[c] = cpu[c]
        BY <2>3, <3>2 DEF Push, Leave, Shape
      <4> QED BY <1>3, <4>1, Domains DEF Runs, Shape
    <3> QED BY <3>1, <3>2
  <2> HIDE DEF P
  <2>4. \A n \in Starts, obj \in Objects, force \in BOOLEAN : Start(n, obj, force) => P
    BY <2>1 DEF Start
  <2>5. \A n \in Starts :
          /\ FindQueue(n) => P
          /\ NoQueue(n) => P
          /\ Unfit(n) => P
          /\ Pop(n) => P
          /\ Send(n) => P
          /\ SendFails(n) => P
          /\ Kill(n) => P
          /\ Free(n) => P
    BY <2>1 DEF FindQueue, NoQueue, Unfit, Pop, Send, SendFails, Sent, Kill, Free
  <2>6. (UNCHANGED vars => P) /\ (Unload => P)
    BY <2>1 DEF vars, Unload
  <2>7. \A d \in CPU, f \in Frames[pushes] : Arrive(d, f) => P
    BY <2>2
  <2>8. \A d \in CPU : (Push(d) => P) /\ (Leave(d) => P)
    BY <2>3
  <2>9. P
    BY <2>4, <2>5, <2>6, <2>7, <2>8, ActionCases
  <2> QED BY <2>9 DEF P
<1> QED BY <1>1, <1>2, <1>3 DEF Runs

LEMMA StartedStep ==
  ASSUME Shape, Runs, Started, Spaced, [Next]_vars
  PROVE  Started'
<1>1. CASE UNCHANGED <<attached, proc, queue, sendbuf>>
  BY <1>1 DEF Started
<1>2. ASSUME NEW c \in CPU, Push(c) PROVE Started'
  <2> DEFINE n == cpu[c].prog
  <2>1. n \in Starts /\ proc[n] # "none" /\ UNCHANGED <<attached, proc, sendbuf>>
    BY <1>2, PushFacts
  <2>2. \A m \in Starts \ {n} : queue'[m] = queue[m]
    BY <1>2 DEF Push, Shape
  <2> HIDE DEF n
  <2> QED BY <2>1, <2>2 DEF Started
<1>3. ASSUME NEW n \in Starts, NEW obj \in Objects, NEW force \in BOOLEAN,
             Start(n, obj, force)
      PROVE  Started'
  <2>1. /\ proc[n] = "none" /\ \A m \in Starts : m < n => proc[m] # "none"
        /\ attached' = n
        /\ proc' = [proc EXCEPT ![n] = "loaded"]
        /\ UNCHANGED <<queue, sendbuf>>
    BY <1>3 DEF Start
  <2>2. /\ proc'[n] = "loaded"
        /\ \A m \in Starts \ {n} : proc'[m] = proc[m]
    BY <2>1 DEF Shape
  <2> QED BY <2>1, <2>2, Domains DEF Started
<1>4. ASSUME NEW n \in Starts, FindQueue(n) \/ NoQueue(n) \/ Unfit(n)
      PROVE  Started'
  <2>1. /\ proc[n] = "loaded" /\ UNCHANGED <<queue, sendbuf>>
        /\ attached' \in {attached, 0}
        /\ proc'[n] \in {"reading", "dead"}
        /\ \A m \in Starts \ {n} : proc'[m] = proc[m]
    BY <1>4 DEF FindQueue, NoQueue, Unfit, Shape
  <2> QED BY <2>1, Domains DEF Started
<1>5. ASSUME NEW n \in Starts, Pop(n) PROVE Started'
  <2>1. queue[n] \in Seq(HintSet) /\ queue[n] # <<>>
    BY <1>5 DEF Pop, Shape
  <2>2. Head(queue[n]) # Nothing
    BY <2>1, PoppedQueue, HintFacts
  <2>3. /\ proc[n] = "reading" /\ attached' = attached
        /\ proc'[n] = "sending" /\ sendbuf'[n] # Nothing
        /\ \A m \in Starts \ {n} :
             proc'[m] = proc[m] /\ sendbuf'[m] = sendbuf[m] /\ queue'[m] = queue[m]
    BY <1>5, <2>2 DEF Pop, Shape
  <2> QED BY <2>3, Domains DEF Started
<1>6. ASSUME NEW n \in Starts, Send(n) \/ SendFails(n) \/ Kill(n) PROVE Started'
  <2>1. /\ proc[n] # "none" /\ UNCHANGED <<attached, queue>>
        /\ proc'[n] \in {"reading", "dead"} /\ sendbuf'[n] = Nothing
        /\ \A m \in Starts \ {n} : proc'[m] = proc[m] /\ sendbuf'[m] = sendbuf[m]
    BY <1>6 DEF Send, SendFails, Sent, Kill, Alive, Shape
  <2> QED BY <2>1, Domains DEF Started
<1>7. ASSUME NEW n \in Starts, Free(n) PROVE Started'
  <2>1. /\ UNCHANGED <<attached, proc, sendbuf>>
        /\ queue'[n] = <<>>
        /\ \A m \in Starts \ {n} : queue'[m] = queue[m]
    BY <1>7 DEF Free, Shape
  <2> QED BY <2>1 DEF Started
<1>8. CASE Unload
  BY <1>8, Domains DEF Unload, daemon, Started
<1> QED
  <2> DEFINE P == Started'
  <2>1. UNCHANGED <<attached, proc, queue, sendbuf>> => P
    BY <1>1
  <2>2. /\ UNCHANGED vars => P
        /\ \A c \in CPU, f \in Frames[pushes] : Arrive(c, f) => P
        /\ \A c \in CPU : Leave(c) => P
    BY <2>1 DEF vars, daemon, Arrive, Leave
  <2> HIDE DEF P
  <2> QED BY <2>2, <1>2, <1>3, <1>4, <1>5, <1>6, <1>7, <1>8, ActionCases DEF P

LEMMA OneReaderStep ==
  ASSUME Shape, OneReader, [Next]_vars
  PROVE  OneReader'
<1>1. CASE UNCHANGED <<proc, overlap>>
  BY <1>1 DEF OneReader, Reading
<1>2. ASSUME NEW n \in Starts, UNCHANGED overlap,
             \A m \in Starts : Reading(m)' => Reading(m)
      PROVE  OneReader'
  BY <1>2 DEF OneReader
<1>3. ASSUME NEW n \in Starts, FindQueue(n) PROVE OneReader'
  <2>1. /\ overlap' = (overlap \/ \E m \in Starts \ {n} : proc[m] \in {"reading", "sending"})
        /\ \A m \in Starts \ {n} : proc'[m] = proc[m]
    BY <1>3 DEF FindQueue, Shape
  <2>2. SUFFICES ASSUME ~ overlap', NEW m \in Starts, NEW k \in Starts,
                        Reading(m)', Reading(k)'
                 PROVE  m = k
    BY DEF OneReader
  <2>3. ~ overlap /\ \A x \in Starts \ {n} : ~ Reading(x)'
    BY <2>1, <2>2 DEF Reading
  <2> QED BY <2>2, <2>3
<1>4. ASSUME NEW n \in Starts, NoQueue(n) \/ Unfit(n) \/ Kill(n) PROVE OneReader'
  <2>1. /\ UNCHANGED overlap /\ proc'[n] = "dead"
        /\ \A m \in Starts \ {n} : proc'[m] = proc[m]
    BY <1>4 DEF NoQueue, Unfit, Kill, history, Shape
  <2> QED BY <2>1, <1>2 DEF Reading
<1>5. ASSUME NEW n \in Starts, Pop(n) \/ Send(n) \/ SendFails(n) PROVE OneReader'
  <2>1. /\ UNCHANGED overlap /\ proc[n] \in {"reading", "sending"}
        /\ \A m \in Starts \ {n} : proc'[m] = proc[m]
    BY <1>5 DEF Pop, Send, SendFails, Sent, history, Shape
  <2> QED BY <2>1, <1>2 DEF Reading
<1>6. ASSUME NEW n \in Starts, NEW obj \in Objects, NEW force \in BOOLEAN,
             Start(n, obj, force)
      PROVE  OneReader'
  <2>1. /\ UNCHANGED overlap /\ proc'[n] = "loaded"
        /\ \A m \in Starts \ {n} : proc'[m] = proc[m]
    BY <1>6 DEF Start, history, Shape
  <2> QED BY <2>1, <1>2 DEF Reading
<1> QED
  <2> DEFINE P == OneReader'
  <2>1. UNCHANGED <<proc, overlap>> => P
    BY <1>1
  <2> HIDE DEF P
  <2>2. /\ UNCHANGED vars => P
        /\ \A c \in CPU, f \in Frames[pushes] : Arrive(c, f) => P
        /\ \A c \in CPU : (Push(c) => P) /\ (Leave(c) => P)
        /\ \A n \in Starts : Free(n) => P
        /\ Unload => P
    BY <2>1 DEF vars, daemon, history, Arrive, Push, Leave, Free, Unload
  <2> QED BY <2>2, <1>3, <1>4, <1>5, <1>6, ActionCases DEF P

\* A queue with sound numbers, behind what its reader has popped.
LEMMA SpacedStep ==
  ASSUME Shape, Runs, Started, Spaced, [Next]_vars
  PROVE  Spaced'
<1> DEFINE Sound(q, b, p) ==
      /\ Len(q) <= Cap
      /\ \A i \in DOMAIN q :
           /\ q[i].serial <= p
           /\ b # Nothing => b.serial < q[i].serial
           /\ \A j \in DOMAIN q : i <= j => q[j].serial >= q[i].serial + (j - i)
      /\ b # Nothing => b.serial <= p
<1>1. ASSUME NEW n \in Starts PROVE Sound(queue[n], sendbuf[n], pushes)
  BY DEF Spaced
<1>2. SUFFICES ASSUME NEW n \in Starts PROVE Sound(queue'[n], sendbuf'[n], pushes')
  BY DEF Spaced
<1>3. CASE UNCHANGED <<queue, sendbuf, pushes>>
  BY <1>1, <1>3
<1>4. ASSUME NEW c \in CPU, Push(c) PROVE Sound(queue'[n], sendbuf'[n], pushes')
  <2> DEFINE m == cpu[c].prog
             h == Hint(cpu[c].f, pushes + 1)
             q == queue[n]
             r == Pushed(q, h)
             gone == IF Len(q) = Cap THEN 1 ELSE 0
  <2>1. /\ m \in Starts /\ h \in HintSet /\ h.serial = pushes + 1 /\ pushes \in Nat
        /\ pushes' = pushes + 1 /\ sendbuf' = sendbuf
        /\ queue' = [queue EXCEPT ![m] = Pushed(queue[m], h)]
    BY <1>4, PushFacts
  <2>2. q \in Seq(HintSet) /\ Len(q) \in Nat /\ DOMAIN q = 1 .. Len(q)
    BY Domains DEF Shape
  <2>3. \A x \in HintSet : x.serial \in Nat
    BY SerialNat
  <2>4. sendbuf[n] # Nothing => sendbuf[n] \in HintSet
    BY DEF Shape
  <2>5. Len(q) <= Cap
    BY <1>1
  <2>6. \A i \in 1 .. Len(q) : q[i] \in HintSet /\ q[i].serial \in Nat
    BY <2>2, <2>3
  <2>7. CASE n # m
    <3>1. queue'[n] = q
      BY <2>1, <2>7 DEF Shape
    <3>2. \A i \in 1 .. Len(q) : q[i].serial <= pushes + 1
      BY <1>1, <2>1, <2>2, <2>6
    <3>3. sendbuf[n] # Nothing => sendbuf[n].serial <= pushes + 1
      BY <1>1, <2>1, <2>3, <2>4
    <3>4. /\ Len(q) <= Cap
          /\ \A i \in 1 .. Len(q) :
               /\ sendbuf[n] # Nothing => sendbuf[n].serial < q[i].serial
               /\ \A j \in 1 .. Len(q) : i <= j => q[j].serial >= q[i].serial + (j - i)
      BY <1>1, <2>2
    <3> HIDE DEF q
    <3> QED BY <2>1, <2>2, <3>1, <3>2, <3>3, <3>4
  <2>8. CASE n = m
    <3>1. queue'[n] = r
      BY <2>1, <2>8 DEF Shape
    <3>2. /\ r \in Seq(HintSet)
          /\ Len(r) = Len(q) + 1 - gone
          /\ Len(r) <= Cap
          /\ r[Len(r)] = h
          /\ \A i \in 1 .. Len(r) - 1 : r[i] = q[i + gone]
      BY <2>1, <2>2, <2>5, PushedQueue
    <3>3. gone \in Nat /\ Len(r) \in Nat
      <4>1. gone \in Nat
        OBVIOUS
      <4> HIDE DEF r, gone
      <4> QED BY <3>2, <4>1, Domains
    <3>10. DOMAIN r = 1 .. Len(r)
      <4> HIDE DEF r
      <4> QED BY <3>2, Domains
    <3>4. /\ \A i \in 1 .. Len(q) :
               /\ q[i].serial <= pushes
               /\ sendbuf[n] # Nothing => sendbuf[n].serial < q[i].serial
               /\ \A j \in 1 .. Len(q) : i <= j => q[j].serial >= q[i].serial + (j - i)
          /\ sendbuf[n] # Nothing => sendbuf[n].serial <= pushes
      BY <1>1, <2>2
    <3> HIDE DEF q, r, gone, h, m
    <3>5. \A i \in 1 .. Len(r) - 1 : i + gone \in 1 .. Len(q)
      BY <2>2, <3>2, <3>3
    <3>6. \A i \in 1 .. Len(r) : i # Len(r) => i \in 1 .. Len(r) - 1
      BY <3>3
    <3>7. ASSUME NEW i \in 1 .. Len(r), NEW j \in 1 .. Len(r), i <= j
          PROVE  r[j].serial >= r[i].serial + (j - i)
      <4>1. CASE j # Len(r)
        <5>1. i \in 1 .. Len(r) - 1 /\ j \in 1 .. Len(r) - 1
          BY <3>3, <3>7, <4>1
        <5>2. r[i] = q[i + gone] /\ r[j] = q[j + gone]
          BY <3>2, <5>1
        <5>3. q[j + gone].serial >= q[i + gone].serial + ((j + gone) - (i + gone))
          <6>1. i + gone \in 1 .. Len(q) /\ j + gone \in 1 .. Len(q)
            BY <3>5, <5>1
          <6>2. i + gone <= j + gone
            BY <3>3, <3>7
          <6> QED BY <3>4, <6>1, <6>2
        <5>4. (j + gone) - (i + gone) = j - i
          BY <3>3
        <5> QED BY <5>2, <5>3, <5>4
      <4>2. CASE j = Len(r) /\ i # Len(r)
        <5>1. i \in 1 .. Len(r) - 1 /\ i + gone \in 1 .. Len(q) /\ Len(q) \in 1 .. Len(q)
          BY <2>2, <3>3, <3>5, <4>2
        <5>2. r[i] = q[i + gone] /\ r[j].serial = pushes + 1
          BY <2>1, <3>2, <4>2, <5>1
        <5>3. q[Len(q)].serial >= q[i + gone].serial + (Len(q) - (i + gone))
          BY <3>4, <5>1
        <5>4. q[Len(q)].serial <= pushes
          BY <3>4, <5>1
        <5>5. j - i = (Len(q) - (i + gone)) + 1
          BY <2>2, <3>2, <3>3, <4>2
        <5>6. q[i + gone].serial \in Nat /\ q[Len(q)].serial \in Nat
          BY <2>6, <5>1
        <5> QED BY <2>1, <2>2, <3>3, <5>1, <5>2, <5>3, <5>4, <5>5, <5>6
      <4>3. CASE j = Len(r) /\ i = Len(r)
        BY <2>1, <3>2, <4>3
      <4> QED BY <4>1, <4>2, <4>3
    <3>8. ASSUME NEW i \in 1 .. Len(r)
          PROVE  /\ r[i].serial <= pushes + 1
                 /\ sendbuf[n] # Nothing => sendbuf[n].serial < r[i].serial
      <4>1. CASE i = Len(r)
        BY <2>1, <2>3, <2>4, <3>2, <3>4, <4>1
      <4>2. CASE i # Len(r)
        <5>1. r[i] = q[i + gone] /\ i + gone \in 1 .. Len(q)
          BY <3>2, <3>5, <3>6, <4>2
        <5> QED BY <2>1, <2>6, <3>4, <5>1
      <4> QED BY <4>1, <4>2
    <3>9. sendbuf[n] # Nothing => sendbuf[n].serial <= pushes + 1
      BY <2>1, <2>3, <2>4, <3>4
    <3> QED BY <2>1, <3>1, <3>2, <3>7, <3>8, <3>9, <3>10
  <2> QED BY <2>7, <2>8
<1>5. ASSUME NEW m \in Starts, Pop(m) PROVE Sound(queue'[n], sendbuf'[n], pushes')
  <2>1. CASE n # m
    <3>1. queue'[n] = queue[n] /\ sendbuf'[n] = sendbuf[n] /\ pushes' = pushes
      BY <1>5, <2>1 DEF Pop, history, Shape
    <3> QED BY <1>1, <3>1
  <2>2. CASE n = m
    <3> DEFINE q == queue[n]
               t == Tail(q)
    <3>1. q \in Seq(HintSet) /\ q # <<>>
      BY <1>5, <2>2 DEF Pop, Shape
    <3>2. /\ Head(q) = q[1] /\ Head(q) \in HintSet
          /\ t \in Seq(HintSet)
          /\ Len(q) \in Nat /\ Len(q) > 0 /\ Len(t) = Len(q) - 1
          /\ \A i \in 1 .. Len(t) : t[i] = q[i + 1]
      BY <3>1, PoppedQueue
    <3>3. queue'[n] = t /\ sendbuf'[n] = q[1] /\ pushes' = pushes
      BY <1>5, <2>2, <3>2 DEF Pop, history, Shape
    <3>4. DOMAIN t = 1 .. Len(t) /\ DOMAIN q = 1 .. Len(q)
      BY <3>1, <3>2, Domains
    <3>5. \A i \in 1 .. Len(q) : q[i] \in HintSet /\ q[i].serial \in Nat
      BY <3>1, <3>4, SerialNat
    <3>6. /\ Len(q) <= Cap
          /\ \A i \in 1 .. Len(q) :
               /\ q[i].serial <= pushes
               /\ \A j \in 1 .. Len(q) : i <= j => q[j].serial >= q[i].serial + (j - i)
      BY <1>1, <3>4
    <3> HIDE DEF q, t
    <3>7. ASSUME NEW i \in 1 .. Len(t)
          PROVE  /\ t[i].serial <= pushes
                 /\ q[1].serial < t[i].serial
                 /\ \A j \in 1 .. Len(t) : i <= j => t[j].serial >= t[i].serial + (j - i)
      <4>1. i + 1 \in 1 .. Len(q) /\ 1 \in 1 .. Len(q) /\ t[i] = q[i + 1]
        BY <3>2
      <4>2. q[i + 1].serial >= q[1].serial + ((i + 1) - 1)
        BY <3>6, <4>1
      <4>3. q[1].serial < q[i + 1].serial
        BY <3>2, <3>5, <4>1, <4>2
      <4>4. ASSUME NEW j \in 1 .. Len(t), i <= j
            PROVE  t[j].serial >= t[i].serial + (j - i)
        <5>1. j + 1 \in 1 .. Len(q) /\ i + 1 <= j + 1 /\ t[j] = q[j + 1]
          BY <3>2, <4>4
        <5>2. q[j + 1].serial >= q[i + 1].serial + ((j + 1) - (i + 1))
          BY <3>6, <4>1, <5>1
        <5>3. (j + 1) - (i + 1) = j - i
          BY <3>2
        <5> QED BY <4>1, <5>1, <5>2, <5>3
      <4> QED BY <3>6, <4>1, <4>3, <4>4
    <3>8. Len(t) <= Cap
      BY <3>2, <3>6, CapAssumption
    <3>9. q[1].serial <= pushes
      BY <3>2, <3>6
    <3> QED BY <3>3, <3>4, <3>7, <3>8, <3>9
  <2> QED BY <2>1, <2>2
<1>6. ASSUME NEW m \in Starts, Send(m) \/ SendFails(m) \/ Kill(m)
      PROVE  Sound(queue'[n], sendbuf'[n], pushes')
  <2>1. /\ queue' = queue /\ pushes' = pushes
        /\ sendbuf'[n] \in {sendbuf[n], Nothing}
    BY <1>6 DEF Send, SendFails, Sent, Kill, history, Shape
  <2> QED BY <1>1, <2>1
<1>7. ASSUME NEW m \in Starts, Free(m) PROVE Sound(queue'[n], sendbuf'[n], pushes')
  <2>1. CASE n # m
    <3>1. queue'[n] = queue[n] /\ sendbuf'[n] = sendbuf[n] /\ pushes' = pushes
      BY <1>7, <2>1 DEF Free, history, Shape
    <3> QED BY <1>1, <3>1
  <2>2. CASE n = m
    <3>1. queue'[n] = <<>> /\ sendbuf'[n] = sendbuf[n] /\ pushes' = pushes
      BY <1>7, <2>2 DEF Free, history, Shape
    <3> QED BY <1>1, <3>1, CapAssumption
  <2> QED BY <2>1, <2>2
<1> QED
  <2> DEFINE P == Sound(queue'[n], sendbuf'[n], pushes')
  <2>1. UNCHANGED <<queue, sendbuf, pushes>> => P
    BY <1>3
  <2> HIDE DEF P
  <2>2. /\ UNCHANGED vars => P
        /\ \A c \in CPU, f \in Frames[pushes] : Arrive(c, f) => P
        /\ \A c \in CPU : Leave(c) => P
        /\ \A m \in Starts, obj \in Objects, force \in BOOLEAN : Start(m, obj, force) => P
        /\ \A m \in Starts : (FindQueue(m) => P) /\ (NoQueue(m) => P) /\ (Unfit(m) => P)
        /\ Unload => P
    BY <2>1 DEF vars, daemon, history, Arrive, Leave, Start, FindQueue, NoQueue, Unfit, Unload
  <2> QED BY <2>2, <1>4, <1>5, <1>6, <1>7, ActionCases DEF P

(***************************************************************************)
(* Where a hint is.                                                        *)
(***************************************************************************)
LEMMA WithNumber ==
  ASSUME Shape, Spaced, NEW n \in Starts, NEW h \in HintSet, With(h, n)
  PROVE  h.serial <= pushes
BY HintFacts DEF Shape, Spaced, With

\* Only a push adds hints.
LEMMA WithStep ==
  ASSUME Shape, Runs, Started, Spaced, [Next]_vars, ~ \E c \in CPU : Push(c)
  PROVE  /\ UNCHANGED <<pushes, newest>>
         /\ \A n \in Starts, h \in HintSet : With(h, n)' => With(h, n)
<1> DEFINE P == /\ UNCHANGED <<pushes, newest>>
                /\ \A n \in Starts, h \in HintSet : With(h, n)' => With(h, n)
<1>1. UNCHANGED <<pushes, newest, queue, sendbuf>> => P
  BY DEF With
<1>2. ASSUME NEW m \in Starts, Pop(m) PROVE P
  <2>1. ASSUME NEW n \in Starts, NEW h \in HintSet, With(h, n)' PROVE With(h, n)
    <3>1. CASE n # m
      BY <1>2, <2>1, <3>1 DEF Pop, Shape, With
    <3>2. CASE n = m
      <4> DEFINE q == queue[n]
      <4>1. q \in Seq(HintSet) /\ q # <<>>
        BY <1>2, <3>2 DEF Pop, Shape
      <4>2. queue'[n] = Tail(q) /\ sendbuf'[n] = q[1]
        BY <1>2, <3>2, <4>1, PoppedQueue DEF Pop, Shape
      <4>3. DOMAIN q = 1 .. Len(q) /\ DOMAIN Tail(q) = 1 .. Len(Tail(q))
        BY <4>1, PoppedQueue, Domains
      <4>4. 1 \in DOMAIN q /\ \A i \in DOMAIN Tail(q) : i + 1 \in DOMAIN q /\ Tail(q)[i] = q[i + 1]
        BY <4>1, <4>3, PoppedQueue
      <4> HIDE DEF q
      <4>5. \E i \in DOMAIN q : q[i] = h
        BY <2>1, <4>2, <4>4 DEF With
      <4> QED BY <4>5 DEF With, q
    <3> QED BY <3>1, <3>2
  <2>2. UNCHANGED <<pushes, newest>>
    BY <1>2 DEF Pop, history
  <2> QED BY <2>1, <2>2
<1>3. ASSUME NEW m \in Starts, Send(m) \/ SendFails(m) \/ Kill(m) PROVE P
  <2>1. /\ UNCHANGED <<pushes, newest, queue>>
        /\ \A n \in Starts : sendbuf'[n] \in {sendbuf[n], Nothing}
    BY <1>3 DEF Send, SendFails, Sent, Kill, history, Shape
  <2> QED BY <2>1, HintFacts DEF With
<1>4. ASSUME NEW m \in Starts, Free(m) PROVE P
  <2>1. UNCHANGED <<pushes, newest, sendbuf>>
    BY <1>4 DEF Free, history
  <2>2. queue'[m] = <<>> /\ \A n \in Starts \ {m} : queue'[n] = queue[n]
    BY <1>4 DEF Free, Shape
  <2> QED BY <2>1, <2>2 DEF With
<1> HIDE DEF P
<1>5. /\ UNCHANGED vars => P
      /\ \A c \in CPU, f \in Frames[pushes] : Arrive(c, f) => P
      /\ \A c \in CPU : Leave(c) => P
      /\ \A n \in Starts, obj \in Objects, force \in BOOLEAN : Start(n, obj, force) => P
      /\ \A n \in Starts : (FindQueue(n) => P) /\ (NoQueue(n) => P) /\ (Unfit(n) => P)
      /\ Unload => P
  BY <1>1 DEF vars, daemon, history, Arrive, Leave, Start, FindQueue, NoQueue, Unfit, Unload
<1>6. P
  BY <1>2, <1>3, <1>4, <1>5, ActionCases
<1> QED BY <1>6 DEF P

\* A push adds its hint, and takes at most the oldest of a full queue.
LEMMA WithPush ==
  ASSUME Shape, Runs, Started, Spaced, NEW c \in CPU, Push(c)
  PROVE  LET m == cpu[c].prog
             new == Hint(cpu[c].f, pushes + 1)
         IN  \A n \in Starts, h \in HintSet :
                  /\ h = new /\ n = m => With(h, n)'
                  /\ With(h, n)' => With(h, n) \/ (h = new /\ n = m)
                  /\ With(h, n) => \/ With(h, n)'
                                   \/ n = m /\ Len(queue[m]) = Cap /\ h = queue[m][1]
<1> DEFINE m == cpu[c].prog
           new == Hint(cpu[c].f, pushes + 1)
           q == queue[m]
           r == Pushed(q, new)
           gone == IF Len(q) = Cap THEN 1 ELSE 0
<1>1. /\ m \in Starts /\ new \in HintSet
      /\ q \in Seq(HintSet) /\ Len(q) <= Cap
      /\ queue' = [queue EXCEPT ![m] = r] /\ sendbuf' = sendbuf
  BY PushFacts
<1>2. /\ r \in Seq(HintSet)
      /\ Len(r) = Len(q) + 1 - gone
      /\ r[Len(r)] = new
      /\ \A i \in 1 .. Len(r) - 1 : r[i] = q[i + gone]
  BY <1>1, PushedQueue
<1>3. queue'[m] = r /\ \A n \in Starts \ {m} : queue'[n] = queue[n]
  BY <1>1 DEF Shape
<1>4. gone \in {0, 1} /\ (gone = 1 <=> Len(q) = Cap)
  OBVIOUS
<1>5. Len(q) \in Nat /\ Len(r) \in Nat /\ DOMAIN q = 1 .. Len(q) /\ DOMAIN r = 1 .. Len(r)
  <2> HIDE DEF q, r
  <2> QED BY <1>1, <1>2, Domains
<1>6. Len(q) = Cap => Len(q) > 0
  BY CapAssumption
<1> HIDE DEF m, new, q, r, gone
<1>7. Len(r) \in DOMAIN r
  BY <1>2, <1>4, <1>5, <1>6
<1>8. \A i \in DOMAIN r : i = Len(r) \/ (i + gone \in DOMAIN q /\ r[i] = q[i + gone])
  <2>1. \A i \in 1 .. Len(r) : i # Len(r) => i \in 1 .. Len(r) - 1 /\ i + gone \in 1 .. Len(q)
    BY <1>2, <1>4, <1>5
  <2> QED BY <1>2, <1>5, <2>1
<1>9. \A i \in DOMAIN q : (gone = 1 /\ i = 1) \/ (i - gone \in DOMAIN r /\ r[i - gone] = q[i])
  <2>1. ASSUME NEW i \in 1 .. Len(q), ~ (gone = 1 /\ i = 1)
        PROVE  i - gone \in 1 .. Len(r) - 1 /\ (i - gone) + gone = i
    BY <1>2, <1>4, <1>5, <2>1
  <2>2. \A k \in 1 .. Len(r) - 1 : k \in 1 .. Len(r)
    BY <1>5
  <2> QED BY <1>2, <1>5, <2>1, <2>2
<1>10. ASSUME NEW n \in Starts, NEW h \in HintSet, h = new, n = m
       PROVE  With(h, n)'
  BY <1>2, <1>3, <1>7, <1>10 DEF With
<1>11. ASSUME NEW n \in Starts, NEW h \in HintSet
       PROVE  /\ With(h, n)' => With(h, n) \/ (h = new /\ n = m)
              /\ With(h, n) => \/ With(h, n)'
                               \/ n = m /\ Len(queue[m]) = Cap /\ h = queue[m][1]
  <2>1. CASE n # m
    BY <1>1, <1>3, <2>1 DEF With
  <2>2. CASE n = m
    <3>1. queue[n] = q /\ queue'[n] = r /\ sendbuf'[n] = sendbuf[n]
      BY <1>1, <1>3, <2>2 DEF q
    <3>2. With(h, n)' => With(h, n) \/ h = new
      BY <1>2, <1>8, <3>1 DEF With
    <3>3. With(h, n) => With(h, n)' \/ (gone = 1 /\ h = q[1])
      BY <1>9, <3>1 DEF With
    <3> QED BY <1>4, <2>2, <3>1, <3>2, <3>3 DEF q
  <2> QED BY <2>1, <2>2
<1> QED BY <1>10, <1>11 DEF m, new

LEMMA NewestFacts ==
  ASSUME Shape, NEW fl \in Flows, newest[fl] # Nothing
  PROVE  /\ newest[fl] = [prog |-> newest[fl].prog, hint |-> newest[fl].hint]
         /\ newest[fl].prog \in Starts
         /\ newest[fl].hint \in HintSet
BY DEF Shape

LEMMA OwnedStep ==
  ASSUME Shape, Runs, Started, Spaced, Owned, [Next]_vars
  PROVE  Owned'
<1>1. ASSUME NEW c \in CPU, Push(c) PROVE Owned'
  <2> DEFINE m == cpu[c].prog
             made == Hint(cpu[c].f, pushes + 1)
  <2>1. /\ m \in Starts /\ proc[m] # "none" /\ made \in HintSet
        /\ made.serial = pushes + 1 /\ made.flow \in Flows
        /\ pushes \in Nat /\ pushes' = pushes + 1
        /\ newest' = [newest EXCEPT ![made.flow] = [prog |-> m, hint |-> made]]
        /\ proc' = proc
    BY <1>1, PushFacts
  <2>2. \A n \in Starts, h \in HintSet :
          With(h, n)' => With(h, n) \/ (h = made /\ n = m)
    BY <1>1, WithPush
  <2>3. \A n \in Starts, h \in HintSet : With(h, n) => h.serial <= pushes
    BY WithNumber
  <2> HIDE DEF m, made
  <2>4. SUFFICES ASSUME NEW fl \in Flows, newest'[fl] # Nothing
                 PROVE  LET new == newest'[fl].hint
                        IN  /\ new.flow = fl /\ new.serial <= pushes'
                            /\ proc'[newest'[fl].prog] # "none"
                            /\ \A n \in Starts, h \in HintSet : With(h, n)' =>
                                 /\ h.flow = fl => h.serial <= new.serial
                                 /\ h.serial = new.serial =>
                                      h = new /\ n = newest'[fl].prog
    BY DEF Owned
  <2>5. CASE fl = made.flow
    <3>1. newest'[fl].hint = made /\ newest'[fl].prog = m
      BY <2>1, <2>5 DEF Shape
    <3>2. ASSUME NEW n \in Starts, NEW h \in HintSet, With(h, n)'
          PROVE  /\ h.serial <= made.serial
                 /\ h.serial = made.serial => h = made /\ n = m
      <4>1. CASE With(h, n)
        BY <2>1, <2>3, <4>1, SerialNat
      <4>2. CASE h = made /\ n = m
        BY <2>1, <4>2
      <4> QED BY <2>2, <3>2, <4>1, <4>2
    <3> QED BY <2>1, <2>5, <3>1, <3>2
  <2>6. CASE fl # made.flow
    <3>1. newest'[fl] = newest[fl] /\ newest[fl] # Nothing
      BY <2>1, <2>4, <2>6 DEF Shape
    <3> DEFINE new == newest[fl].hint
    <3>2. /\ new \in HintSet /\ new.flow = fl /\ new.serial <= pushes
          /\ proc[newest[fl].prog] # "none"
          /\ \A n \in Starts, h \in HintSet : With(h, n) =>
               /\ h.flow = fl => h.serial <= new.serial
               /\ h.serial = new.serial => h = new /\ n = newest[fl].prog
      BY <3>1, NewestFacts DEF Owned
    <3>3. new.serial \in Nat
      BY <3>2, SerialNat
    <3> HIDE DEF new
    <3>4. ASSUME NEW n \in Starts, NEW h \in HintSet, With(h, n)'
          PROVE  /\ h.flow = fl => h.serial <= new.serial
                 /\ h.serial = new.serial => h = new /\ n = newest[fl].prog
      <4>1. CASE With(h, n)
        BY <3>2, <4>1
      <4>2. CASE h = made /\ n = m
        BY <2>1, <2>6, <3>2, <3>3, <4>2
      <4> QED BY <2>2, <3>4, <4>1, <4>2
    <3>5. new.serial <= pushes'
      BY <2>1, <3>2, <3>3
    <3> QED BY <2>1, <3>1, <3>2, <3>4, <3>5 DEF new
  <2> QED BY <2>5, <2>6
<1>2. CASE ~ \E c \in CPU : Push(c)
  <2>1. /\ UNCHANGED <<pushes, newest>>
        /\ \A n \in Starts, h \in HintSet : With(h, n)' => With(h, n)
    BY <1>2, WithStep
  <2>2. \A n \in Starts : proc[n] # "none" => proc'[n] # "none"
    BY Onward
  <2>3. \A fl \in Flows : newest[fl] # Nothing => newest[fl].prog \in Starts
    BY NewestFacts
  <2> QED BY <2>1, <2>2, <2>3 DEF Owned
<1> QED BY <1>1, <1>2

LEMMA ToldLastStep ==
  ASSUME Shape, Runs, Started, Spaced, Owned, ToldLast, [Next]_vars
  PROVE  ToldLast'
<1>1. ASSUME NEW c \in CPU, Push(c) PROVE ToldLast'
  <2> DEFINE m == cpu[c].prog
             made == Hint(cpu[c].f, pushes + 1)
  <2>1. /\ made \in HintSet
        /\ made.serial = pushes + 1 /\ made.flow \in Flows
        /\ pushes \in Nat /\ pushes' = pushes + 1
        /\ newest' = [newest EXCEPT ![made.flow] = [prog |-> m, hint |-> made]]
        /\ UNCHANGED <<proc, told>>
    BY <1>1, PushFacts
  <2>2. \A n \in Starts, h \in HintSet :
          With(h, n)' => With(h, n) \/ (h = made /\ n = m)
    BY <1>1, WithPush
  <2> HIDE DEF m, made
  <2>3. ASSUME NEW fl \in Flows, told[fl] # Nothing
        PROVE  told[fl].flow = fl /\ told[fl].serial <= pushes' /\ told[fl] # made
    <3>1. told[fl].flow = fl /\ told[fl].serial <= pushes
      BY <2>3 DEF ToldLast
    <3>2. told[fl].serial \in Nat
      BY <2>3, SerialNat DEF Shape
    <3> QED BY <2>1, <3>1, <3>2
  <2>4. ASSUME NEW fl \in Flows, newest'[fl] # Nothing, told[fl] = newest'[fl].hint
        PROVE  /\ proc[newest'[fl].prog] \in {"reading", "sending", "dead"}
               /\ \A h \in HintSet : With(h, newest[fl].prog)' => h.flow # fl
               /\ newest'[fl] = newest[fl]
    <3>1. fl # made.flow
      <4>1. SUFFICES ASSUME fl = made.flow PROVE FALSE
        OBVIOUS
      <4>2. newest'[fl].hint = made
        BY <2>1, <4>1 DEF Shape
      <4> QED BY <2>1, <2>3, <2>4, <4>2, HintFacts
    <3>2. newest'[fl] = newest[fl]
      BY <2>1, <3>1 DEF Shape
    <3>3. /\ proc[newest[fl].prog] \in {"reading", "sending", "dead"}
          /\ \A h \in HintSet : With(h, newest[fl].prog) => h.flow # fl
          /\ newest[fl].prog \in Starts
      BY <2>4, <3>2, NewestFacts DEF ToldLast
    <3> QED BY <2>2, <3>1, <3>2, <3>3
  <2> QED BY <2>1, <2>3, <2>4 DEF ToldLast
<1>2. ASSUME NEW m \in Starts, Send(m) PROVE ToldLast'
  <2> DEFINE sent == sendbuf[m]
  <2>1. /\ proc[m] = "sending" /\ sent # Nothing /\ sent \in HintSet
        /\ UNCHANGED <<pushes, newest, queue>>
        /\ told' = [told EXCEPT ![sent.flow] = sent]
        /\ sendbuf' = [sendbuf EXCEPT ![m] = Nothing]
    BY <1>2 DEF Send, Sent, Started, Shape
  <2>2. sent.flow \in Flows /\ sent.serial <= pushes /\ With(sent, m)
    BY <2>1, HintFacts DEF Spaced, With
  <2>3. ~ \E c \in CPU : Push(c)
    BY <1>2, <2>1, PushFacts, BoundsAssumption DEF Push, Shape
  <2>4. \A n \in Starts, h \in HintSet : With(h, n)' => With(h, n)
    BY <2>3, WithStep
  <2>5. \A n \in Starts : proc[n] \in {"reading", "sending", "dead"}
                            => proc'[n] \in {"reading", "sending", "dead"}
    BY Onward
  <2>6. \A h \in HintSet : With(h, m)' => sent.serial < h.serial
    <3>1. sendbuf'[m] = Nothing /\ queue'[m] = queue[m]
      BY <2>1 DEF Shape
    <3>2. \A i \in DOMAIN queue[m] : sent.serial < queue[m][i].serial
      BY <2>1 DEF Spaced
    <3> HIDE DEF sent
    <3> QED BY <3>1, <3>2, HintFacts DEF With
  <2> HIDE DEF sent
  <2>7. ASSUME NEW fl \in Flows
        PROVE  told'[fl] # Nothing => told'[fl].flow = fl /\ told'[fl].serial <= pushes'
    BY <2>1, <2>2 DEF ToldLast, Shape
  <2>8. ASSUME NEW fl \in Flows, NEW n \in Starts, newest[fl] # Nothing,
               n = newest[fl].prog, told'[fl] = newest[fl].hint
        PROVE  /\ proc'[n] \in {"reading", "sending", "dead"}
               /\ \A h \in HintSet : With(h, n)' => h.flow # fl
    <3>2. CASE fl = sent.flow
      <4>1. sent = newest[fl].hint
        BY <2>1, <2>8, <3>2 DEF Shape
      <4>2. m = n
        BY <2>1, <2>2, <2>8, <4>1 DEF Owned
      <4>3. \A h \in HintSet : With(h, m)' => With(h, m) /\ sent.serial < h.serial
        BY <2>4, <2>6
      <4>4. \A h \in HintSet : With(h, m) /\ h.flow = fl => h.serial <= sent.serial
        BY <2>8, <4>1 DEF Owned
      <4>5. \A h \in HintSet : With(h, m)' => h.flow # fl
        BY <2>1, <4>3, <4>4, SerialNat
      <4> QED BY <2>1, <2>5, <4>2, <4>5
    <3>3. CASE fl # sent.flow
      <4>1. told[fl] = newest[fl].hint
        BY <2>1, <2>8, <3>3 DEF Shape
      <4>2. /\ proc[n] \in {"reading", "sending", "dead"}
            /\ \A h \in HintSet : With(h, n) => h.flow # fl
        BY <2>8, <4>1 DEF ToldLast
      <4> QED BY <2>4, <2>5, <4>2
    <3> QED BY <3>2, <3>3
  <2>9. \A fl \in Flows : newest[fl] # Nothing => newest[fl].prog \in Starts
    BY NewestFacts
  <2> QED BY <2>1, <2>7, <2>8, <2>9 DEF ToldLast
<1>3. CASE /\ ~ \E c \in CPU : Push(c)
           /\ UNCHANGED told
  <2>1. /\ UNCHANGED <<pushes, newest>>
        /\ \A n \in Starts, h \in HintSet : With(h, n)' => With(h, n)
    BY <1>3, WithStep
  <2>2. \A n \in Starts : proc[n] \in {"reading", "sending", "dead"}
                            => proc'[n] \in {"reading", "sending", "dead"}
    BY Onward
  <2>3. \A fl \in Flows : newest[fl] # Nothing => newest[fl].prog \in Starts
    BY NewestFacts
  <2> QED BY <1>3, <2>1, <2>2, <2>3 DEF ToldLast
<1>4. \/ \E c \in CPU : Push(c)
      \/ \E m \in Starts : Send(m)
      \/ UNCHANGED told
  <2> DEFINE P == \/ \E c \in CPU : Push(c)
                  \/ \E m \in Starts : Send(m)
                  \/ UNCHANGED told
  <2>1. UNCHANGED told => P
    OBVIOUS
  <2>2. (\A c \in CPU : Push(c) => P) /\ \A m \in Starts : Send(m) => P
    OBVIOUS
  <2> HIDE DEF P
  <2>3. /\ UNCHANGED vars => P
        /\ \A c \in CPU, f \in Frames[pushes] : Arrive(c, f) => P
        /\ \A c \in CPU : Leave(c) => P
        /\ \A n \in Starts, obj \in Objects, force \in BOOLEAN : Start(n, obj, force) => P
        /\ \A n \in Starts :
             /\ FindQueue(n) => P
             /\ NoQueue(n) => P
             /\ Unfit(n) => P
             /\ Pop(n) => P
             /\ SendFails(n) => P
             /\ Kill(n) => P
             /\ Free(n) => P
        /\ Unload => P
    BY <2>1 DEF vars, history, Arrive, Leave, Start, FindQueue, NoQueue, Unfit, Pop,
                SendFails, Kill, Free, Unload
  <2>4. P
    BY <2>2, <2>3, ActionCases
  <2> QED BY <2>4 DEF P
<1> QED BY <1>1, <1>2, <1>3, <1>4

\* The oldest hint of a full queue is Cap numbers behind by now.
LEMMA PushedOut ==
  ASSUME Shape, Spaced, NEW n \in Starts, Len(queue[n]) = Cap
  PROVE  queue[n][1] \in HintSet /\ pushes + 1 - queue[n][1].serial >= Cap
<1> DEFINE q == queue[n]
<1>1. q \in Seq(HintSet) /\ DOMAIN q = 1 .. Len(q)
  BY Domains DEF Shape
<1>2. Cap \in Nat /\ 1 \in DOMAIN q /\ Cap \in DOMAIN q
  BY <1>1, CapAssumption
<1>3. q[1] \in HintSet /\ q[Cap] \in HintSet
  BY <1>1, <1>2
<1>4. q[Cap].serial >= q[1].serial + (Cap - 1) /\ q[Cap].serial <= pushes
  BY <1>2 DEF Spaced
<1>5. q[1].serial \in Nat /\ q[Cap].serial \in Nat /\ pushes \in Nat
  BY <1>3, SerialNat, BoundsAssumption DEF Shape
<1> HIDE DEF q
<1>6. pushes + 1 - q[1].serial >= Cap
  BY <1>2, <1>4, <1>5
<1> QED BY <1>3, <1>6 DEF q

LEMMA KeptStep ==
  ASSUME Shape, Runs, Started, Spaced, Owned, OneReader, ToldLast, Kept, [Next]_vars
  PROVE  Kept'
\* The case of all steps but Push: the newest hint and its start stay the same.
<1>1. ASSUME UNCHANGED <<pushes, newest>>, lost \subseteq lost', overlap => overlap',
             \A fl \in Flows :
               newest[fl] # Nothing /\ ~ overlap /\ Alive(newest[fl].prog)' =>
                 /\ Alive(newest[fl].prog)
                 /\ With(newest[fl].hint, newest[fl].prog) =>
                      \/ With(newest[fl].hint, newest[fl].prog)'
                      \/ told'[fl] = newest[fl].hint
                      \/ newest[fl].hint.serial \in lost'
                 /\ told[fl] = newest[fl].hint => told'[fl] = told[fl]
      PROVE  Kept'
  BY <1>1 DEF Kept
<1>2. ASSUME UNCHANGED <<pushes, newest, queue, sendbuf, told, lost>>, overlap => overlap',
             \A n \in Starts : proc[n] # "none" /\ Alive(n)' => Alive(n)
      PROVE  Kept'
  <2>1. \A fl \in Flows : newest[fl] # Nothing =>
          newest[fl].prog \in Starts /\ proc[newest[fl].prog] # "none"
    BY NewestFacts DEF Owned
  <2> QED BY <1>1, <1>2, <2>1 DEF With
<1>3. ASSUME NEW c \in CPU, Push(c) PROVE Kept'
  <2> DEFINE m == cpu[c].prog
             made == Hint(cpu[c].f, pushes + 1)
  <2>1. /\ m \in Starts /\ made \in HintSet
        /\ made.flow \in Flows
        /\ pushes \in Nat /\ pushes' = pushes + 1
        /\ newest' = [newest EXCEPT ![made.flow] = [prog |-> m, hint |-> made]]
        /\ UNCHANGED <<proc, told, lost, overlap>>
    BY <1>3, PushFacts
  <2>2. \A n \in Starts, h \in HintSet :
          /\ h = made /\ n = m => With(h, n)'
          /\ With(h, n) => \/ With(h, n)'
                           \/ n = m /\ Len(queue[m]) = Cap /\ h = queue[m][1]
    BY <1>3, WithPush
  <2> HIDE DEF m, made
  <2>3. ASSUME NEW fl \in Flows, NEW n \in Starts, NEW new \in HintSet,
               newest'[fl] # Nothing, n = newest'[fl].prog, new = newest'[fl].hint,
               ~ overlap, Alive(n)
        PROVE  \/ With(new, n)'
               \/ told[fl] = new
               \/ new.serial \in lost
               \/ pushes' - new.serial >= Cap
    <3>1. CASE fl = made.flow
      <4>1. new = made /\ n = m
        BY <2>1, <2>3, <3>1 DEF Shape
      <4> QED BY <2>2, <4>1
    <3>2. CASE fl # made.flow
      <4>1. newest[fl] # Nothing /\ n = newest[fl].prog /\ new = newest[fl].hint
        BY <2>1, <2>3, <3>2 DEF Shape
      <4>2. With(new, n) \/ told[fl] = new \/ new.serial \in lost \/ pushes - new.serial >= Cap
        BY <2>3, <4>1 DEF Kept
      <4>3. CASE With(new, n) /\ ~ With(new, n)'
        <5>1. n = m /\ Len(queue[m]) = Cap /\ new = queue[m][1]
          BY <2>2, <4>3
        <5>2. pushes + 1 - new.serial >= Cap
          BY <2>1, <5>1, PushedOut
        <5>3. pushes' - new.serial >= Cap
          <6>1. pushes' = pushes + 1 /\ pushes \in Nat
            BY <2>1
          <6>2. new.serial \in Nat /\ Cap \in Nat
            BY SerialNat, CapAssumption
          <6> QED BY <5>2, <6>1, <6>2
        <5> QED BY <5>3
      <4>4. CASE pushes - new.serial >= Cap
        <5>1. new.serial \in Nat /\ Cap \in Nat
          BY SerialNat, CapAssumption
        <5> QED BY <2>1, <4>4, <5>1
      <4> QED BY <4>2, <4>3, <4>4
    <3> QED BY <3>1, <3>2
  <2>4. \A fl \in Flows : newest'[fl] # Nothing =>
          newest'[fl].prog \in Starts /\ newest'[fl].hint \in HintSet
    BY <2>1 DEF Shape
  <2>5. \A n \in Starts : Alive(n)' => Alive(n)
    BY <2>1 DEF Alive
  <2> QED BY <2>1, <2>3, <2>4, <2>5 DEF Kept
<1>4. ASSUME NEW m \in Starts, NEW obj \in Objects, NEW force \in BOOLEAN,
             Start(m, obj, force)
      PROVE  Kept'
  <2>1. /\ UNCHANGED <<pushes, newest, queue, sendbuf, told, lost, overlap>>
        /\ proc[m] = "none" /\ \A n \in Starts \ {m} : proc'[n] = proc[n]
    BY <1>4 DEF Start, history, Shape
  <2> QED BY <1>2, <2>1 DEF Alive
<1>5. ASSUME NEW m \in Starts, FindQueue(m) PROVE Kept'
  <2>1. /\ UNCHANGED <<pushes, newest, queue, sendbuf, told, lost>>
        /\ overlap => overlap'
        /\ proc[m] = "loaded" /\ \A n \in Starts \ {m} : proc'[n] = proc[n]
    BY <1>5 DEF FindQueue, Shape
  <2> QED BY <1>2, <2>1 DEF Alive
<1>6. ASSUME NEW m \in Starts, NoQueue(m) \/ Unfit(m) PROVE Kept'
  <2>1. /\ UNCHANGED <<pushes, newest, queue, sendbuf, told, lost, overlap>>
        /\ proc'[m] = "dead" /\ \A n \in Starts \ {m} : proc'[n] = proc[n]
    BY <1>6 DEF NoQueue, Unfit, history, Shape
  <2> QED BY <1>2, <2>1 DEF Alive
<1>7. ASSUME NEW m \in Starts, Pop(m) PROVE Kept'
  <2> DEFINE q == queue[m]
  <2>1. /\ proc[m] = "reading" /\ q \in Seq(HintSet) /\ q # <<>>
        /\ UNCHANGED <<pushes, newest, told, lost, overlap>>
        /\ \A n \in Starts \ {m} :
             proc'[n] = proc[n] /\ queue'[n] = queue[n] /\ sendbuf'[n] = sendbuf[n]
        /\ queue'[m] = Tail(q) /\ sendbuf'[m] = q[1]
    BY <1>7, PoppedQueue DEF Pop, history, Shape
  <2>2. sendbuf[m] = Nothing
    BY <2>1 DEF Started
  <2>3. DOMAIN q = 1 .. Len(q) /\ DOMAIN Tail(q) = 1 .. Len(Tail(q))
    BY <2>1, PoppedQueue, Domains
  <2>4. \A i \in DOMAIN q : i = 1 \/ (i - 1 \in DOMAIN Tail(q) /\ Tail(q)[i - 1] = q[i])
    <3>1. /\ Len(q) \in Nat /\ Len(q) > 0 /\ Len(Tail(q)) = Len(q) - 1
          /\ \A i \in 1 .. Len(Tail(q)) : Tail(q)[i] = q[i + 1]
      BY <2>1, PoppedQueue
    <3>2. ASSUME NEW i \in 1 .. Len(q), i # 1
          PROVE  i - 1 \in 1 .. Len(Tail(q)) /\ (i - 1) + 1 = i
      BY <3>1, <3>2
    <3> HIDE DEF q
    <3>3. ASSUME NEW i \in 1 .. Len(q), i # 1
          PROVE  i - 1 \in 1 .. Len(Tail(q)) /\ Tail(q)[i - 1] = q[i]
      <4>1. i - 1 \in 1 .. Len(Tail(q)) /\ (i - 1) + 1 = i
        BY <3>2, <3>3
      <4>2. Tail(q)[i - 1] = q[(i - 1) + 1]
        BY <3>1, <4>1
      <4> QED BY <4>1, <4>2
    <3> QED BY <2>3, <3>3
  <2> HIDE DEF q
  <2>5. ASSUME NEW n \in Starts, NEW h \in HintSet, With(h, n) PROVE With(h, n)'
    <3>1. CASE n # m
      BY <2>1, <2>5, <3>1 DEF With
    <3>2. CASE n = m
      <4>1. PICK i \in DOMAIN q : q[i] = h
        BY <2>2, <2>5, <3>2, HintFacts DEF With, q
      <4> QED BY <2>1, <2>4, <3>2, <4>1 DEF With
    <3> QED BY <3>1, <3>2
  <2>6. \A n \in Starts : Alive(n)' => Alive(n)
    BY <2>1 DEF Alive
  <2> QED BY <1>1, <2>1, <2>5, <2>6, NewestFacts
<1>8. ASSUME NEW m \in Starts, Send(m) \/ SendFails(m) PROVE Kept'
  <2> DEFINE sent == sendbuf[m]
  <2>1. /\ proc[m] = "sending" /\ sent \in HintSet
        /\ UNCHANGED <<pushes, newest, queue, overlap>>
        /\ \A n \in Starts \ {m} : proc'[n] = proc[n] /\ sendbuf'[n] = sendbuf[n]
        /\ \/ told' = [told EXCEPT ![sent.flow] = sent] /\ lost' = lost
           \/ told' = told /\ lost' = lost \cup {sent.serial}
    BY <1>8 DEF Send, SendFails, Sent, Started, Shape
  <2>2. sent.flow \in Flows /\ With(sent, m)
    BY <2>1, HintFacts DEF With
  <2>3. ASSUME NEW n \in Starts, NEW h \in HintSet, With(h, n)
        PROVE  With(h, n)' \/ (n = m /\ h = sent)
    BY <2>1, <2>3 DEF With
  <2> HIDE DEF sent
  <2>4. ASSUME NEW fl \in Flows, newest[fl] # Nothing, ~ overlap,
               Alive(newest[fl].prog)'
        PROVE  /\ Alive(newest[fl].prog)
               /\ With(newest[fl].hint, newest[fl].prog) =>
                    \/ With(newest[fl].hint, newest[fl].prog)'
                    \/ told'[fl] = newest[fl].hint
                    \/ newest[fl].hint.serial \in lost'
               /\ told[fl] = newest[fl].hint => told'[fl] = told[fl]
    <3> DEFINE n == newest[fl].prog
               new == newest[fl].hint
    <3>1. n \in Starts /\ new \in HintSet /\ new.flow = fl
      BY <2>4, NewestFacts DEF Owned
    <3>2. Alive(n)
      BY <2>1, <2>4, <3>1 DEF Alive
    <3>3. ASSUME n = m, new = sent PROVE told'[fl] = new \/ new.serial \in lost'
      BY <2>1, <2>2, <3>1, <3>3 DEF Shape
    <3>4. ASSUME told[fl] = new, told'[fl] # told[fl] PROVE FALSE
      <4>1. fl = sent.flow
        BY <2>1, <3>4 DEF Shape
      <4>2. /\ proc[n] \in {"reading", "sending", "dead"}
            /\ \A h \in HintSet : With(h, n) => h.flow # fl
        BY <2>4, <3>4 DEF ToldLast
      <4>3. Reading(n) /\ Reading(m)
        BY <2>1, <3>2, <4>2 DEF Reading, Alive
      <4>4. n = m
        BY <2>4, <3>1, <4>3 DEF OneReader
      <4> QED BY <2>1, <2>2, <4>1, <4>2, <4>4
    <3>5. With(new, n) => With(new, n)' \/ (n = m /\ new = sent)
      <4> HIDE DEF n, new
      <4>1. ASSUME With(new, n) PROVE \/ sendbuf'[n] = new
                                      \/ \E i \in DOMAIN queue'[n] : queue'[n][i] = new
                                      \/ (n = m /\ new = sent)
        BY <2>1, <3>1, <4>1 DEF With, sent
      <4>2. newest' = newest
        BY <2>1
      <4> QED BY <4>1, <4>2 DEF With, n, new
    <3>6. With(new, n)' = With(newest[fl].hint, newest[fl].prog)'
      OBVIOUS
    <3> QED BY <3>2, <3>3, <3>4, <3>5, <3>6
  <2>5. lost \subseteq lost' /\ (overlap => overlap')
    BY <2>1
  <2> QED BY <1>1, <2>1, <2>4, <2>5
<1>9. ASSUME NEW m \in Starts, Kill(m) PROVE Kept'
  <2>1. /\ UNCHANGED <<pushes, newest, queue, told, lost, overlap>>
        /\ proc'[m] = "dead"
        /\ \A n \in Starts \ {m} : proc'[n] = proc[n] /\ sendbuf'[n] = sendbuf[n]
    BY <1>9 DEF Kill, history, Shape
  <2>2. \A n \in Starts : Alive(n)' => Alive(n) /\ n # m
    BY <2>1 DEF Alive
  <2>3. \A n \in Starts \ {m}, h \in HintSet : With(h, n) => With(h, n)'
    BY <2>1 DEF With
  <2> QED BY <1>1, <2>1, <2>2, <2>3, NewestFacts
<1>10. ASSUME NEW m \in Starts, Free(m) PROVE Kept'
  <2>1. /\ UNCHANGED <<pushes, newest, proc, sendbuf, told, lost, overlap>>
        /\ ~ Alive(m)
        /\ \A n \in Starts \ {m} : queue'[n] = queue[n]
    BY <1>10 DEF Free, InUse, history, Shape
  <2>2. \A n \in Starts : Alive(n)' => Alive(n) /\ n # m
    BY <2>1 DEF Alive
  <2>3. \A n \in Starts \ {m}, h \in HintSet : With(h, n) => With(h, n)'
    BY <2>1 DEF With
  <2> QED BY <1>1, <2>1, <2>2, <2>3, NewestFacts
<1>11. CASE UNCHANGED <<pushes, newest, queue, sendbuf, told, lost, overlap, proc>>
  BY <1>2, <1>11 DEF Alive
<1> QED
  <2> DEFINE P == Kept'
  <2>1. UNCHANGED <<pushes, newest, queue, sendbuf, told, lost, overlap, proc>> => P
    BY <1>11
  <2> HIDE DEF P
  <2>2. /\ UNCHANGED vars => P
        /\ \A c \in CPU, f \in Frames[pushes] : Arrive(c, f) => P
        /\ \A c \in CPU : Leave(c) => P
        /\ Unload => P
    BY <2>1 DEF vars, daemon, history, Arrive, Leave, Unload
  <2> QED BY <2>2, <1>3, <1>4, <1>5, <1>6, <1>7, <1>8, <1>9, <1>10, ActionCases DEF P

LEMMA InductiveStep ==
  ASSUME IInv, [Next]_vars
  PROVE  IInv'
BY ShapeStep, RunsStep, StartedStep, SpacedStep, OwnedStep, OneReaderStep, ToldLastStep,
   KeptStep DEF IInv

\* The invariant holds in every state.
THEOREM InvariantHolds == Spec => []IInv
<1>1. Init => IInv
  BY Initially
<1>2. IInv /\ [Next]_vars => IInv'
  BY InductiveStep
<1> QED BY <1>1, <1>2, PTL DEF Spec

(***************************************************************************)
(* The properties.                                                         *)
(***************************************************************************)

\* Every state is a state of the program and of the processes: no queue of
\* main's holds more than CN_LOCAL_QUEUE_LEN hints, and each is in the order
\* bpf_map_push_elem made it.
THEOREM TypeCorrect == Spec => []TypeOK
<1>1. ASSUME IInv PROVE TypeOK
  <2>1. ASSUME NEW n \in Starts, NEW i \in DOMAIN queue[n], NEW j \in DOMAIN queue[n], i < j
        PROVE  queue[n][i].serial < queue[n][j].serial
    <3> DEFINE q == queue[n]
    <3>1. q \in Seq(HintSet) /\ DOMAIN q = 1 .. Len(q) /\ Len(q) \in Nat
      BY <1>1, Domains DEF IInv, Shape
    <3>2. q[i] \in HintSet /\ q[j] \in HintSet /\ i \in Nat /\ j \in Nat
      BY <2>1, <3>1
    <3>3. q[i].serial \in Nat /\ q[j].serial \in Nat
      BY <3>2, SerialNat
    <3>4. q[j].serial >= q[i].serial + (j - i)
      BY <1>1, <2>1, <3>2 DEF IInv, Spaced
    <3> HIDE DEF q
    <3>5. q[i].serial < q[j].serial
      BY <2>1, <3>2, <3>3, <3>4
    <3> QED BY <3>5 DEF q
  <2>2. /\ attached \in 0 .. MaxStarts
        /\ \A n \in Starts : proc[n] \in Process
        /\ \A c \in CPU :
             /\ cpu[c].prog \in 0 .. MaxStarts
             /\ cpu[c].act \in {"none", "push", "PASS", "DROP", "ABORTED"}
             /\ cpu[c].prog # 0 <=> cpu[c].act = "push"
    BY <1>1 DEF IInv, Shape, Runs
  <2>3. \A n \in Starts :
          /\ Len(queue[n]) <= Cap
          /\ proc[n] = "sending" <=> sendbuf[n] # Nothing
          /\ proc[n] = "none" => attached # n /\ queue[n] = <<>>
          /\ \A m \in Starts : m < n /\ proc[m] = "none" => proc[n] = "none"
    BY <1>1 DEF IInv, Spaced, Started
  <2> QED BY <2>1, <2>2, <2>3 DEF TypeOK
<1> QED BY <1>1, InvariantHolds, PTL

\* A verdict that withholds a frame has its reason in the frame.
LEMMA Withheld ==
  ASSUME NEW f \in Arriving, EthAct(f) \in {"DROP", "ABORTED"}
  PROVE  ~ Whole(f) \/ f.ttl = 0 \/ f.totlen < 2
<1>1. f.fits \in Nat
  BY FramesAssumption
<1>2. CASE f.etype # "ip"
  BY <1>1, <1>2 DEF EthAct, Whole, Has
<1>3. CASE f.etype = "ip" /\ f.proto # "udp"
  BY <1>1, <1>3 DEF EthAct, Whole, Has
<1>4. CASE f.etype = "ip" /\ f.proto = "udp" /\ f.port # "vxlan"
  BY <1>1, <1>4 DEF EthAct, UdpAct, Whole, Has
<1>5. CASE f.etype = "ip" /\ f.proto = "udp" /\ f.port = "vxlan" /\ f.itype # "ip"
  BY <1>1, <1>5 DEF EthAct, UdpAct, Whole, Has
<1>6. CASE /\ f.etype = "ip" /\ f.proto = "udp" /\ f.port = "vxlan" /\ f.itype = "ip"
           /\ f.iproto \in {"tcp", "udp"}
  BY <1>1, <1>6 DEF EthAct, UdpAct, InnerIpAct, NoRoomVerdict, Whole, Has
<1>7. CASE /\ f.etype = "ip" /\ f.proto = "udp" /\ f.port = "vxlan" /\ f.itype = "ip"
           /\ f.iproto \notin {"tcp", "udp"}
  BY <1>1, <1>7 DEF EthAct, UdpAct, InnerIpAct, NoRoomVerdict, Whole, Has
<1> QED BY <1>2, <1>3, <1>4, <1>5, <1>6, <1>7

\* Whatever is pushed and whichever program is attached, trn_process_eth to
\* trn_process_inner_ip pass on every frame that is whole and not expired.
THEOREM DeliversSafe == Spec => []Delivers
<1>1. ASSUME IInv PROVE Delivers
  <2>1. SUFFICES ASSUME NEW c \in CPU, cpu[c].f # Nothing, cpu[c].act \in {"DROP", "ABORTED"}
                 PROVE  LET f == cpu[c].f IN ~ Whole(f) \/ f.ttl = 0 \/ f.totlen < 2
    BY DEF Delivers
  <2>2. cpu[c].f \in Arriving /\ cpu[c].act = EthAct(cpu[c].f)
    BY <1>1, <2>1 DEF IInv, Shape, Runs
  <2> QED BY <2>1, <2>2, Withheld
<1> QED BY <1>1, InvariantHolds, PTL

\* What cn_dp_assistant sends of a flow names the host of the address replies
\* go to, for every gateway that appends such hints.
THEOREM ToldHostSafe == Spec => []ToldHost
<1>1. ASSUME IInv PROVE ToldHost
  <2>1. SUFFICES ASSUME NEW fl \in Flows, told[fl] # Nothing
                 PROVE  /\ told[fl].dip = fl.daddr
                        /\ told[fl].dhip \in {HostOf[<<fl.vni, fl.daddr>>], 0}
    BY DEF ToldHost
  <2>2. told[fl] \in HintSet /\ told[fl].flow = fl
    BY <1>1, <2>1 DEF IInv, Shape, ToldLast
  <2>3. PICK f \in Pushable, k \in 1 .. MaxPushes : told[fl] = Hint(f, k)
    BY <2>2 DEF HintSet
  <2>4. /\ told[fl].dip = f.isip /\ told[fl].dhip = f.tail.saddr
        /\ fl.vni = f.vni /\ fl.daddr = f.isip
    BY <2>2, <2>3 DEF Hint, Flow
  <2>5. f.tail.saddr \in {HostOf[<<f.vni, f.isip>>], 0}
    BY PushedNamesHost
  <2> QED BY <2>4, <2>5
<1> QED BY <1>1, InvariantHolds, PTL

\* Once cn_dp_assistant has caught up with a flow, the agent's last word on it is
\* the newest hint, for every length of the queue and any number of CPUs.
THEOREM NewestToldSafe == Spec => []NewestTold
<1>1. ASSUME IInv PROVE NewestTold
  <2>1. SUFFICES ASSUME NEW fl \in Flows, newest[fl] # Nothing, ~ overlap,
                        proc[newest[fl].prog] = "reading",
                        ~ Waiting(fl, newest[fl].prog),
                        newest[fl].hint.serial \notin lost,
                        pushes - newest[fl].hint.serial < Cap
                 PROVE  told[fl] = newest[fl].hint
    BY DEF NewestTold
  <2> DEFINE n == newest[fl].prog
             new == newest[fl].hint
  <2>2. n \in Starts /\ new \in HintSet /\ new.flow = fl
    BY <1>1, <2>1, NewestFacts DEF IInv, Owned
  <2>3. sendbuf[n] = Nothing /\ new # Nothing
    BY <1>1, <2>1, <2>2, HintFacts DEF IInv, Started
  <2>4. ~ With(new, n)
    BY <2>1, <2>2, <2>3 DEF With, Waiting
  <2>5. ~ (pushes - new.serial >= Cap)
    BY <1>1, <2>1, <2>2, SerialNat, CapAssumption, BoundsAssumption DEF IInv, Shape
  <2>6. Alive(n)
    BY <2>1 DEF Alive
  <2> QED BY <1>1, <2>1, <2>4, <2>5, <2>6 DEF IInv, Kept
<1> QED BY <1>1, InvariantHolds, PTL

=============================================================================
