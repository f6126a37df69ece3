------------------------------- MODULE CnDpnd -------------------------------
(***************************************************************************)
(* The dataplane notification daemon of a compute node.  An XDP program    *)
(* reads the hints a gateway has appended to a frame (see TransitXdp) and  *)
(* pushes what they say to a queue; a process pops the queue and tells the *)
(* control agent of the node, which may then send replies directly.        *)
(*                                                                         *)
(* Every start of the process loads a program and a queue of its own, so   *)
(* the number of the start names all three.  The program stays attached,   *)
(* and its queue in use, when the process ends.                            *)
(***************************************************************************)
EXTENDS Naturals, Sequences

CONSTANTS
  CPU,        \* CPUs that run the program
  Frames,     \* frames that arrive, by the number of hints pushed before
  Objects,    \* object files loaded: "good", "noqueue", "othersize"
  Cap,        \* CN_LOCAL_QUEUE_LEN, 1024
  MaxStarts,  \* bound: starts of the process
  MaxPushes,  \* bound: hints pushed
  HostOf,     \* the host of an address of a network: what gateways know
  Nothing     \* no hint

ASSUME CapAssumption == Cap \in Nat /\ Cap > 0
ASSUME BoundsAssumption == MaxStarts \in Nat /\ MaxPushes \in Nat

VARIABLES
  cpu,        \* the run on each CPU
  attached,   \* whose program is on the device, 0 for none
  proc,       \* the process of each start
  object,     \* the object file of each start
  queue,      \* local_queue_map of each start
  sendbuf,    \* what the process has popped and not sent yet
  pushes,     \* history: hints pushed, which also numbers them
  newest,     \* history: the last hint of each flow, and where it went
  told,       \* history: the last hint of each flow the agent was told
  lost,       \* history: hints whose datagram was not sent
  overlap     \* history: two processes have been reading at once

daemon == <<proc, object, queue, sendbuf>>
history == <<pushes, newest, told, lost, overlap>>
vars == <<cpu, attached, daemon, history>>

Starts == 1 .. MaxStarts
Process == {"none", "loaded", "reading", "sending", "dead"}
Alive(n) == proc[n] \notin {"none", "dead"}

Flow(f) == [vni |-> f.vni, saddr |-> f.idip, daddr |-> f.isip, protocol |-> f.iproto]

Arriving == UNION {Frames[k] : k \in 0 .. MaxPushes}
Flows == {Flow(f) : f \in Arriving}

Idle == [prog |-> 0, f |-> Nothing, act |-> "none"]

TypeOK ==
  /\ attached \in 0 .. MaxStarts
  /\ \A n \in Starts :
       /\ proc[n] \in Process
       /\ Len(queue[n]) <= Cap
       /\ \A i, j \in DOMAIN queue[n] : i < j => queue[n][i].serial < queue[n][j].serial
       /\ proc[n] = "sending" <=> sendbuf[n] # Nothing
       /\ proc[n] = "none" => attached # n /\ queue[n] = <<>>
       /\ \A m \in Starts : m < n /\ proc[m] = "none" => proc[n] = "none"
  /\ \A c \in CPU :
       /\ cpu[c].prog \in 0 .. MaxStarts
       /\ cpu[c].act \in {"none", "push", "PASS", "DROP", "ABORTED"}
       /\ cpu[c].prog # 0 <=> cpu[c].act = "push"

Init ==
  /\ cpu = [c \in CPU |-> Idle]
  /\ attached = 0
  /\ proc = [n \in Starts |-> "none"]
  /\ object = [n \in Starts |-> "good"]
  /\ queue = [n \in Starts |-> <<>>]
  /\ sendbuf = [n \in Starts |-> Nothing]
  /\ pushes = 0
  /\ newest = [fl \in Flows |-> Nothing]
  /\ told = [fl \in Flows |-> Nothing]
  /\ lost = {}
  /\ overlap = FALSE

(***************************************************************************)
(* The XDP program.  fits counts the headers a frame has in full: Ethernet,*)
(* IP, UDP, VXLAN, inner Ethernet, inner IP, inner TCP or UDP.             *)
(***************************************************************************)
Has(f, layer) == f.fits >= layer

NoRoomAborts == "ABORTED"

\* No room for hints behind the packet: not for us.
NoRoomVerdict == "PASS"

InnerIpActAnyVni(f) ==
  IF ~ Has(f, 6) THEN "ABORTED"
    ELSE IF f.iproto \in {"tcp", "udp"} /\ ~ Has(f, 7) THEN "ABORTED"
    ELSE IF f.iproto = "icmp" THEN "PASS"
    ELSE IF f.totlen < 2 THEN "DROP"
    ELSE IF f.tail = Nothing THEN NoRoomVerdict
    ELSE IF f.tail.flags # "0x5354" THEN "PASS"
    ELSE "push"

\* trn_process_inner_ip: the verdict, or "push" where it goes on.  tot_len is
\* masked to 12 bits on both ends, so that hints are looked for where they are.
InnerIpAct(f) ==
  IF ~ Has(f, 6) THEN "ABORTED"
    ELSE IF f.iproto \in {"tcp", "udp"} /\ ~ Has(f, 7) THEN "ABORTED"
    ELSE IF f.iproto = "icmp" THEN "PASS"
    ELSE IF f.totlen < 2 THEN "DROP"
    ELSE IF f.tail = Nothing THEN NoRoomVerdict
    ELSE IF f.tail.flags # "0x5354" \/ f.tail.vni # f.vni THEN "PASS"
    ELSE "push"

\* trn_process_udp, trn_process_vxlan, trn_process_inner_eth.
UdpAct(f) ==
  IF ~ Has(f, 3) THEN "ABORTED"
    ELSE IF f.port # "vxlan" THEN "PASS"
    ELSE IF ~ Has(f, 5) THEN "ABORTED"
    ELSE IF f.itype # "ip" THEN "PASS"
    ELSE InnerIpAct(f)

\* trn_process_eth, trn_process_ip.
EthAct(f) ==
  IF ~ Has(f, 1) THEN "ABORTED"
    ELSE IF f.etype # "ip" THEN "PASS"
    ELSE IF ~ Has(f, 2) THEN "ABORTED"
    ELSE IF f.ttl = 0 THEN "DROP"
    ELSE IF f.proto # "udp" THEN "PASS"
    ELSE UdpAct(f)

\* What is pushed for a frame; k, its number, is the model's.
Hint(f, k) ==
  [flow |-> Flow(f), dip |-> f.isip, dmac |-> f.ismac, dhip |-> f.tail.saddr,
   dhmac |-> f.tail.smac, serial |-> k]

ASSUME FramesAssumption ==
  /\ Nothing \notin Arriving
  /\ \A f \in Arriving : f.fits \in Nat
  /\ \A f \in Arriving, k \in 1 .. MaxPushes :
       EthAct(f) = "push" => Hint(f, k) # Nothing

\* Of gateways: HintsNameSender of TransitXdp.
ASSUME GatewayAssumption ==
  \A f \in Arriving :
    f.tail # Nothing /\ f.tail.flags = "0x5354" /\ f.tail.vni = f.vni =>
      f.tail.saddr \in {HostOf[<<f.vni, f.isip>>], 0}

PushedNoExist(q, h) == IF Len(q) = Cap THEN q ELSE Append(q, h)

PushedUnbounded(q, h) == Append(q, h)

\* bpf_map_push_elem with BPF_EXIST: a full queue gives up its oldest.
Pushed(q, h) == Append(IF Len(q) = Cap THEN Tail(q) ELSE q, h)

\* A frame arrives.  Up to the push a run reads only its frame, and a run that
\* pushes nothing is one step.
Arrive(c, f) ==
  LET act == EthAct(f)
  IN
  /\ attached # 0
  /\ cpu[c].f = Nothing
  /\ cpu' = [cpu EXCEPT ![c] =
               [prog |-> IF act = "push" THEN attached ELSE 0, f |-> f, act |-> act]]
  /\ UNCHANGED <<attached, daemon, history>>

\* A run goes on with its program although another is attached meanwhile.
Push(c) ==
  LET n == cpu[c].prog
      h == Hint(cpu[c].f, pushes + 1)
  IN
  /\ n # 0
  /\ pushes < MaxPushes
  /\ cpu' = [cpu EXCEPT ![c].prog = 0, ![c].act = "PASS"]
  /\ queue' = [queue EXCEPT ![n] = Pushed(@, h)]
  /\ pushes' = pushes + 1
  /\ newest' = [newest EXCEPT ![h.flow] = [prog |-> n, hint |-> h]]
  /\ UNCHANGED <<attached, proc, object, sendbuf, told, lost, overlap>>

Leave(c) ==
  /\ cpu[c].f # Nothing
  /\ cpu[c].prog = 0
  /\ cpu' = [cpu EXCEPT ![c] = Idle]
  /\ UNCHANGED <<attached, daemon, history>>

\* The queue of a program that is neither attached nor run nor read is freed.
InUse(n) == attached = n \/ Alive(n) \/ \E c \in CPU : cpu[c].prog = n

Free(n) ==
  /\ queue[n] # <<>>
  /\ ~ InUse(n)
  /\ queue' = [queue EXCEPT ![n] = <<>>]
  /\ UNCHANGED <<cpu, attached, proc, object, sendbuf, history>>

(***************************************************************************)
(* The process.  main: without --force a device that has a program is left *)
(* alone, and the process ends; that start is no step.                     *)
(***************************************************************************)
Start(n, obj, force) ==
  /\ proc[n] = "none"
  /\ \A m \in Starts : m < n => proc[m] # "none"
  /\ attached = 0 \/ force
  /\ attached' = n
  /\ proc' = [proc EXCEPT ![n] = "loaded"]
  /\ object' = [object EXCEPT ![n] = obj]
  /\ UNCHANGED <<cpu, queue, sendbuf, history>>

\* main after the load: the queue is looked for and its size compared.
FindQueue(n) ==
  /\ proc[n] = "loaded"
  /\ object[n] = "good"
  /\ proc' = [proc EXCEPT ![n] = "reading"]
  /\ overlap' = (overlap \/ \E m \in Starts \ {n} : proc[m] \in {"reading", "sending"})
  /\ UNCHANGED <<cpu, attached, object, queue, sendbuf, pushes, newest, told, lost>>

\* No queue: whatever program is on the device by now is detached.
NoQueue(n) ==
  /\ proc[n] = "loaded"
  /\ object[n] = "noqueue"
  /\ attached' = 0
  /\ proc' = [proc EXCEPT ![n] = "dead"]
  /\ UNCHANGED <<cpu, object, queue, sendbuf, history>>

\* A queue of another size, or no socket: the program stays.
Unfit(n) ==
  /\ proc[n] = "loaded"
  /\ object[n] \in {"othersize", "good"}
  /\ proc' = [proc EXCEPT ![n] = "dead"]
  /\ UNCHANGED <<cpu, attached, object, queue, sendbuf, history>>

PopPeeks(n) ==
  /\ proc[n] = "reading"
  /\ queue[n] # <<>>
  /\ sendbuf' = [sendbuf EXCEPT ![n] = Head(queue[n])]
  /\ proc' = [proc EXCEPT ![n] = "sending"]
  /\ UNCHANGED <<cpu, attached, object, queue, history>>

\* cn_dp_assistant: lookup and delete; on an empty queue it sleeps and tries again.
Pop(n) ==
  /\ proc[n] = "reading"
  /\ queue[n] # <<>>
  /\ queue' = [queue EXCEPT ![n] = Tail(@)]
  /\ sendbuf' = [sendbuf EXCEPT ![n] = Head(queue[n])]
  /\ proc' = [proc EXCEPT ![n] = "sending"]
  /\ UNCHANGED <<cpu, attached, object, history>>

\* sendto; an error is printed and the hint forgotten.
Sent(n) ==
  /\ proc[n] = "sending"
  /\ proc' = [proc EXCEPT ![n] = "reading"]
  /\ sendbuf' = [sendbuf EXCEPT ![n] = Nothing]
  /\ UNCHANGED <<cpu, attached, object, queue, pushes, newest, overlap>>

Send(n) ==
  /\ Sent(n)
  /\ told' = [told EXCEPT ![sendbuf[n].flow] = sendbuf[n]]
  /\ UNCHANGED lost

SendFails(n) ==
  /\ Sent(n)
  /\ lost' = lost \cup {sendbuf[n].serial}
  /\ UNCHANGED told

Kill(n) ==
  /\ Alive(n)
  /\ proc' = [proc EXCEPT ![n] = "dead"]
  /\ sendbuf' = [sendbuf EXCEPT ![n] = Nothing]
  /\ UNCHANGED <<cpu, attached, object, queue, history>>

\* A process started with --unload.
Unload ==
  /\ attached # 0
  /\ attached' = 0
  /\ UNCHANGED <<cpu, daemon, history>>

ProgramStep(c) == Push(c) \/ Leave(c)
ProcessStep(n) ==
  FindQueue(n) \/ NoQueue(n) \/ Unfit(n) \/ Pop(n) \/ Send(n) \/ SendFails(n)

Next ==
  \/ \E c \in CPU, f \in Frames[pushes] : Arrive(c, f)
  \/ \E c \in CPU : ProgramStep(c)
  \/ \E n \in Starts, obj \in Objects, force \in BOOLEAN : Start(n, obj, force)
  \/ \E n \in Starts : ProcessStep(n) \/ Kill(n) \/ Free(n)
  \/ Unload

\* A process that is not killed runs on; frames, starts and kills owe nothing.
Fairness == \A n \in Starts : WF_vars(ProcessStep(n))

Spec == Init /\ [][Next]_vars /\ Fairness

(***************************************************************************)
(* Properties.                                                             *)
(***************************************************************************)
\* Hints that are there, missing, cut off or not for us, a full queue and a
\* program replaced meanwhile never cost the host a frame: only one that is cut
\* short in a header it claims, or expired, is not passed on.
Whole(f) ==
  /\ f.fits >= 1
  /\ f.etype = "ip" =>
       /\ f.fits >= 2
       /\ f.proto = "udp" =>
            /\ f.fits >= 3
            /\ f.port = "vxlan" =>
                 /\ f.fits >= 5
                 /\ f.itype = "ip" =>
                      f.fits >= IF f.iproto \in {"tcp", "udp"} THEN 7 ELSE 6

Delivers ==
  \A c \in CPU : cpu[c].f # Nothing /\ cpu[c].act \in {"DROP", "ABORTED"} =>
    LET f == cpu[c].f IN ~ Whole(f) \/ f.ttl = 0 \/ f.totlen < 2

\* What the agent is told sends the replies of a flow to the host of the address
\* they are for, or to host 0 if the gateway raced with itself.
ToldHost ==
  \A fl \in Flows : told[fl] # Nothing =>
    /\ told[fl].dip = fl.daddr
    /\ told[fl].dhip \in {HostOf[<<fl.vni, fl.daddr>>], 0}

\* Once a reader has caught up, the agent's last word on a flow is the newest hint,
\* however full the queue was, unless a whole queue of newer ones came after it,
\* its datagram was lost, or two processes have read side by side.
Waiting(fl, n) == \E i \in DOMAIN queue[n] : queue[n][i].flow = fl

NewestTold ==
  \A fl \in Flows : newest[fl] # Nothing /\ ~ overlap =>
    LET n == newest[fl].prog
        h == newest[fl].hint
    IN  proc[n] = "reading" /\ ~ Waiting(fl, n) /\ h.serial \notin lost
          /\ pushes - h.serial < Cap
        => told[fl] = h

\* A process that reads comes to the end of its queue when no more hints come,
\* whatever becomes of its datagrams.
Reading(n) == proc[n] \in {"reading", "sending"}

Drained ==
  \A n \in Starts :
    Reading(n) /\ queue[n] # <<>> ~> queue[n] = <<>> \/ proc[n] = "dead"

=============================================================================
