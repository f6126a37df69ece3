---------------------------- MODULE GatewayNodes ----------------------------
(***************************************************************************)
(* The manager as a whole: ZgcDroplets and Endpoints in one process.  They *)
(* share the worker, which serves one request at a time, and the           *)
(* dictionary node_ips: requests for nodes write it (nodes.py), requests   *)
(* for ports send endpoints to the nodes it has at that moment (ports.py). *)
(* For ZgcDroplets it is a set of nodes, for Endpoints a list.             *)
(*                                                                         *)
(* What a daemon's death does to its entrances is not said by ZgcDroplets, *)
(* so daemons do not die here; their calls may be lost.                    *)
(***************************************************************************)
EXTENDS Endpoints

CONSTANTS
  IP, NoNode, Ops, Settled, Resubmit, Refuses, Lossy, MaxEntrances,
  MaxRequests,  \* bound: requests for nodes
  MaxFailures   \* bound: crashes of the worker or of the operator, and requests
                \* for nodes that an exception ends

VARIABLES
  droplets, changed, handler, store, nodeRows, gws, activeZgc,
  nodeReq,      \* the request for a node being served
  loaded, entrances, untold,
  kept, lost, stranded,
  nodeRequests, failures

\* With the theorems about it, to be cited by those about this module.
Zgc == INSTANCE ZgcServiceProofs WITH
         None <- NoNode, MaxCrashes <- MaxFailures,
         node_ips <- ToSet(nodeIps), req <- nodeReq,
         requests <- nodeRequests, crashes <- failures

nodeState == <<droplets, changed, handler, store, nodeRows, gws, activeZgc, nodeReq,
               loaded, entrances, untold, kept, lost, stranded, nodeRequests, failures>>
allVars == <<vars, nodeState>>

ASSUME GatewayAssumption ==
  /\ IsFiniteSet(IP) /\ IP # {}
  /\ IsFiniteSet(Node) /\ NoNode \notin Node
  /\ Ops \subseteq {"post", "delete"}
  /\ {Settled, Resubmit, Refuses, Lossy} \subseteq BOOLEAN
  /\ {MaxEntrances, MaxRequests, MaxFailures} \subseteq Nat
ASSUME NobodyAssumption == Known = <<>>

JointInit == Init /\ Zgc!Init

Free == phase = "idle" /\ nodeReq.phase = "idle"

(***************************************************************************)
(* Requests for nodes.  node_load_transit_xdp enters the node in node_ips, *)
(* then calls its daemon; node_unload_transit_xdp takes it out again.      *)
(***************************************************************************)
PostNode(n) ==
  /\ Free
  /\ LoadNode(n)
  /\ Zgc!PostFirst(n) \/ Zgc!PostTooFew(n) \/ Zgc!PostTakes(n)
  /\ loaded' = IF daemon'[n] = "ready" THEN loaded \cup {n} ELSE loaded

\* Without a ZGC the manager raises before the call.
PostNodeNoZgc(n) ==
  /\ Free
  /\ UNCHANGED daemon
  /\ LoadNode(n)
  /\ Zgc!PostNoZgc(n)

DeleteNode(n) == Free /\ UNCHANGED vars /\ Zgc!BeginDelete(n)

PostZgc == Free /\ UNCHANGED vars /\ Zgc!PostZgc

\* The last step of a DELETE is the one that writes node_ips.
NodeStep == (UnloadNode(nodeReq.node) \/ UNCHANGED vars) /\ Zgc!ManagerStep

\* An exception ends the request, not the worker.
NodeRequestFails == UNCHANGED vars /\ Zgc!RequestFails

(***************************************************************************)
(* Requests for VPCs and ports, and their calls.                           *)
(***************************************************************************)
\* Without a ZGC POST /vpcs raises before it writes anything.
VpcRequest(v) ==
  /\ Free
  /\ \/ activeZgc /\ PostVpc(v)
     \/ DeleteVpc(v)
  /\ UNCHANGED nodeState

PortRequest ==
  /\ Free
  /\ \/ \E ps \in Requests : Post(ps)
     \/ \E p \in Port : DeletePort(p)
  /\ UNCHANGED nodeState

PortStep == (Manager \/ Cli) /\ UNCHANGED nodeState

Network ==
  /\ \/ OrphanTransmit \/ OrphanEnds
     \/ \E n \in Node : Serve(n) \/ Overtake(n)
  /\ UNCHANGED nodeState

(***************************************************************************)
(* The operator goes on whatever the manager does; one worker is killed.   *)
(***************************************************************************)
Operator ==
  /\ UNCHANGED vars
  /\ (\E d \in Node : Zgc!OperatorStep(d)) \/ Zgc!OperatorCrash

WorkerKilled == Crash /\ Zgc!ManagerCrash

JointNext ==
  \/ \E n \in Node : PostNode(n) \/ PostNodeNoZgc(n) \/ DeleteNode(n)
  \/ PostZgc \/ NodeStep \/ NodeRequestFails
  \/ \E v \in Vpc : VpcRequest(v)
  \/ PortRequest \/ PortStep \/ Network
  \/ Operator \/ WorkerKilled

JointSpec == JointInit /\ [][JointNext]_allVars /\ Fairness

(***************************************************************************)
(* Properties.                                                             *)
(***************************************************************************)
\* Until a worker is killed, the dictionary of which ports.py takes the nodes to
\* tell has every node with a droplet in service, although one is entered before the
\* droplet is created, taken out after it is deleted, and the operator writes droplets
\* at any time.  Only a node whose droplet the API server refused to delete is taken
\* out with the droplet still there, and it is back in once it is POSTed again.
GatewaysKnown ==
  crashes = 0 => \A d \in Node :
    Zgc!Live(d) => d \in ToSet(nodeIps) \/ d \in stranded

Answered201 == phase = "send" /\ phase' = "idle" /\ crashes' = 0

\* POST /ports is answered 201 only when each node that has a droplet in service by
\* then, and was not to be deleted, has been called with each of its ports.
GatewaysTold ==
  [][Answered201 =>
       ({d \in Node : Zgc!Live(d)} \ stranded) \X ToSet(req) \subseteq called]_allVars

\* Whichever gateway IP of the range a tenant takes (POST /vpcs hands out all of
\* them), the node it belongs to has been called with each port that POST /ports
\* has answered 201 for, until something crashes: refused calls leave exactly the IPs
\* they did not hand out and the droplets they did not delete without that.
EveryGatewayTold ==
  [][Answered201 /\ failures = 0 /\ Zgc!Listed # {} =>
       \A ip \in IP \ lost : \E d \in Node :
         /\ Zgc!Live(d) /\ ip \in droplets[d].ip
         /\ d \in stranded \/ {d} \X ToSet(req) \subseteq called]_allVars

=============================================================================
