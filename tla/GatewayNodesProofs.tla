------------------------- MODULE GatewayNodesProofs -------------------------
(***************************************************************************)
(* Theorems about GatewayNodes: the two components, in one worker, still   *)
(* implement their specifications, so that what is proved of each holds of *)
(* both together; and which nodes a port's request tells.                  *)
(***************************************************************************)
EXTENDS GatewayNodes, EndpointsProofs

(***************************************************************************)
(* Facts about ZgcDroplets, under the constants of GatewayNodes.           *)
(***************************************************************************)
ZgcShape == Zgc!TypeOK /\ Zgc!RequestShape /\ Zgc!RacingInv

LEMMA ZgcInitShape == Zgc!Init => ZgcShape
<1>1. Zgc!Init => Zgc!TypeOK /\ Zgc!RequestShape
  BY Zgc!TypeInit, GatewayAssumption DEF IsFiniteSet, Zgc!IsFiniteSet
<1>2. Zgc!Init => Zgc!RacingInv
  BY Zgc!RacingInit, GatewayAssumption DEF IsFiniteSet, Zgc!IsFiniteSet
<1> QED BY <1>1, <1>2 DEF ZgcShape

LEMMA ZgcStepShape ==
  ASSUME ZgcShape, [Zgc!Next]_Zgc!vars
  PROVE  ZgcShape'
<1>1. Zgc!TypeOK' /\ Zgc!RequestShape'
  BY Zgc!TypeStep, GatewayAssumption DEF ZgcShape, IsFiniteSet, Zgc!IsFiniteSet
<1>2. Zgc!RacingInv'
  BY Zgc!RacingStep, GatewayAssumption DEF ZgcShape, IsFiniteSet, Zgc!IsFiniteSet
<1> QED BY <1>1, <1>2 DEF ZgcShape

LEMMA ZgcServedInit == Zgc!Init => Zgc!ServedKnown
BY Zgc!ServedInit, GatewayAssumption DEF IsFiniteSet, Zgc!IsFiniteSet

LEMMA ZgcServedStep ==
  ASSUME ZgcShape, Zgc!ServedKnown, Zgc!NextUnkilled
  PROVE  Zgc!ServedKnown'
BY Zgc!ServedStep, GatewayAssumption DEF ZgcShape, IsFiniteSet, Zgc!IsFiniteSet

LEMMA ZgcRange ==
  ASSUME Settled
  PROVE  Zgc!Spec => []Zgc!RangeCovered
BY Zgc!NothingLost, GatewayAssumption DEF IsFiniteSet, Zgc!IsFiniteSet

(***************************************************************************)
(* Each component takes a step of its own, or none.                        *)
(***************************************************************************)
LEMMA StillNodes ==
  ASSUME UNCHANGED nodeState, UNCHANGED nodeIps
  PROVE  UNCHANGED Zgc!vars
BY DEF nodeState, Zgc!vars, Zgc!kube, Zgc!oper, Zgc!db, Zgc!memory, Zgc!plane, Zgc!history

\* What is not the end of the worker leaves the nodes' requests a step of theirs.
LEMMA NodesStep ==
  ASSUME JointNext, ~ WorkerKilled
  PROVE  Zgc!NextUnkilled
<1>1. CASE \E n \in Node : PostNode(n) \/ PostNodeNoZgc(n) \/ DeleteNode(n)
  BY <1>1 DEF PostNode, PostNodeNoZgc, DeleteNode, Zgc!NextUnkilled
<1>2. CASE PostZgc \/ NodeStep \/ NodeRequestFails \/ Operator
  BY <1>2 DEF PostZgc, NodeStep, NodeRequestFails, Operator, Zgc!NextUnkilled
<1>3. CASE (\E v \in Vpc : VpcRequest(v)) \/ PortRequest \/ PortStep \/ Network
  <2>1. UNCHANGED nodeState
    BY <1>3 DEF VpcRequest, PortRequest, PortStep, Network
  <2>2. UNCHANGED nodeIps
    <3>1. CASE (\E v \in Vpc : VpcRequest(v)) \/ PortRequest
      BY <3>1 DEF VpcRequest, PortRequest, PostVpc, DeleteVpc, Post, DeletePort, memory
    <3>2. CASE PortStep
      BY <3>2 DEF PortStep, Manager, Cli, CommitPorts, CommitEps, Call, Finish, Transmit,
                  Unreached, Replied, Expire, Conclude, memory
    <3>3. CASE Network
      BY <3>3 DEF Network, OrphanTransmit, OrphanEnds, Serve, Overtake, memory
    <3> QED BY <1>3, <3>1, <3>2, <3>3
  <2> QED BY <2>1, <2>2, StillNodes DEF Zgc!NextUnkilled
<1> QED BY <1>1, <1>2, <1>3 DEF JointNext

LEMMA ZgcStep == [JointNext]_allVars => [Zgc!Next]_Zgc!vars
<1>1. CASE UNCHANGED allVars
  <2>1. UNCHANGED nodeState /\ UNCHANGED nodeIps
    BY <1>1 DEF allVars, vars, memory
  <2> QED BY <2>1, StillNodes
<1>2. CASE WorkerKilled
  BY <1>2 DEF WorkerKilled, Zgc!Next
<1>3. CASE JointNext /\ ~ WorkerKilled
  BY <1>3, NodesStep DEF Zgc!NextUnkilled, Zgc!Next
<1> QED BY <1>1, <1>2, <1>3

\* The nodes' requests and the operator keep to ZgcDroplets: ports, VPCs and what goes
\* on in the network take nothing of theirs.  Every theorem about ZgcDroplets holds here.
THEOREM ImplementsZgc == JointSpec => Zgc!Spec
<1>1. JointInit => Zgc!Init
  BY DEF JointInit
<1> QED BY <1>1, ZgcStep, PTL DEF JointSpec, Zgc!Spec

LEMMA ZgcShapeSafe == JointSpec => []ZgcShape
<1>1. JointInit => ZgcShape
  BY ZgcInitShape DEF JointInit
<1>2. ZgcShape /\ [JointNext]_allVars => ZgcShape'
  BY ZgcStep, ZgcStepShape
<1> QED BY <1>1, <1>2, PTL DEF JointSpec

LEMMA Busy == NodeStep => nodeReq.phase # "idle"
BY DEF NodeStep, Zgc!ManagerStep, Zgc!GwDelete, Zgc!AbortNoRow, Zgc!PickReceiver,
       Zgc!GwAdd, Zgc!Replace, Zgc!ReplaceRefused, Zgc!Push, Zgc!Create,
       Zgc!CreateRefused, Zgc!PushNew, Zgc!Commit, Zgc!Remove, Zgc!RemoveRefused,
       Zgc!Unload, Zgc!AfterUpdates

LEMMA PortsStep ==
  ASSUME ZgcShape, [JointNext]_allVars
  PROVE  [Next]_vars
<1>1. CASE \E n \in Node : PostNode(n) \/ PostNodeNoZgc(n) \/ DeleteNode(n)
  BY <1>1 DEF PostNode, PostNodeNoZgc, DeleteNode, Next
<1>2. CASE NodeStep
  <2>1. nodeReq.phase # "idle"
    BY <1>2, Busy
  <2>2. nodeReq.node \in Node
    BY <2>1 DEF ZgcShape, Zgc!RequestShape
  <2> QED BY <1>2, <2>2 DEF NodeStep, Next
<1>3. CASE PostZgc \/ NodeRequestFails \/ Operator \/ UNCHANGED allVars
  BY <1>3 DEF PostZgc, NodeRequestFails, Operator, allVars
<1>4. CASE (\E v \in Vpc : VpcRequest(v)) \/ PortRequest \/ PortStep
  BY <1>4 DEF VpcRequest, PortRequest, PortStep, Next
<1>5. CASE Network \/ WorkerKilled
  BY <1>5 DEF Network, WorkerKilled, Next
<1> QED BY <1>1, <1>2, <1>3, <1>4, <1>5 DEF JointNext

\* The ports' requests keep to Endpoints, with its fairness: a node's request loads and
\* unloads a node when it writes node_ips, and is nothing to them otherwise.
THEOREM ImplementsEndpoints == JointSpec => Spec
<1>1. JointInit => Init
  BY DEF JointInit
<1>2. ZgcShape /\ [JointNext]_allVars => [Next]_vars
  BY PortsStep
<1> QED BY <1>1, <1>2, ZgcShapeSafe, PTL DEF JointSpec, Spec

(***************************************************************************)
(* Requests for nodes and for ports are served one at a time.              *)
(***************************************************************************)
OneAtATime == phase # "idle" => nodeReq.phase = "idle"

LEMMA OneAtATimeInit == JointInit => OneAtATime
BY DEF JointInit, Init, OneAtATime

LEMMA OneAtATimeStep ==
  ASSUME OneAtATime, [JointNext]_allVars
  PROVE  OneAtATime'
<1>1. CASE \E n \in Node : PostNode(n) \/ PostNodeNoZgc(n) \/ DeleteNode(n)
  <2>1. phase = "idle" /\ UNCHANGED phase
    BY <1>1 DEF PostNode, PostNodeNoZgc, DeleteNode, Free, LoadNode, vars, serving
  <2> QED BY <2>1 DEF OneAtATime
<1>2. CASE NodeStep
  <2>1. nodeReq.phase # "idle"
    BY <1>2, Busy
  <2>2. UNCHANGED phase
    BY <1>2 DEF NodeStep, UnloadNode, vars, serving
  <2> QED BY <2>1, <2>2 DEF OneAtATime
<1>3. CASE PostZgc \/ NodeRequestFails \/ Operator \/ UNCHANGED allVars
  <2>1. UNCHANGED phase /\ (UNCHANGED nodeReq \/ nodeReq'.phase = "idle")
    BY <1>3 DEF PostZgc, Operator, allVars, vars, serving, nodeState, Zgc!PostZgc,
                Zgc!OperatorStep, Zgc!StartProvision, Zgc!FinishProvision, Zgc!Finalize,
                Zgc!OperatorCrash, NodeRequestFails, Zgc!RequestFails, Zgc!NoRequest
  <2> QED BY <2>1 DEF OneAtATime
<1>4. CASE (\E v \in Vpc : VpcRequest(v)) \/ PortRequest
  BY <1>4 DEF VpcRequest, PortRequest, Free, nodeState, OneAtATime
<1>5. CASE PortStep
  <2>1. UNCHANGED nodeReq /\ (phase' # "idle" => phase # "idle")
    BY <1>5 DEF PortStep, nodeState, Manager, Cli, CommitPorts, CommitEps, Call, Finish,
                Transmit, Unreached, Replied, Expire, Conclude, serving
  <2> QED BY <2>1 DEF OneAtATime
<1>6. CASE Network \/ WorkerKilled
  <2>1. phase' = "idle" \/ UNCHANGED <<phase, nodeReq>>
    BY <1>6 DEF Network, WorkerKilled, Crash, nodeState, OrphanTransmit, OrphanEnds, Serve,
                Overtake, serving
  <2> QED BY <2>1 DEF OneAtATime
<1> QED BY <1>1, <1>2, <1>3, <1>4, <1>5, <1>6 DEF JointNext

(***************************************************************************)
(* The nodes the manager knows, until a worker is killed.                  *)
(***************************************************************************)
Undisturbed == crashes \in Nat /\ (crashes = 0 => Zgc!ServedKnown)

LEMMA CrashesGrow ==
  ASSUME crashes \in Nat, [JointNext]_allVars
  PROVE  /\ crashes' \in Nat
         /\ crashes' = 0 => crashes = 0 /\ ~ WorkerKilled
<1>1. CASE WorkerKilled
  BY <1>1 DEF WorkerKilled, Crash
<1>2. ASSUME ~ WorkerKilled PROVE UNCHANGED crashes
  <2>1. CASE \E n \in Node : PostNode(n) \/ PostNodeNoZgc(n) \/ DeleteNode(n)
    BY <2>1 DEF PostNode, PostNodeNoZgc, DeleteNode, LoadNode, Change, vars, counts
  <2>2. CASE PostZgc \/ NodeStep \/ NodeRequestFails \/ Operator \/ UNCHANGED allVars
    BY <2>2 DEF PostZgc, NodeStep, NodeRequestFails, Operator, UnloadNode, Change, allVars, vars, counts
  <2>3. CASE (\E v \in Vpc : VpcRequest(v)) \/ PortRequest
    BY <2>3 DEF VpcRequest, PortRequest, PostVpc, DeleteVpc, Post, DeletePort, Change
  <2>4. CASE PortStep
    BY <2>4 DEF PortStep, Manager, Cli, CommitPorts, CommitEps, Call, Finish, Transmit,
                Unreached, Replied, Expire, Conclude, counts
  <2>5. CASE Network
    BY <2>5 DEF Network, OrphanTransmit, OrphanEnds, Serve, Overtake, counts
  <2> QED BY <1>2, <2>1, <2>2, <2>3, <2>4, <2>5 DEF JointNext
<1>3. CASE ~ WorkerKilled
  BY <1>2, <1>3
<1> QED BY <1>1, <1>3

LEMMA UndisturbedStep ==
  ASSUME ZgcShape, Undisturbed, [JointNext]_allVars
  PROVE  Undisturbed'
<1>1. crashes' \in Nat /\ (crashes' = 0 => crashes = 0 /\ ~ WorkerKilled)
  BY CrashesGrow DEF Undisturbed
<1>2. ASSUME crashes' = 0 PROVE Zgc!ServedKnown'
  <2>1. Zgc!ServedKnown /\ ~ WorkerKilled
    BY <1>1, <1>2 DEF Undisturbed
  <2>2. CASE JointNext
    BY <2>1, <2>2, NodesStep, ZgcServedStep
  <2>3. CASE UNCHANGED allVars
    <3>1. UNCHANGED nodeState /\ UNCHANGED nodeIps
      BY <2>3 DEF allVars, vars, memory
    <3>2. Zgc!NextUnkilled
      BY <3>1, StillNodes DEF Zgc!NextUnkilled
    <3> QED BY <2>1, <3>2, ZgcServedStep
  <2> QED BY <2>2, <2>3
<1> QED BY <1>1, <1>2 DEF Undisturbed

LEMMA UndisturbedSafe == JointSpec => [](Undisturbed /\ OneAtATime)
<1>1. JointInit => Undisturbed /\ OneAtATime
  <2>1. JointInit => crashes = 0 /\ Zgc!ServedKnown
    BY ZgcServedInit DEF JointInit, Init
  <2> QED BY <2>1, OneAtATimeInit DEF Undisturbed
<1>2. ZgcShape /\ Undisturbed /\ OneAtATime /\ [JointNext]_allVars
        => (Undisturbed /\ OneAtATime)'
  BY UndisturbedStep, OneAtATimeStep
<1> QED BY <1>1, <1>2, ZgcShapeSafe, PTL DEF JointSpec

\* GatewaysKnown: nodes.py and ports.py share one dictionary, written at the beginning
\* of a POST and at the end of a DELETE, and however the operator runs between and
\* whatever the API server refuses, no droplet in service is on a node that is missing
\* there, but one whose deletion was refused.
THEOREM GatewaysKnownSafe == JointSpec => []GatewaysKnown
<1>1. Undisturbed => GatewaysKnown
  BY DEF Undisturbed, Zgc!ServedKnown, GatewaysKnown
<1> QED BY <1>1, UndisturbedSafe, PTL

\* GatewaysTold: from what is proved of each component, in each state and step of both
\* together.
THEOREM GatewaysToldSafe == JointSpec => GatewaysTold
<1>1. JointSpec => EveryNodeTold
  BY ImplementsEndpoints, NodesTold, PTL
<1>2. Undisturbed /\ [JointNext]_allVars
        /\ [phase = "send" /\ phase' = "idle" /\ crashes' = crashes
              => ToSet(nodeIps) \X ToSet(req) \subseteq called]_vars
        => [Answered201 =>
              ({d \in Node : Zgc!Live(d)} \ stranded) \X ToSet(req) \subseteq called]_allVars
  <2> SUFFICES ASSUME Undisturbed, [JointNext]_allVars, Answered201,
                      [phase = "send" /\ phase' = "idle" /\ crashes' = crashes
                         => ToSet(nodeIps) \X ToSet(req) \subseteq called]_vars
               PROVE  ({d \in Node : Zgc!Live(d)} \ stranded) \X ToSet(req) \subseteq called
    OBVIOUS
  <2>1. crashes = 0 /\ crashes' = 0 /\ phase = "send" /\ phase' = "idle"
    BY CrashesGrow DEF Answered201, Undisturbed
  <2>2. ToSet(nodeIps) \X ToSet(req) \subseteq called
    BY <2>1 DEF vars, serving
  <2>3. {d \in Node : Zgc!Live(d)} \ stranded \subseteq ToSet(nodeIps)
    BY <2>1 DEF Undisturbed, Zgc!ServedKnown
  <2> QED BY <2>2, <2>3
<1> QED BY <1>1, <1>2, UndisturbedSafe, PTL DEF JointSpec, EveryNodeTold, GatewaysTold

\* EveryGatewayTold: between node requests the ZGC's IPs are covered by droplets, those
\* apart that refused calls did not hand out, and while ports are served there is no
\* node request.
THEOREM EveryGatewayToldSafe ==
  ASSUME Settled
  PROVE  JointSpec => EveryGatewayTold
<1>1. JointSpec => []Zgc!RangeCovered
  BY ImplementsZgc, ZgcRange, PTL
<1>2. OneAtATime /\ Zgc!RangeCovered
        /\ [Answered201 =>
              ({d \in Node : Zgc!Live(d)} \ stranded) \X ToSet(req) \subseteq called]_allVars
        => [Answered201 /\ failures = 0 /\ Zgc!Listed # {} =>
              \A ip \in IP \ lost : \E d \in Node :
                /\ Zgc!Live(d) /\ ip \in droplets[d].ip
                /\ d \in stranded \/ {d} \X ToSet(req) \subseteq called]_allVars
  <2> SUFFICES ASSUME OneAtATime, Zgc!RangeCovered, Answered201, failures = 0,
                      Zgc!Listed # {},
                      ({d \in Node : Zgc!Live(d)} \ stranded) \X ToSet(req) \subseteq called,
                      NEW ip \in IP \ lost
               PROVE  \E d \in Node :
                        /\ Zgc!Live(d) /\ ip \in droplets[d].ip
                        /\ d \in stranded \/ {d} \X ToSet(req) \subseteq called
    OBVIOUS
  <2>1. nodeReq.phase = "idle"
    BY DEF OneAtATime, Answered201
  <2>2. PICK d \in Node : Zgc!Live(d) /\ ip \in droplets[d].ip
    BY <2>1 DEF Zgc!RangeCovered
  <2> QED BY <2>2
<1> QED BY <1>1, <1>2, GatewaysToldSafe, UndisturbedSafe, PTL
     DEF GatewaysTold, EveryGatewayTold

=============================================================================
