----------------------------- MODULE Endpoints -----------------------------
(***************************************************************************)
(* How the manager tells the gateway nodes where the endpoints of ports    *)
(* are.  A request leaves its endpoints in a list of the manager's process,*)
(* commits its rows, and sends the list in batches to every node the       *)
(* process knows: for each batch and node it runs the CLI once and waits.  *)
(* The CLI calls the node's daemon over UDP and sends a call again when no *)
(* reply comes; the daemon keeps no record of calls it has served.         *)
(*                                                                         *)
(* gunicorn runs one worker, so there is one request at a time.  It kills  *)
(* a worker that is busy for too long, whose CLI then runs on.             *)
(*                                                                         *)
(* An endpoint is known by its port: <<vni, ip>> of the port's first       *)
(* address.  What is said of it (MAC, host) is the number of the request   *)
(* that said it.                                                           *)
(***************************************************************************)
EXTENDS Naturals, SequencesExt

CONSTANTS
  Node,       \* gateway nodes
  Vpc,        \* VPCs
  Port,       \* ports
  VpcOf,      \* the VPC of each port
  Requests,   \* lists of ports posted
  Batch,      \* EP_BATCH_MAX of ports.py, 360
  BatchLimit, \* TRAN_MAX_EP_BATCH_SIZE of the CLI, 360
  Capacity,   \* TRAN_MAX_NEP, entries of a node's endpoints_map
  Socket,     \* copies that a daemon's socket holds
  MaxSends,   \* copies of a call in its 25 seconds, one every 5: 5
  MaxPosts,   \* bound: requests numbered
  MaxChanges, \* bound: VPCs, nodes and ports that come and go
  Made,       \* VPCs made at the beginning
  Known,      \* nodes loaded at the beginning, in this order
  MaxCrashes, \* bound: workers killed
  MaxDeaths,  \* bound: deaths of daemons
  NoCall      \* no CLI runs

\* "Make sure matching TRAN_MAX_EP_BATCH_SIZE": the CLI refuses a longer batch.
ASSUME BatchAssumption == Batch \in Nat \ {0} /\ Batch <= BatchLimit
ASSUME SendsAssumption == MaxSends \in Nat \ {0}
ASSUME VpcAssumption == VpcOf \in [Port -> Vpc]
ASSUME FiniteAssumption == IsFiniteSet(Port)
ASSUME KnownAssumption == Known \in Seq(Node) /\ IsInjective(Known)
ASSUME RequestsAssumption == Requests \subseteq Seq(Port)
ASSUME BoundsAssumption == {Capacity, Socket, MaxPosts} \subseteq Nat

VARIABLES
  portRows,   \* table ports
  vpcRows,    \* table vpcs
  vnis,       \* settings.vnis: the VPCs this worker has seen made
  nodeIps,    \* settings.node_ips, a dict in the order of insertion
  eps,        \* ports.eps: endpoints that wait to be sent
  req,        \* the request being served
  phase,      \* how far it has come
  at,         \* the batch and the node it is at
  call,       \* the CLI the worker waits for
  orphan,     \* a CLI whose worker was killed
  net,        \* copies of calls on their way to each daemon, in its socket
  daemon,     \* "down", "bare" without maps, or "ready"
  table,      \* endpoints_map of the program attached on each node
  posts,      \* history: requests numbered
  calls,      \* history: calls made
  changes,    \* history: VPCs, nodes and ports that came and went
  crashes,    \* history: workers killed
  deaths,     \* history: daemons died
  entered,    \* history: requests whose rows are committed
  refused,    \* history: requests answered with an error
  called,     \* history: <<node, port>> of the request's calls that are over
  answered,   \* history: the last a call answered with 0 told its maps
  strayed     \* history: nodes for which what was said last may not have come last

rows == <<portRows, vpcRows>>
serving == <<req, phase, at>>
memory == <<vnis, nodeIps, eps>>
nodes == <<net, daemon, table>>
counts == <<posts, changes, crashes, deaths>>
record == <<entered, refused>>
heard == <<called, answered>>
vars == <<rows, memory, serving, call, orphan, nodes, counts, calls, record,
          heard, strayed>>

None == [p \in Port |-> 0]

TypeOK ==
  /\ portRows \subseteq Port
  /\ nodeIps \in Seq(Node) /\ IsInjective(nodeIps)
  /\ \A i, j \in DOMAIN eps : i < j => eps[i].post <= eps[j].post
  /\ phase \in {"idle", "ports", "eps", "send"}
  /\ call # NoCall => phase = "send" /\ eps # <<>>
  /\ \A n \in Node :
       /\ daemon[n] = "down" => net[n] = <<>>
       /\ Len(net[n]) <= Socket
       /\ table[n] \in [Port -> 0 .. MaxPosts]
       /\ Cardinality({p \in Port : table[n][p] # 0}) <= Capacity

\* No port has been made.
Init ==
  /\ portRows = {} /\ vpcRows = Made
  /\ vnis = Made /\ nodeIps = Known /\ eps = <<>>
  /\ req = <<>> /\ phase = "idle" /\ at = <<1, 1>>
  /\ call = NoCall /\ orphan = NoCall
  /\ net = [n \in Node |-> <<>>]
  /\ daemon = [n \in Node |-> IF n \in ToSet(Known) THEN "ready" ELSE "bare"]
  /\ table = [n \in Node |-> None]
  /\ posts = 0 /\ calls = 0 /\ changes = 0 /\ crashes = 0 /\ deaths = 0
  /\ entered = {} /\ refused = {} /\ called = {}
  /\ answered = [n \in Node |-> None]
  /\ strayed = {}

\* The worker is free for a request other than a POST of ports.
Change ==
  /\ phase = "idle"
  /\ changes < MaxChanges
  /\ changes' = changes + 1
  /\ UNCHANGED <<posts, crashes, deaths>>

(***************************************************************************)
(* VPCs and nodes.  vni and other columns that no node is told are left    *)
(* out.  A new row of a known VPC, or of a VPC with ports to delete, is    *)
(* refused by the database and changes nothing.                            *)
(***************************************************************************)
PostVpc(v) ==
  /\ Change
  /\ v \notin vpcRows
  /\ vpcRows' = vpcRows \cup {v}
  /\ vnis' = vnis \cup {v}
  /\ UNCHANGED <<portRows, nodeIps, eps, serving, call, orphan, nodes,
                 calls, record, heard, strayed>>

\* vnis keeps the VPC.
DeleteVpc(v) ==
  /\ Change
  /\ v \in vpcRows
  /\ \A p \in Port : VpcOf[p] = v => p \notin portRows
  /\ vpcRows' = vpcRows \ {v}
  /\ UNCHANGED <<portRows, memory, serving, call, orphan, nodes,
                 calls, record, heard, strayed>>

\* A daemon that is loaded answers 0 to a load and changes nothing; the call
\* may as well fail, which the manager does not notice.  New maps are empty.
LoadNode(n) ==
  /\ Change
  /\ nodeIps' = IF Contains(nodeIps, n) THEN nodeIps ELSE Append(nodeIps, n)
  /\ \/ /\ daemon[n] = "bare"
        /\ daemon' = [daemon EXCEPT ![n] = "ready"]
        /\ table' = [table EXCEPT ![n] = None]
        /\ answered' = [answered EXCEPT ![n] = None]
     \/ UNCHANGED <<daemon, table, answered>>
  /\ UNCHANGED <<rows, vnis, eps, serving, call, orphan, net, calls,
                 record, called, strayed>>

\* DELETE of a node drops its address, then fails on the call of the RPC.
UnloadNode(n) ==
  /\ Change
  /\ \E i \in DOMAIN nodeIps :
       /\ nodeIps[i] = n
       /\ nodeIps' = RemoveAt(nodeIps, i)
  /\ UNCHANGED <<rows, vnis, eps, serving, call, orphan, nodes, calls,
                 record, heard, strayed>>

(***************************************************************************)
(* POST of ports, by HTTP or from Hazelcast.                               *)
(***************************************************************************)
Entries(ps, r) == [i \in DOMAIN ps |-> [port |-> ps[i], post |-> r]]

CollectedFirst(ps) == Entries(ps, posts + 1) \o eps

Collected(ps) == eps \o Entries(ps, posts + 1)

Answer(p) == phase' = p /\ req' = (IF p = "idle" THEN <<>> ELSE req) /\ UNCHANGED at

\* The loop over the list.  A VPC this worker does not know ends the request,
\* and the endpoints collected so far stay in eps.
Post(ps) ==
  LET Unknown == {i \in DOMAIN ps : VpcOf[ps[i]] \notin vnis}
  IN
  /\ phase = "idle"
  /\ posts < MaxPosts
  /\ posts' = posts + 1
  /\ \/ /\ Unknown = {}
        /\ eps' = Collected(ps)
        /\ phase' = "ports" /\ req' = ps /\ at' = <<1, 1>>
        /\ UNCHANGED refused
     \/ /\ \E i \in Unknown :
             /\ \A j \in Unknown : i <= j
             /\ eps' = Collected(SubSeq(ps, 1, i - 1))
        /\ refused' = refused \cup {posts + 1}
        /\ UNCHANGED serving
  /\ UNCHANGED <<rows, vnis, nodeIps, call, orphan, nodes, changes, crashes, deaths,
                 calls, entered, heard, strayed>>

AfterRefusalSends == "send"

\* An exception: the request is answered 500, and eps stays as it is.
AfterRefusal == "idle"

Refuse ==
  /\ refused' = refused \cup {posts}
  /\ Answer(AfterRefusal)
  /\ UNCHANGED <<portRows, entered>>

\* port_id is unique, vpc_id refers to a row.
Valid ==
  /\ IsInjective(req)
  /\ \A i \in DOMAIN req : req[i] \notin portRows /\ VpcOf[req[i]] \in vpcRows

CommitPorts ==
  /\ phase = "ports"
  /\ \/ Refuse
     \/ /\ Valid
        /\ portRows' = portRows \cup ToSet(req)
        /\ Answer("eps")
        /\ UNCHANGED <<entered, refused>>
  /\ UNCHANGED <<vpcRows, memory, call, orphan, nodes, counts, calls,
                 heard, strayed>>

CommitEps ==
  /\ phase = "eps"
  /\ \/ Refuse
     \/ /\ entered' = entered \cup {posts}
        /\ Answer("send")
        /\ UNCHANGED <<portRows, refused>>
  /\ UNCHANGED <<vpcRows, memory, call, orphan, nodes, counts, calls,
                 heard, strayed>>

(***************************************************************************)
(* ports_update_eps_config.                                                *)
(***************************************************************************)
WholeChunks == Len(eps) \div Batch

Chunks == (Len(eps) + Batch - 1) \div Batch

Chunk(c) == SubSeq(eps, (c - 1) * Batch + 1, IF c * Batch > Len(eps) THEN Len(eps) ELSE c * Batch)

LastBegun == at[1] >= Chunks \/ nodeIps = <<>>
AllSent == at[1] > Chunks \/ nodeIps = <<>>

\* One CLI for one batch and one node.
Call ==
  /\ phase = "send"
  /\ call = NoCall
  /\ ~ AllSent
  /\ calls' = calls + 1
  /\ call' = [node |-> nodeIps[at[2]], chunk |-> Chunk(at[1]), xid |-> calls + 1,
              sends |-> 0, reply |-> "none"]
  /\ UNCHANGED <<rows, memory, serving, orphan, nodes, counts, record, heard, strayed>>

Finish ==
  /\ phase = "send"
  /\ call = NoCall
  /\ AllSent
  /\ eps' = <<>>
  /\ called' = {}
  /\ phase' = "idle" /\ req' = <<>> /\ at' = <<1, 1>>
  /\ UNCHANGED <<rows, vnis, nodeIps, call, orphan, nodes, counts, calls,
                 entered, refused, answered, strayed>>

(***************************************************************************)
(* The CLI.  Copies are sent one after the other while no reply comes; any *)
(* may be lost.                                                            *)
(***************************************************************************)
Said(chunk, old) ==
  [p \in Port |-> LET Of == {i \in DOMAIN chunk : chunk[i].port = p}
                  IN  IF Of = {} THEN old[p] ELSE chunk[Max(Of)].post]

\* How the call went is printed, and nobody reads it: on to the next.
Conclude ==
  /\ call' = NoCall
  /\ at' = IF at[2] < Len(nodeIps) THEN <<at[1], at[2] + 1>> ELSE <<at[1] + 1, 1>>
  /\ called' = called \cup {<<call.node, e.port>> : e \in {x \in ToSet(call.chunk) : x.post = posts}}
  /\ answered' = IF call.reply = "ok"
                   THEN [answered EXCEPT ![call.node] = Said(call.chunk, @)]
                   ELSE answered
  /\ UNCHANGED <<rows, memory, req, phase, orphan, nodes, counts, calls, record,
                 strayed>>

\* A copy leaves: it reaches a socket with room for it, or is lost.
Copy(c) ==
  \/ /\ daemon[c.node] # "down"
     /\ Len(net[c.node]) < Socket
     /\ net' = [net EXCEPT ![c.node] = Append(@, [xid |-> c.xid, chunk |-> c.chunk])]
  \/ UNCHANGED net

Transmit ==
  /\ call # NoCall
  /\ call.reply = "none"
  /\ call.sends < MaxSends
  /\ call' = [call EXCEPT !.sends = @ + 1]
  /\ Copy(call)
  /\ UNCHANGED <<rows, memory, serving, orphan, daemon, table, counts, calls,
                 record, heard, strayed>>

\* clnt_create has found no service, and nothing is sent.
Unreached == call # NoCall /\ call.sends = 0 /\ Conclude

Replied == call # NoCall /\ call.reply # "none" /\ Conclude

ExpireNever == FALSE

\* The 25 seconds are over.
Expire == call # NoCall /\ call.reply = "none" /\ call.sends = MaxSends /\ Conclude

\* The CLI of a worker that was killed; its copies may follow newer calls.
OrphanTransmit ==
  /\ orphan # NoCall
  /\ orphan.sends < MaxSends
  /\ orphan' = [orphan EXCEPT !.sends = @ + 1]
  /\ Copy(orphan)
  /\ strayed' = IF net' = net THEN strayed ELSE strayed \cup {orphan.node}
  /\ UNCHANGED <<rows, memory, serving, call, daemon, table, counts, calls,
                 record, heard>>

OrphanEnds ==
  /\ orphan # NoCall
  /\ orphan' = NoCall
  /\ UNCHANGED <<rows, memory, serving, call, nodes, counts, calls, record, heard,
                 strayed>>

(***************************************************************************)
(* The daemon: update_ep_1_svc.  An element that does not fit ends the     *)
(* batch, and what was stored stays.                                       *)
(***************************************************************************)
Fits(t, p) == t[p] # 0 \/ Cardinality({q \in Port : t[q] # 0}) < Capacity

Store(acc, e) ==
  IF acc.rc = "ok" /\ Fits(acc.table, e.port)
    THEN [acc EXCEPT !.table[e.port] = e.post]
    ELSE [acc EXCEPT !.rc = "error"]

\* After any number of elements.
Steps(t, chunk) ==
  LET acc[k \in 0 .. Len(chunk)] ==
        IF k = 0 THEN [table |-> t, rc |-> "ok"] ELSE Store(acc[k - 1], chunk[k])
  IN  acc

StoredBackwards(t, chunk) == Steps(t, Reverse(chunk))[Len(chunk)]

Stored(t, chunk) == Steps(t, chunk)[Len(chunk)]

\* The reply reaches the CLI if that still waits, or is lost.
Reply(xid, rc) ==
  \/ /\ call # NoCall /\ call.xid = xid /\ call.reply = "none"
     /\ call' = [call EXCEPT !.reply = rc]
  \/ UNCHANGED call

Serve(n) ==
  /\ net[n] # <<>>
  /\ net' = [net EXCEPT ![n] = Tail(@)]
  /\ LET copy == Head(net[n])
         done == IF daemon[n] = "ready" THEN Stored(table[n], copy.chunk)
                                        ELSE [table |-> table[n], rc |-> "error"]
     IN  /\ table' = [table EXCEPT ![n] = done.table]
         /\ Reply(copy.xid, done.rc)
  /\ UNCHANGED <<rows, memory, serving, orphan, daemon, counts, calls, record,
                 heard, strayed>>

\* A batch cut short where a later element would have set a port again.
CutsRepeat(chunk, k) ==
  \E i \in 1 .. k, j \in k + 1 .. Len(chunk) : chunk[i].port = chunk[j].port

\* The daemon dies, possibly within a batch.  The attached program keeps its maps.
Die(n) ==
  /\ daemon[n] # "down"
  /\ deaths < MaxDeaths
  /\ deaths' = deaths + 1
  /\ daemon' = [daemon EXCEPT ![n] = "down"]
  /\ net' = [net EXCEPT ![n] = <<>>]
  /\ \/ UNCHANGED <<table, strayed>>
     \/ /\ daemon[n] = "ready" /\ net[n] # <<>>
        /\ LET chunk == Head(net[n]).chunk
           IN  \E k \in DOMAIN chunk :
                 /\ table' = [table EXCEPT ![n] = Steps(@, chunk)[k].table]
                 /\ strayed' = IF CutsRepeat(chunk, k) THEN strayed \cup {n} ELSE strayed
  /\ UNCHANGED <<rows, memory, serving, call, orphan, posts, changes, crashes, calls,
                 record, heard>>

Restart(n) ==
  /\ daemon[n] = "down"
  /\ daemon' = [daemon EXCEPT ![n] = "bare"]
  /\ UNCHANGED <<rows, memory, serving, call, orphan, net, table, counts, calls,
                 record, heard, strayed>>

\* The network delivers a copy before one that was sent earlier.
Overtake(n) ==
  /\ Len(net[n]) > 1
  /\ net[n][1].xid # net[n][2].xid
  /\ net' = [net EXCEPT ![n] = <<@[2], @[1]>> \o SubSeq(@, 3, Len(@))]
  /\ strayed' = strayed \cup {n}
  /\ UNCHANGED <<rows, memory, serving, call, orphan, daemon, table, counts,
                 calls, record, heard>>

(***************************************************************************)
(* DELETE of a port, which tells no node; the worker's end.                *)
(***************************************************************************)
DeletePort(p) ==
  /\ Change
  /\ p \in portRows
  /\ portRows' = portRows \ {p}
  /\ UNCHANGED <<vpcRows, memory, serving, call, orphan, nodes, calls,
                 record, heard, strayed>>

\* A new worker starts with empty memory.
Crash ==
  /\ crashes < MaxCrashes
  /\ crashes' = crashes + 1
  /\ vnis' = {} /\ nodeIps' = <<>> /\ eps' = <<>>
  /\ req' = <<>> /\ phase' = "idle" /\ at' = <<1, 1>>
  /\ call' = NoCall
  /\ orphan' = call
  /\ called' = {}
  /\ UNCHANGED <<rows, nodes, posts, changes, deaths, calls, record, answered, strayed>>

Manager == CommitPorts \/ CommitEps \/ Call \/ Finish
Cli == Transmit \/ Unreached \/ Replied \/ Expire

Next ==
  \/ \E v \in Vpc : PostVpc(v) \/ DeleteVpc(v)
  \/ \E n \in Node : LoadNode(n) \/ UnloadNode(n)
  \/ \E ps \in Requests : Post(ps)
  \/ \E p \in Port : DeletePort(p)
  \/ Manager \/ Cli \/ Crash
  \/ OrphanTransmit \/ OrphanEnds
  \/ \E n \in Node : Serve(n) \/ Die(n) \/ Restart(n) \/ Overtake(n)

\* The worker and the CLI run on.  Nothing is asked of network and daemons.
Fairness == WF_vars(Manager) /\ WF_vars(Cli)

Spec == Init /\ [][Next]_vars /\ Fairness

(***************************************************************************)
(* Properties.                                                             *)
(***************************************************************************)
\* A node never goes back behind what it has acknowledged, whatever is lost, sent
\* twice, left over from refused requests or cut short by a daemon's death; except
\* where copies of an older call came after a newer one, or a batch that says two
\* things of one port was cut between them.
NeverOlder ==
  \A n \in Node \ strayed, p \in Port : table[n][p] >= answered[n][p]

\* A request is answered 201 only when the call of every node known with each of
\* its ports is over.
EveryNodeTold ==
  [][phase = "send" /\ phase' = "idle" /\ crashes' = crashes
       => ToSet(nodeIps) \X ToSet(req) \subseteq called]_vars

\* A node is not told of a port before its rows are committed.  What a refused
\* request left behind goes out with a later one.
RowsFirst ==
  \A n \in Node, p \in Port :
    LET r == table[n][p]
    IN  r # 0 => r \in entered \/ (r \in refused /\ \E later \in entered : later > r)

\* Every request ends, although nodes may never answer.
RequestsEnd == phase # "idle" ~> phase = "idle"

=============================================================================
