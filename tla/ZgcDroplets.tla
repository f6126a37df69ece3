---------------------------- MODULE ZgcDroplets ----------------------------
(***************************************************************************)
(* How the gateway IPs of one ZGC are shared out among its nodes.          *)
(*                                                                         *)
(* Three actors touch the Droplet objects in the Kubernetes API server:    *)
(*   - the manager (project/api/nodes.py), which serves one HTTP request   *)
(*     at a time and moves IPs between droplets when a node is POSTed or   *)
(*     DELETEd: it lists, computes, then replaces, creates and deletes;    *)
(*   - the operator (kopf handlers), which provisions every new droplet by *)
(*     writing back the spec its handler was started with;                 *)
(*   - the API server, which refuses a replace whose resourceVersion is    *)
(*     no longer the current one, a create of an object that is there, and *)
(*     any call of the manager for reasons of its own (Refuses).           *)
(* The manager logs a refused replace, create or delete (nodes.py:49, 62,  *)
(* 92) and goes on with the request as if it had been carried out.  What   *)
(* such calls may damage is recorded: kept, lost and stranded name the IPs *)
(* and nodes they concerned.  A call carried out but answered with an      *)
(* error (a gateway timeout) is not modelled.                              *)
(*                                                                         *)
(* The manager also keeps Node and Gw rows in Postgres and tells the       *)
(* transit daemon of each node which entrances (IPs) to answer for.        *)
(*                                                                         *)
(* An IP list is abstracted to the set of its members: its order decides   *)
(* only which IP list.pop() takes, so the choice is left open.  A list can *)
(* name an IP twice once two droplets have it (after a race, or if it is   *)
(* kept); the set then counts it once.  No property depends on how often a *)
(* list names an IP two droplets have had.  The MAC list is a function of  *)
(* the IP list (get_mac_from_ip) and is left out.                          *)
(***************************************************************************)
EXTENDS Naturals, FiniteSets, FiniteSetsExt

CONSTANTS
  Node,          \* nodes; a node names its droplet and its control IP
  IP,            \* the ZGC range ip_start .. ip_end
  None,          \* no node
  Ops,           \* which requests clients send: a subset of {"post", "delete"}
  Settled,       \* clients wait until the operator has nothing left to do
  Resubmit,      \* clients may POST a node whose Node row is already there
  Refuses,       \* the API server may refuse a call of the manager
  Lossy,         \* an RPC to a transit daemon may fail; nobody looks at it
  MaxEntrances,  \* TRAN_MAX_ZGC_ENTRANCES: the CLI refuses longer lists
  MaxRequests,   \* bound: requests served in a behaviour
  MaxCrashes     \* bound: crashes of the manager or of the operator, and
                 \* requests an exception ends

ASSUME IpAssumption == IsFiniteSet(IP) /\ IP # {}
ASSUME NodeAssumption == IsFiniteSet(Node) /\ None \notin Node
ASSUME FlagAssumption ==
  /\ Ops \subseteq {"post", "delete"}
  /\ {Settled, Resubmit, Refuses, Lossy} \subseteq BOOLEAN
ASSUME BoundAssumption ==
  MaxEntrances \in Nat /\ MaxRequests \in Nat /\ MaxCrashes \in Nat

VARIABLES
  droplets,      \* Kubernetes: the tenant droplet of each node
  changed,       \* droplets written by anyone since the manager listed them
  handler,       \* operator: the spec a running droplet_create was given
  store,         \* operator: names in OprStore.store["Droplet"]
  nodeRows,      \* Postgres: nodes with a Node row
  gws,           \* Postgres: the IPs of each node's Gw rows
  node_ips,      \* manager memory: settings.node_ips
  activeZgc,     \* manager memory: settings.activeZgc is filled in
  req,           \* manager: the request being served
  loaded,        \* data plane: nodes whose transit XDP program is loaded
  entrances,     \* data plane: entrances configured on each node
  untold,        \* history: nodes whose daemon did not take the last list
  kept,          \* history: IPs a refused call left with a droplet that was
                 \* to give them up; the next may have them as well
  lost,          \* history: IPs a refused call did not hand out, nor any since
  stranded,      \* history: nodes whose droplet a refused delete left in
                 \* service, and not POSTed since
  requests,      \* history: requests served so far
  crashes        \* history: crashes and failed requests so far

kube == <<droplets, changed>>
oper == <<handler, store>>
db == <<nodeRows, gws>>
memory == <<node_ips, activeZgc>>
plane == <<loaded, entrances, untold>>
history == <<kept, lost, stranded, requests, crashes>>
vars == <<kube, oper, db, memory, req, plane, history>>

(***************************************************************************)
(* Types.                                                                  *)
(***************************************************************************)
Droplet == [state : {"Absent", "Init", "Provisioned", "Deleting"},
            ip : SUBSET IP]
Body == [state : {"Init", "Provisioned"}, ip : SUBSET IP]
Phase == {"idle", "pick", "gwAdd", "replace", "push",
          "create", "pushNew", "commit", "remove"}
Request == [phase : Phase,
            op : {"post", "delete"},
            node : Node \cup {None},   \* the node POSTed or DELETEd
            todo : SUBSET Node,        \* modified_droplets not yet updated
            cur : Node \cup {None},    \* the droplet being updated
            body : [Node -> Body],     \* what the updates will write
            new : SUBSET IP]           \* ip_for_new_droplet

NoBody == [d \in Node |-> [state |-> "Init", ip |-> {}]]
NoRequest == [phase |-> "idle", op |-> "post", node |-> None, todo |-> {},
              cur |-> None, body |-> NoBody, new |-> {}]
Absent == [state |-> "Absent", ip |-> {}]

TypeOK ==
  /\ droplets \in [Node -> Droplet]
  /\ changed \subseteq Node
  /\ handler \in [Node -> [running : BOOLEAN, ip : SUBSET IP]]
  /\ store \subseteq Node
  /\ nodeRows \subseteq Node
  /\ gws \in [Node -> SUBSET IP]
  /\ node_ips \subseteq Node
  /\ activeZgc \in BOOLEAN
  /\ req \in Request
  /\ loaded \subseteq Node
  /\ entrances \in [Node -> SUBSET IP]
  /\ untold \subseteq Node
  /\ kept \subseteq IP
  /\ lost \subseteq IP
  /\ stranded \subseteq Node
  /\ requests \in Nat
  /\ crashes \in Nat

Init ==
  /\ droplets = [d \in Node |-> Absent]
  /\ changed = {}
  /\ handler = [d \in Node |-> [running |-> FALSE, ip |-> {}]]
  /\ store = {}
  /\ nodeRows = {}
  /\ gws = [n \in Node |-> {}]
  /\ node_ips = {}
  /\ activeZgc = TRUE
  /\ req = NoRequest
  /\ loaded = {}
  /\ entrances = [n \in Node |-> {}]
  /\ untold = {}
  /\ kept = {}
  /\ lost = {}
  /\ stranded = {}
  /\ requests = 0
  /\ crashes = 0

(***************************************************************************)
(* Views of the droplets.  A list call returns objects that are being      *)
(* deleted as well.                                                        *)
(***************************************************************************)
Listed == {d \in Node : droplets[d].state # "Absent"}
Live(d) == droplets[d].state \in {"Init", "Provisioned"}
Count(d) == Cardinality(droplets[d].ip)

QuietHandlers == \A d \in Node : ~handler[d].running

\* The operator has provisioned every droplet and finished every deletion:
\* what the sleeps of default_setup.py wait for.
Quiet == \A d \in Node : /\ droplets[d].state \in {"Absent", "Provisioned"}
                         /\ ~handler[d].running

(***************************************************************************)
(* What a POST takes.  A pass over the givers pops one IP from each that   *)
(* still has two; passes are made until the new droplet has its share,     *)
(* which may overshoot, or a pass yields nothing.                          *)
(***************************************************************************)
Givers == {d \in Listed : Count(d) > 1}
ShareRoundedUp ==
  (MapThenSumSet(Count, Listed) + Cardinality(Listed)) \div (Cardinality(Listed) + 1)
Share == MapThenSumSet(Count, Listed) \div (Cardinality(Listed) + 1)

Popped(d, passes) == IF passes < Count(d) THEN passes ELSE Count(d) - 1

Taken(passes) == MapThenSumSet(LAMBDA d : Popped(d, passes), Givers)
Enough(passes) ==
  Taken(passes) >= Share \/ (passes > 0 /\ Taken(passes) = Taken(passes - 1))
Passes == CHOOSE p \in 0 .. Cardinality(IP) + 1 :
            Enough(p) /\ \A q \in 0 .. p - 1 : ~Enough(q)

\* What each giver is left with, for every choice of popped IPs.
Leavings ==
  LET passes == Passes
      givers == Givers
  IN
  {left \in [givers -> SUBSET IP] : \A d \in givers :
      /\ left[d] \subseteq droplets[d].ip
      /\ Cardinality(left[d]) = Count(d) - Popped(d, passes)}

Relisted(S, ips) ==
  [d \in Node |-> IF d \in S
     THEN [state |-> IF droplets[d].state = "Init" THEN "Init" ELSE "Provisioned",
           ip |-> ips[d]]
     ELSE NoBody[d]]

(***************************************************************************)
(* POST /nodes and set_up_node_from_hazelcast: load the XDP program, list  *)
(* the droplets and compute, then one API call or commit per step.         *)
(***************************************************************************)
BeginPost(n, todo, body, new, phase) ==
  /\ req.phase = "idle"
  /\ "post" \in Ops
  /\ requests < MaxRequests
  /\ Settled => Quiet
  /\ Resubmit \/ n \notin nodeRows
  /\ activeZgc
  /\ node_ips' = node_ips \cup {n}
  /\ loaded' \in {loaded \cup {n}} \cup IF Lossy THEN {loaded} ELSE {}
  /\ changed' = {}
  /\ req' = [phase |-> phase, op |-> "post", node |-> n, todo |-> todo,
             cur |-> None, body |-> body, new |-> new]
  /\ stranded' = stranded \ {n}
  /\ requests' = requests + 1
  /\ UNCHANGED <<droplets, oper, db, activeZgc, entrances, untold, kept, lost, crashes>>

\* node_load_transit_xdp reads activeZgc["port_ibo"]: with nothing there it
\* raises, after the node has gone into node_ips.
PostNoZgc(n) ==
  /\ req.phase = "idle"
  /\ "post" \in Ops
  /\ requests < MaxRequests
  /\ ~activeZgc
  /\ node_ips' = node_ips \cup {n}
  /\ stranded' = stranded \ {n}
  /\ requests' = requests + 1
  /\ UNCHANGED <<kube, oper, db, activeZgc, req, plane, kept, lost, crashes>>

\* POST /zgcs fills activeZgc again, with a ZGC of another name: the old row
\* is still in the database and names are unique.
PostZgc ==
  /\ req.phase = "idle"
  /\ ~activeZgc
  /\ activeZgc' = TRUE
  /\ UNCHANGED <<kube, oper, db, node_ips, req, plane, history>>

\* The first node of the ZGC gets the whole range.
PostFirst(n) == Listed = {} /\ BeginPost(n, {}, NoBody, IP, "create")

\* Not enough IPs: the node is recorded without a droplet.
PostTooFew(n) ==
  Listed # {} /\ Share = 0 /\ BeginPost(n, {}, NoBody, {}, "commit")

PostTakes(n) ==
  /\ Listed # {}
  /\ Share > 0
  /\ \E left \in Leavings :
       BeginPost(n, Givers, Relisted(Givers, left),
                 UNION {droplets[d].ip \ left[d] : d \in Givers}, "pick")

\* update_existing_nodes_gw_ips_macs, first commit: the old Gw rows go.
GwDeleteKeepsRows(d) ==
  /\ req.phase = "pick" /\ req.op = "post"
  /\ d \in req.todo
  /\ d \in nodeRows
  /\ req' = [req EXCEPT !.phase = "gwAdd", !.cur = d, !.todo = @ \ {d}]
  /\ UNCHANGED <<kube, oper, db, memory, plane, history>>
GwDelete(d) ==
  /\ req.phase = "pick" /\ req.op = "post"
  /\ d \in req.todo
  /\ d \in nodeRows
  /\ gws' = [gws EXCEPT ![d] = {}]
  /\ req' = [req EXCEPT !.phase = "gwAdd", !.cur = d, !.todo = @ \ {d}]
  /\ UNCHANGED <<kube, oper, nodeRows, memory, plane, history>>

\* Its to_json() on a missing Node row raises: the request ends half done.
AbortNoRow(d) ==
  /\ req.phase = "pick" /\ req.op = "post"
  /\ d \in req.todo
  /\ d \notin nodeRows
  /\ req' = NoRequest
  /\ UNCHANGED <<kube, oper, db, memory, plane, history>>

\* Second commit: the new Gw rows are appended.
GwAdd ==
  /\ req.phase = "gwAdd"
  /\ gws' = [gws EXCEPT ![req.cur] = @ \cup req.body[req.cur].ip]
  /\ req' = [req EXCEPT !.phase = "replace"]
  /\ UNCHANGED <<kube, oper, nodeRows, memory, plane, history>>

\* DELETE updates the droplets without touching the Gw rows.
PickReceiver(d) ==
  /\ req.phase = "pick" /\ req.op = "delete"
  /\ d \in req.todo
  /\ req' = [req EXCEPT !.phase = "replace", !.cur = d, !.todo = @ \ {d}]
  /\ UNCHANGED <<kube, oper, db, memory, plane, history>>

\* update_droplet: the body still carries the listed resourceVersion, so the
\* API server refuses it when the object has changed since.
Written(d) == [state |-> IF droplets[d].state = "Deleting" THEN "Deleting"
                         ELSE req.body[d].state,
               ip |-> req.body[d].ip]
ReplaceAnyVersion ==
  /\ req.phase = "replace"
  /\ droplets[req.cur].state # "Absent"
  /\ droplets' = [droplets EXCEPT ![req.cur] = Written(req.cur)]
  /\ lost' = lost \ req.body[req.cur].ip
  /\ req' = [req EXCEPT !.phase = "push"]
  /\ UNCHANGED <<changed, oper, db, memory, plane, kept, stranded, requests, crashes>>
ReplaceOnly ==
  /\ req.phase = "replace"
  /\ req.cur \notin changed
  /\ droplets' = [droplets EXCEPT ![req.cur] = Written(req.cur)]
  /\ lost' = lost \ req.body[req.cur].ip
  /\ req' = [req EXCEPT !.phase = "pick"]
  /\ UNCHANGED <<changed, oper, db, memory, plane, kept, stranded, requests, crashes>>
Replace ==
  /\ req.phase = "replace"
  /\ req.cur \notin changed
  /\ droplets' = [droplets EXCEPT ![req.cur] = Written(req.cur)]
  /\ lost' = lost \ req.body[req.cur].ip
  /\ req' = [req EXCEPT !.phase = "push"]
  /\ UNCHANGED <<changed, oper, db, memory, plane, kept, stranded, requests, crashes>>

\* A refused replace is logged: the daemon is not told, and the loop goes on
\* to the next droplet.
ReplaceRefused ==
  /\ req.phase = "replace"
  /\ Refuses \/ req.cur \in changed
  /\ kept' = kept \cup (droplets[req.cur].ip \ req.body[req.cur].ip)
  /\ lost' = lost \cup (req.body[req.cur].ip \ droplets[req.cur].ip)
  /\ req' = [req EXCEPT !.phase = "pick"]
  /\ UNCHANGED <<kube, oper, db, memory, plane, stranded, requests, crashes>>

\* droplet_update_itf_config: the daemon replaces its entrance list, unless
\* the CLI refuses the list, no program is loaded, or the call is lost.
Accepts(d, ips) == d \in loaded /\ Cardinality(ips) <= MaxEntrances
ConfigureAdds(d, ips) ==
  \/ /\ Accepts(d, ips)
     /\ entrances' = [entrances EXCEPT ![d] = @ \cup ips]
     /\ untold' = untold \ {d}
  \/ /\ Lossy \/ ~Accepts(d, ips)
     /\ untold' = untold \cup {d}
     /\ UNCHANGED entrances
Configure(d, ips) ==
  \/ /\ Accepts(d, ips)
     /\ entrances' = [entrances EXCEPT ![d] = ips]
     /\ untold' = untold \ {d}
  \/ /\ Lossy \/ ~Accepts(d, ips)
     /\ untold' = untold \cup {d}
     /\ UNCHANGED entrances

Push ==
  /\ req.phase = "push"
  /\ Configure(req.cur, req.body[req.cur].ip)
  /\ req' = [req EXCEPT !.phase = "pick"]
  /\ UNCHANGED <<kube, oper, db, memory, loaded, history>>

\* create_droplet, after the last giver.
AfterFirstUpdate ==
  \/ req.phase = "create"
  \/ req.phase = "pick" /\ req.op = "post"
AfterUpdates ==
  \/ req.phase = "create"
  \/ req.phase = "pick" /\ req.op = "post" /\ req.todo = {}

CreateOther ==
  /\ AfterUpdates
  /\ droplets[req.node].state = "Absent"
  /\ droplets' = [droplets EXCEPT ![req.node] = [state |-> "init", ip |-> req.new]]
  /\ changed' = changed \cup {req.node}
  /\ lost' = lost \ req.new
  /\ req' = [req EXCEPT !.phase = "pushNew"]
  /\ UNCHANGED <<oper, db, memory, plane, kept, stranded, requests, crashes>>
Create ==
  /\ AfterUpdates
  /\ droplets[req.node].state = "Absent"
  /\ droplets' = [droplets EXCEPT ![req.node] = [state |-> "Init", ip |-> req.new]]
  /\ changed' = changed \cup {req.node}
  /\ lost' = lost \ req.new
  /\ req' = [req EXCEPT !.phase = "pushNew"]
  /\ UNCHANGED <<oper, db, memory, plane, kept, stranded, requests, crashes>>

\* A refused create is logged, AlreadyExists or not: neither a droplet nor a
\* daemon learns of the new IPs, and the rows are committed all the same.
CreateRefused ==
  /\ AfterUpdates
  /\ Refuses \/ droplets[req.node].state # "Absent"
  /\ lost' = lost \cup req.new
  /\ req' = [req EXCEPT !.phase = "commit"]
  /\ UNCHANGED <<kube, oper, db, memory, plane, kept, stranded, requests, crashes>>

PushNew ==
  /\ req.phase = "pushNew"
  /\ Configure(req.node, req.new)
  /\ req' = [req EXCEPT !.phase = "commit"]
  /\ UNCHANGED <<kube, oper, db, memory, loaded, history>>

\* The Node row and its Gw rows, in one commit; a second row of the same name
\* breaks the unique constraint and the request fails.
Commit ==
  /\ req.phase = "commit"
  /\ IF req.node \in nodeRows THEN UNCHANGED db
     ELSE /\ nodeRows' = nodeRows \cup {req.node}
          /\ gws' = [gws EXCEPT ![req.node] = req.new]
  /\ req' = NoRequest
  /\ UNCHANGED <<kube, oper, memory, plane, history>>

(***************************************************************************)
(* DELETE /nodes/<id>: the IPs of the node's droplet are dealt round robin *)
(* to the other droplets, those with the fewest IPs first.  Without another*)
(* droplet the deal divides by zero, before anything is changed.           *)
(***************************************************************************)
Extra(others, amount) ==
  {X \in kSubset(amount % Cardinality(others), others) :
     \A x \in X, y \in others \ X : Count(x) <= Count(y)}

DealsOf(ips, others) ==
  LET amount == Cardinality(ips) IN
  {deal \in [others -> SUBSET ips] :
     /\ UNION {deal[d] : d \in others} = ips
     /\ \A d, e \in others : d # e => deal[d] \cap deal[e] = {}
     /\ \E X \in Extra(others, amount) : \A d \in others :
          Cardinality(deal[d]) = amount \div Cardinality(others)
                                   + IF d \in X THEN 1 ELSE 0}
DealsOffByOne(n, others) ==
  UNION {DealsOf(droplets[n].ip \ {i}, others) : i \in droplets[n].ip}
Deals(n, others) == DealsOf(droplets[n].ip, others)

BeginDelete(n) ==
  /\ req.phase = "idle"
  /\ "delete" \in Ops
  /\ requests < MaxRequests
  /\ Settled => Quiet
  /\ n \in nodeRows
  /\ n \in Listed
  /\ Listed # {n}
  /\ changed' = {}
  /\ \E deal \in Deals(n, Listed \ {n}) :
       LET receivers == {d \in Listed \ {n} : deal[d] # {}} IN
       req' = [NoRequest EXCEPT
                 !.phase = "remove", !.op = "delete", !.node = n,
                 !.todo = receivers,
                 !.body = Relisted(receivers,
                            [d \in receivers |-> droplets[d].ip \cup deal[d]])]
  /\ requests' = requests + 1
  /\ UNCHANGED <<droplets, oper, db, memory, plane, kept, lost, stranded, crashes>>

\* delete_droplet: the object stays, being deleted, until the operator's
\* delete handler has run.  (The zgc droplet of the node does not exist.)
Remove ==
  /\ req.phase = "remove"
  /\ droplets' = [droplets EXCEPT ![req.node].state =
                    IF @ = "Absent" THEN "Absent" ELSE "Deleting"]
  /\ changed' = changed \cup {req.node}
  /\ req' = [req EXCEPT !.phase = "pick"]
  /\ UNCHANGED <<oper, db, memory, plane, history>>

\* A refused delete is logged: the droplet stays in service, and the others
\* are given its IPs as well.
RemoveRefused ==
  /\ req.phase = "remove"
  /\ Refuses
  /\ kept' = kept \cup droplets[req.node].ip
  /\ stranded' = stranded \cup {req.node}
  /\ req' = [req EXCEPT !.phase = "pick"]
  /\ UNCHANGED <<kube, oper, db, memory, plane, lost, requests, crashes>>

UnloadFirst ==
  /\ req.phase = "remove" /\ req.node \in node_ips
  /\ node_ips' = node_ips \ {req.node}
  /\ UNCHANGED <<kube, oper, db, activeZgc, req, plane, history>>

\* node_unload_transit_xdp forgets the node, then calls the RPC with one
\* argument too many: the request ends there, before the row is deleted.
Unload ==
  /\ req.phase = "pick" /\ req.op = "delete" /\ req.todo = {}
  /\ node_ips' = node_ips \ {req.node}
  /\ req' = NoRequest
  /\ UNCHANGED <<kube, oper, db, activeZgc, plane, history>>

(***************************************************************************)
(* The operator.  kopf runs the handlers of one object one after another   *)
(* and hands each the object as it was when the handler started.           *)
(***************************************************************************)
StartProvision(d) ==
  /\ droplets[d].state = "Init"
  /\ ~handler[d].running
  /\ handler' = [handler EXCEPT ![d] = [running |-> TRUE, ip |-> droplets[d].ip]]
  /\ UNCHANGED <<kube, store, db, memory, req, plane, history>>

\* set_object_provisioned: into the store, then kube_update_obj patches the
\* whole spec with the handler's copy, retrying until no conflict.
PatchedStatusLost(d) ==
  IF droplets[d].state = "Absent" THEN droplets[d]
  ELSE [droplets[d] EXCEPT !.ip = handler[d].ip]
Patched(d) ==
  CASE droplets[d].state = "Absent"   -> droplets[d]
    [] droplets[d].state = "Deleting" -> [state |-> "Deleting", ip |-> handler[d].ip]
    [] OTHER                          -> [state |-> "Provisioned", ip |-> handler[d].ip]
FinishProvision(d) ==
  /\ handler[d].running
  /\ droplets' = [droplets EXCEPT ![d] = Patched(d)]
  /\ changed' = changed \cup {d}
  /\ store' = store \cup {d}
  /\ handler' = [handler EXCEPT ![d] = [running |-> FALSE, ip |-> {}]]
  /\ UNCHANGED <<db, memory, req, plane, history>>

\* CommonDelete, after which kopf lets the object go.
FinalizeKeepsStored(d) ==
  /\ droplets[d].state = "Deleting"
  /\ ~handler[d].running
  /\ droplets' = [droplets EXCEPT ![d] = Absent]
  /\ changed' = changed \cup {d}
  /\ UNCHANGED <<oper, db, memory, req, plane, history>>
Finalize(d) ==
  /\ droplets[d].state = "Deleting"
  /\ ~handler[d].running
  /\ droplets' = [droplets EXCEPT ![d] = Absent]
  /\ changed' = changed \cup {d}
  /\ store' = store \ {d}
  /\ UNCHANGED <<handler, db, memory, req, plane, history>>

(***************************************************************************)
(* Crashes.  The gunicorn worker is killed (--timeout 600, or its pod is   *)
(* restarted) with a request half done; the operator loses its handlers    *)
(* and its store, and reads back the provisioned droplets.  An exception   *)
(* other than ApiException, raised when the API server or the database     *)
(* cannot be reached, and any exception of a list call, ends the request   *)
(* where it is.                                                            *)
(***************************************************************************)
ManagerCrash ==
  /\ crashes < MaxCrashes
  /\ crashes' = crashes + 1
  /\ req' = NoRequest
  /\ node_ips' = {}
  /\ activeZgc' = FALSE
  /\ UNCHANGED <<kube, oper, db, plane, kept, lost, stranded, requests>>

RequestFails ==
  /\ req.phase # "idle"
  /\ crashes < MaxCrashes
  /\ crashes' = crashes + 1
  /\ req' = NoRequest
  /\ UNCHANGED <<kube, oper, db, memory, plane, kept, lost, stranded, requests>>

OperatorCrash ==
  /\ crashes < MaxCrashes
  /\ crashes' = crashes + 1
  /\ handler' = [d \in Node |-> [running |-> FALSE, ip |-> {}]]
  /\ \E S \in SUBSET {d \in Node : droplets[d].state = "Deleting"} :
       store' = S \cup {d \in Node : droplets[d].state = "Provisioned"}
  /\ UNCHANGED <<kube, db, memory, req, plane, kept, lost, stranded, requests>>

ManagerStep ==
  \/ \E d \in Node : GwDelete(d) \/ AbortNoRow(d) \/ PickReceiver(d)
  \/ GwAdd \/ Replace \/ ReplaceRefused \/ Push
  \/ Create \/ CreateRefused \/ PushNew \/ Commit
  \/ Remove \/ RemoveRefused \/ Unload

OperatorStep(d) == StartProvision(d) \/ FinishProvision(d) \/ Finalize(d)

Next ==
  \/ \E n \in Node : PostFirst(n) \/ PostTooFew(n) \/ PostTakes(n)
                    \/ PostNoZgc(n) \/ BeginDelete(n)
  \/ PostZgc
  \/ ManagerStep
  \/ \E d \in Node : OperatorStep(d)
  \/ ManagerCrash
  \/ RequestFails
  \/ OperatorCrash

Spec == Init /\ [][Next]_vars

\* A request being served and a handler that is due both go on; clients and
\* crashes owe nothing.
FairSpec == /\ Spec
            /\ WF_vars(ManagerStep)
            /\ \A d \in Node : WF_vars(OperatorStep(d))

(***************************************************************************)
(* Why OneOwner holds when requests start settled.                         *)
(***************************************************************************)

\* A request names its node, and the droplet it is updating.
RequestShape ==
  /\ req.phase # "idle" => req.node \in Node
  /\ req.phase \in {"gwAdd", "replace", "push"} => req.cur \in Node
  /\ req.phase \in {"gwAdd", "create", "pushNew", "commit"} => req.op = "post"
  /\ req.phase = "remove" => req.op = "delete"
  /\ req.phase \in {"idle", "create", "pushNew", "commit"} => req.todo = {}

\* The droplets the request has yet to write.
Pending == req.todo \cup IF req.phase \in {"gwAdd", "replace"} THEN {req.cur} ELSE {}

\* A running handler's copy is current.
HandlerCurrent ==
  \A d \in Node : handler[d].running =>
    droplets[d].state = "Init" /\ handler[d].ip = droplets[d].ip

\* What the request will write was computed from what is still there.
PendingCurrent ==
  \A d \in Pending : /\ droplets[d].state = "Provisioned"
                     /\ d \notin changed
                     /\ req.body[d].state = "Provisioned"

\* POST: the new droplet's IPs are with nobody except givers that are about
\* to be rewritten without them, or that a refused call left them with.
Moving == {"pick", "gwAdd", "replace", "push", "create"}
NewUnowned ==
  req.op = "post" /\ req.phase \in Moving =>
    \A d \in Node : Live(d) =>
      IF d \in Pending
      THEN /\ req.body[d].ip \subseteq droplets[d].ip
           /\ req.body[d].ip \cap req.new \subseteq kept
      ELSE droplets[d].ip \cap req.new \subseteq kept

\* DELETE: what the receivers will have is with nobody else, the node's own
\* droplet apart, and that is on its way out before the first of them is
\* written, unless the API server did not have it so.
Receiving ==
  req.op = "delete" /\ req.phase # "idle" =>
    /\ req.node \notin Pending
    /\ IF req.phase = "remove" THEN droplets[req.node].state = "Provisioned"
       ELSE \/ droplets[req.node].state \in {"Deleting", "Absent"}
            \/ droplets[req.node].ip \subseteq kept
    /\ \A d \in Pending : droplets[d].ip \subseteq req.body[d].ip
    /\ \A d \in Pending, e \in Node : d # e /\ e # req.node /\ Live(e) =>
         /\ req.body[d].ip \cap droplets[e].ip \subseteq kept
         /\ e \in Pending => req.body[d].ip \cap req.body[e].ip \subseteq kept

(***************************************************************************)
(* Properties.                                                             *)
(***************************************************************************)

\* No gateway IP belongs to two droplets that are in service, unless a call by
\* which one of them was to give it up was refused.  POST moves IPs with one
\* write per giver and one create, DELETE with one write per receiver, while
\* the operator writes the same objects.
OneOwner ==
  \A d, e \in Node : d # e /\ Live(d) /\ Live(e) =>
    droplets[d].ip \cap droplets[e].ip \subseteq kept

\* The inductive invariant of the settled specification.
Sharing == OneOwner /\ HandlerCurrent /\ PendingCurrent /\ NewUnowned /\ Receiving
SettledInv == TypeOK /\ RequestShape /\ Sharing

\* The droplets in service implement IpOwnership, refused calls included: by a
\* refused replace or delete the droplet gives up its claim to the IPs that
\* the manager took from it, as it does by one carried out, and no droplet has
\* a claim to them again.  Whatever else was refused, the claims to all other
\* IPs stay exclusive, with no step that breaks them even for a moment.
Holding == [d \in Node |-> IF Live(d) THEN droplets[d].ip \ kept ELSE {}]
Ownership == INSTANCE IpOwnership WITH held <- Holding
OwnershipSpec == Ownership!Spec

\* Between requests every IP of the range, all of which POST /vpcs hands to
\* its clients as gateways, belongs to a droplet, once there is one and until
\* something crashes, the IPs apart that a refused call did not hand out.
RangeCovered ==
  crashes = 0 /\ req.phase = "idle" /\ Listed # {} =>
    IP \ lost \subseteq UNION {droplets[d].ip : d \in {e \in Node : Live(e)}}

\* "each droplet should have 1 or more ip" (nodes.py:205): whatever the
\* operator, the crashes and the resubmissions do, no giver is emptied and no
\* droplet is created empty.
EveryDropletHasIp == \A d \in Listed : droplets[d].ip # {}

\* A gateway IP is never configured as an entrance of two nodes at once: the
\* givers' daemons are told before the new node's daemon is.  Two daemons may
\* answer for it only if one of them was sent another list since, which it did
\* not take, or if a droplet was left with it by a refused call.
OneEntrance ==
  \A d, e \in Node : d # e /\ Live(d) /\ Live(e) /\ {d, e} \cap untold = {} =>
    entrances[d] \cap entrances[e] \subseteq kept

\* Between requests each daemon answers for exactly the IPs of its droplet,
\* refused writes or not, until something crashes.  A daemon that did not take
\* a list, lost or longer than the CLI accepts, is wrong until the next list
\* it takes, and not longer: each one it takes makes up for those before.
EntrancesMatch ==
  crashes = 0 /\ req.phase = "idle" => \A d \in Node \ untold :
    Live(d) => entrances[d] = droplets[d].ip

\* The Gw rows of a node never name an IP its droplet does not have, although
\* rows, droplet and data plane are written at different moments, until
\* something crashes.
GwRowsBacked ==
  crashes = 0 => \A n \in Node : Live(n) => gws[n] \subseteq droplets[n].ip

\* "Each wing node has one droplet, so I need to update the Node with the
\* updated IPs && MACs" (nodes.py:235): between requests the Gw rows of a node
\* are the IPs of its droplet.
GwRowsMatch ==
  req.phase = "idle" =>
    \A n \in nodeRows : Live(n) => gws[n] = droplets[n].ip

\* OprStore never offers a droplet that is gone, so nothing is ever assigned
\* to one.
StoredDropletsExist == store \subseteq Listed

\* A provisioned droplet does not go back to Init: a replace built from an
\* older listing is refused.
ProvisionedStays ==
  [][\A d \in Node : droplets[d].state = "Provisioned" =>
        droplets'[d].state \in {"Provisioned", "Deleting"}]_vars

\* The operator's patch, which writes the whole spec, leaves the IPs as they
\* are: no write of the manager falls between the handler's copy and its patch.
PatchKeepsIps ==
  [][\A d \in Node : handler[d].running /\ ~handler'[d].running =>
        droplets'[d].ip = droplets[d].ip]_vars

\* Every droplet is eventually provisioned or deleted, conflicts, crashes and
\* resubmissions notwithstanding.
EventuallyProvisioned ==
  \A d \in Node : droplets[d].state = "Init" ~> droplets[d].state # "Init"
=============================================================================
