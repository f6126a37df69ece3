# Verification of the Arion data plane

Arion DP is a gateway cluster ("ZGC") for virtual networks.  Wing nodes run an
XDP program that answers for a range of gateway IPs and forwards tenant packets
to the host of their destination.  A manager (Flask, Postgres) takes requests,
an operator (kopf, Kubernetes custom resources) provisions objects, and a
daemon on each node loads the XDP program and fills its BPF maps.  Paths below
are relative to the repository's `src/` unless they say otherwise.

## 1. Inventory

| Part | State it keeps | Operations | Talks to |
|---|---|---|---|
| Manager: nodes (`mgmt/manager/project/api/nodes.py`) | Node and Gw rows; `settings.node_ips` | POST, PUT, DELETE `/nodes`, `set_up_node_from_hazelcast` | droplets in Kubernetes, transit daemons by RPC |
| Manager: ZGCs, VPCs (`zgcs.py`, `vpcs.py`) | Zgc and Vpc rows; `settings.activeZgc`, `settings.vnis` | POST, PUT, DELETE | nothing; nodes.py and ports.py read the settings |
| Manager: ports (`ports.py`) | Port, EP, Host rows; the list `eps` of endpoints not yet sent | POST `/ports`, DELETE, Hazelcast routing rules | every daemon in `node_ips`, batches of 360 |
| Manager: default setup (`default_setup.py`) | none | sets up a ZGC, its nodes and VPCs with sleeps in between; Hazelcast listeners | the above |
| Operator: droplets (`mgmt/operator/workflows/droplets`) | `OprStore.store["Droplet"]`, `allocated_droplets` | create/update/resume/delete handlers, bootstrap | Kubernetes API |
| Operator: DFT, chain, FTN, forwarder | `OprStore`, `allocated_droplets`, maglev tables | handlers that create the objects one level down, with retries | Kubernetes API |
| Maglev table (`mgmt/common/maglev_table.py`) | permutations, table | add, remove, populate | none |
| RPC client (`mgmt/common/rpc.py`) | none | one shell command per call, exit code logged | CLI |
| CLI (`cli/`) | none | parses JSON, limits of 360 endpoints and 128 entrances, one RPC | daemon |
| Transit daemon (`dmn/`) | `md` (programs, interfaces), map table, pins | load, unload XDP; load, unload a stage; update, get, delete of maps | BPF system calls |
| Transit XDP program (`xdp/`) | BPF maps | one packet: parse, look up, rewrite, verdict | daemon through the maps |
| Compute-node daemon (`../cn/cn_dpnd`) | `local_queue_map`, a queue of hints | its XDP program reads the hints behind a frame and pushes them; its process pops them | gateways by the hints, the control agent of the host by datagrams |

What is hard.  The manager serves one request at a time (one gunicorn sync
worker, `mgmt/manager/entrypoint.sh:30`, one replica), so requests do not
interleave with each other; but each request is a long sequence of Kubernetes
writes, commits and RPCs, during which the operator's handlers write the same
objects, any call can be refused or lost, and the worker can be killed (`--timeout 600`).
Nothing is rolled back, most outcomes are only logged, and part of the state
(`node_ips`, `activeZgc`, `vnis`, `eps`) lives in memory only.  The daemon's
load and unload are sequences of system calls with early returns.  The XDP
program is a decision tree with limits, table misses and tail calls.

What makes each part correct.
- Gateway IPs: every IP of the range belongs to exactly one droplet in service,
  no droplet is empty, the daemon of a node answers for its droplet's IPs and no
  others, the database agrees, every droplet ends up provisioned.
- Endpoints: a port created is known to every daemon, once, in its latest form.
- Operator: every object is provisioned in the end; a droplet is assigned once.
- Compute node: no frame is lost to the daemon; the agent's last word on a flow is
  the newest hint and names the right host.
- Maglev: every entry filled, few entries change on removal.
- Daemon: `md`, the attached programs, the jump table, the pins and the map table
  agree after every call, those that fail included.
- XDP: a packet is only rewritten when its endpoint is known, lengths and
  checksums stay right, everything else is passed or dropped as configured.

The hazards at their lines are in `PROJECT.json`.

## 2. Plan

1. `ZgcDroplets`, `IpOwnership`, `ZgcDropletsProofs`, `ZgcServiceProofs`: the sharing
   of gateway IPs, and the rows and entrances that follow it (done).
2. `TransitDaemon`, `TransitDaemonProofs`: load and unload with every partial
   failure, stages, endpoints and entrances, the death of the daemon (done).
3. `TransitXdp`, `TransitXdpProofs`: what becomes of a frame, with the maps rewritten
   under it (done).
4. `CnDpnd`, `CnDpndProofs`: the hints of a gateway, from the frame to the agent
   (done).
5. `Endpoints`, `EndpointsProofs`: the pending list, batches, nodes that come later,
   and calls over UDP: sent again without an answer, executed again by a server that
   keeps no record of calls, late copies after newer calls (done).
6. `OperatorChains`, `OperatorChainsProofs`: DFT -> chain -> FTN -> droplet under
   kopf's retries and restarts (done).
7. `GatewayNodes`, `GatewayNodesProofs`: `ZgcDroplets` and `Endpoints` in one worker,
   with the dictionary `node_ips` they share (done).

How the modules meet.  `GatewayAssumption` of `CnDpnd` is `HintsNameSender`, which
`xdp_gateway` checks of `TransitXdp`.  The entrance lists `TransitXdp` is given are
what `TransitDaemon.UpdateDroplet` writes, and its endpoints what `UpdateEndpoints`
writes; `Endpoints` keeps of a daemon only what a call does to its table.
`ZgcDroplets` says which droplets are in the operator's store (`StoredDropletsExist`),
from which `OperatorChains` deals them out.  `GatewayNodes` joins `ZgcDroplets` and
`Endpoints`, and is proved to implement both.

## 3. ZgcDroplets

One ZGC, its nodes, its range of IPs.  Three actors: the manager (`req`, one
request at a time), the operator (one handler per droplet at most), and crashes
of either.

| Variable | Code |
|---|---|
| `droplets` | tenant Droplet objects in the API server: status, ip list (as a set; the mac list is a function of it) |
| `changed` | objects whose resourceVersion is no longer the one the manager listed |
| `handler` | the spec a running `droplet_opr_on_droplet_init` was started with |
| `store` | `OprStore.store["Droplet"]` |
| `nodeRows`, `gws` | Node and Gw rows |
| `node_ips`, `activeZgc` | the dictionaries of `settings.py` |
| `req` | local variables of `all_nodes`, `set_up_node_from_hazelcast`, `single_node` |
| `loaded`, `entrances` | what each daemon has been told |
| `untold` | history: daemons that did not take the last list they were sent |
| `kept`, `lost`, `stranded` | history: what refused calls have damaged (below) |
| `requests`, `crashes` | counters that bound the model |

Actions follow the code call by call: `BeginPost` and `BeginDelete` list the
droplets and compute; then `GwDelete`, `GwAdd` (two commits), `Replace`, `Push` for each
giver; `Create`, `PushNew`, `Commit`.  DELETE: `Remove`, then `Replace`, `Push` for each
receiver, then `Unload`, which is where the request ends (`node_unload_transit_xdp` passes
three arguments to a method that takes two).  `StartProvision` and `FinishProvision` are
the two ends of the operator's handler, `Finalize` its delete handler.

Refused calls.  `update_droplet`, `delete_droplet` and `create_droplet` catch every
`ApiException` of their call (`nodes.py:49`, `62`, `92`), log it, and return; the request
goes on as if the call had been carried out.  The API server refuses a replace of an object
that has changed and a create of one that is there; with `Refuses` any of these calls may
be refused at any time, for reasons of the API server's own.

| Action | What the code does next | Recorded |
|---|---|---|
| `ReplaceRefused` | the daemon is not told, the next droplet's turn; the IPs the giver was to give up go to the new droplet as well | those IPs in `kept`; a receiver's in `lost` |
| `CreateRefused` | the daemon is not told, the rows are committed with the IPs taken from the givers, which are with nobody | those IPs in `lost` |
| `RemoveRefused` | the receivers are given the IPs of a droplet in service, whose node leaves `node_ips` | its IPs in `kept`, its node in `stranded` |

`kept`, `lost` and `stranded` are written at those moments; no step of the model reads
them.  An IP leaves `lost` when a later write hands it out, a node leaves `stranded` when it
is POSTed again, an IP stays in `kept`.  The properties speak of the rest: what a refused
call does not concern, it does not damage.  Any other exception (the API server or the
database out of reach, a list call of any kind) ends the request where it is,
`RequestFails`, and counts as a crash.  Not modelled: a call that is carried out and yet
answered with an error, as by a gateway that times out.  A list may name an IP twice once
two droplets have had it; it is a set here, which then counts it once.

Two parameters say what clients do.  `Settled`: a request starts only when no
droplet is being provisioned or deleted, as `default_setup.py` achieves with
`time.sleep(10)` between its steps; a client of the REST API gets no such
guarantee.  `Resubmit`: a node that has a row is POSTed again.  `Refuses` lets the API
server refuse calls, `Lossy` lets RPCs fail, `Ops` selects the requests.

### Runs

| Run | Instance | Shows |
|---|---|---|
| `zgc_settled` | 3 nodes, 4 IPs, 4 requests, 1 crash, refusals, settled | `TypeOK`; the refinement `OwnershipSpec`, hence `OneOwner`: apart from `kept` no IP is in two droplets; `PatchKeepsIps`; until the first crash `RangeCovered`: no IP but those in `lost` is with nobody |
| `zgc_entrances` | 3 nodes, 3 IPs, 4 requests, 1 crash, refusals, RPCs lost, CLI limit 2, settled | `OneEntrance`: two daemons answer for one IP only if one is in `untold` or the IP in `kept`; until the first crash `EntrancesMatch`: daemons not in `untold` agree with droplets (the first node, with 3 IPs, is beyond the limit), and `GwRowsBacked` |
| `zgc_racing` | 3 nodes, 2 IPs, 3 requests, 1 crash, refusals, resubmissions, not settled | `StoredDropletsExist`; `EveryDropletHasIp`: there are not enough IPs for a third node; `ProvisionedStays`; `EventuallyProvisioned` |
| `zgc_rows_match` | 3 nodes, 4 IPs, 3 requests, settled | violated: after DELETE the receivers' Gw rows are out of date |

Bounds.  Three nodes are the fewest with two givers or two receivers and a third
party; four IPs the fewest for which a giver pops twice and a share overshoots.  Four
requests reach three POSTs and a DELETE, or a DELETE between POSTs, so that damage done by
a refused call is met by later requests; three reach POST, POST, DELETE and POST, DELETE,
POST.  One crash or failed request comes at every place.  Resubmissions with settled
requests are checked by `gateways_told`, and proved of each property but `GwRowsBacked`.
Nodes and IPs are interchangeable, so their permutations are symmetries (not used in
`zgc_racing`, which checks liveness).  The number of requests is bounded, so a behaviour
may stop with nothing left to do, and deadlock is not checked.

Fairness.  `FairSpec` has weak fairness of the manager's steps taken together (one
thread that runs until its request ends) and of each droplet's handlers (kopf runs
what is due).  Clients and crashes owe nothing.  The loop in `kube_update_obj` that gets
and patches until there is no conflict is one step, `FinishProvision`: that the manager's
writes might starve it is not a question the model answers.

What does not hold, and is therefore stated under assumptions.
- `OneOwner` fails without `Settled`: the operator's patch restores the IPs a giver
  has just lost (`kube_update_obj` writes the whole spec), or makes the giver's
  replace fail with a conflict, after which the new droplet is created all the
  same.  No document of the repository promises otherwise to REST clients.
- Without the exception of `kept`, `OneOwner`, `OwnershipSpec` and `OneEntrance` fail by one
  refused replace or delete; without that of `lost`, `RangeCovered` fails by one refused
  create.  A resubmitted POST of a node that has its droplet is one, always.
- That a recorded node has a droplet fails by one refused create as well: the Node and Gw
  rows are committed.  Nothing is left to say of it, so no property does.
- `RangeCovered` fails after a crash: a POST that is cut off has taken IPs that nobody
  gets, and no call was refused.
- `EntrancesMatch` fails after a crash: nothing compares the two again.  A daemon in
  `untold` stays wrong until the next list it takes.  `GwRowsBacked` fails after a crash
  between the creation of a droplet and its row: a later POST of the node commits other
  IPs.
- `OneEntrance` fails if a node is POSTed again after its DELETE: `Remove` does not tell the
  leaving daemon anything, and the program stays loaded (see `Unload`).  `zgc_entrances` has
  DELETE without resubmissions; the theorem has resubmissions without DELETE.

### Proofs (`ZgcDropletsProofs`)

All for any finite set of nodes, any range, any number of requests and crashes.

- `TypeCorrect`: `Spec => []TypeOK`, without assumptions about the clients; the
  inductive invariant adds `RequestShape` (which local variables of a request are
  set in which phase).
- `SettledSafe`, `NoIpTwice`: if `Settled`, then `Spec => []SettledInv` and
  `Spec => []OneOwner`, whatever is refused.  `OneOwner` is not inductive: what a request is about to
  write was computed earlier.  The strengthening says that what is pending is
  still accurate (`PendingCurrent`), that a handler's copy is current
  (`HandlerCurrent`), that the IPs of a droplet to be created are with nobody but
  givers about to be rewritten without them (`NewUnowned`), and that what
  receivers will have is with nobody but the leaving droplet, already out of
  service when the first of them is rewritten (`Receiving`).  The last two except `kept`: a
  refused replace takes the giver out of `Pending` with its IPs, a refused delete lets
  `Receiving` go on with a droplet whose IPs are all in `kept`.
- `ImplementsOwnership`: if `Settled`, then `Spec => OwnershipSpec`: each step is a
  `Release` or a `Grant` of `IpOwnership` under the mapping `Holding`, or leaves it
  alone.  `Holding` is a droplet's list without `kept`, so that a refused replace or delete
  is a `Release`, as one carried out, although the droplet does not change: what is proved
  of IPs in `kept` is only that no droplet regains a claim to them.

- `StoreSafe`, `NeverUnprovisioned`: without assumptions about the clients,
  `StoredDropletsExist` is an invariant and `ProvisionedStays` holds.  The
  strengthening (`RacingInv`) adds that the status a request is about to write is
  the droplet's, unless the droplet has changed and the write will be refused
  (`StatusCurrent`), and that handlers run only for droplets that need them
  (`HandlerDue`).

`ZgcServiceProofs` builds on these invariants.

- `PatchesKeepIps`: if `Settled`, then `Spec => PatchKeepsIps`, from `HandlerCurrent`.
- `NoneEmptied`: `Spec => []EveryDropletHasIp`, without assumptions about the clients.
  The strengthening (`WritesHaveIp`) says that every handler's copy, every body
  still to be written and the list for a new droplet name an IP.  What a POST
  computes is proved from the folds themselves (`TakesAndLeaves`): if the share is
  positive some droplet has two IPs (`SomeGiver`), the passes end (`PassesEnd`), at
  least one is made (`TakenNothing`), and a pass leaves each giver one.
- `RowsBacked`: if `Settled`, without resubmissions, then `Spec => []GwRowsBacked`, which
  speaks of the time until the first crash.  The strengthenings are implied by
  `crashes = 0`, and crashes are only counted up (`CrashesCount`).  A droplet in the API
  server has its node's row before any other request sees it (`RowFirst`), so that nothing
  stops a request (`Unhindered`); a giver's rows are rewritten before its droplet
  (`RowsCurrent`); rows committed after a refused create are of a node without droplet.
- `NothingLost`: if `Settled`, resubmissions allowed, then `Spec => []RangeCovered`.
  `Covering` counts what each droplet will have once the request has written it
  (`Planned`), the IPs a POST holds (`Spare`), and not the leaving droplet; a refused call
  moves what it does not hand out from there to `lost`.
- `DaemonsMatch`: if `Settled`, resubmissions, lost RPCs and lists of any length allowed,
  then `Spec => []EntrancesMatch`, until the first crash as well: a daemon that is sent a
  list has it or is in `untold` (`ConfigureTells`), and one that is not in `untold` agrees
  with its droplet unless it is the next to be told (`NextTold`), of a list that is the
  droplet's (`ListCurrent`).
- `OneAnswers`: if `Settled`, without DELETE (crashes, resubmissions and lost RPCs are
  allowed), then `Spec => []OneEntrance`.  Of daemons not in `untold` (`Told`) none answers
  for an IP of another's droplet that is not in `kept` (`Exclusive`), only givers still to be
  told answer for what a POST has taken (`TakenUntold`), and a node without droplet was
  never told of an IP (`Configured`).

TLC finds each of these strengthenings invariant on the instances of the runs above.
A sum over a set is a recursive function on its subsets, and the induction theorems of
the library cannot be used; `FoldsAgree` stands for them: two such functions that are
computed in the same way agree, because there is no smallest subset on which they
differ.

Only model-checked: `EventuallyProvisioned` (liveness is out of the prover's reach).

## 4. TransitDaemon

The daemon of one node with its two interfaces (`tenant`, `zgc`) and the BPF
objects it makes.  It serves one RPC at a time (`svc_run` in one thread), but
packets, failures and signals arrive between any two system calls.  So
`load_transit_xdp` and `unload_transit_xdp` take one step per object or
interface, with an early return at each; every other RPC is one step.

| Variable | Code |
|---|---|
| `md` | the pointer `md`, NULL as 0; the metadata of a load is named by the number of the attempt |
| `table` | the descriptors in `trn_xdp_bpfmaps`: the load whose open maps they are, 0 when they are -1 or closed |
| `objs` | BPF objects of the process that are open, those nobody points to any more included |
| `pins` | files under `/sys/fs/bpf`: of the shared maps, and `xdpcap_hook` |
| `attached` | what `bpf_xdp_attach` left on each interface |
| `jmp`, `entries` | the contents of `jmp_table`; of `endpoints_map` and `if_config_map` |
| `phase`, `at` | the place in the call being served, its loop index |
| `acked` | what the last call that returned 0 said of a key, until the maps are given up |
| `loads`, `restarts` | attempts and restarts; they also bound the model |

| Action | Code |
|---|---|
| `LoadBegin`, `LoadMain`, `LoadStage`, `LoadInit`, `LoadAttach` | the steps of `trn_transit_xdp_load`, with `trn_prog_load`, `post_load` and `map_initialize` |
| `Load...Fails` | its `goto cleanup`s, where `md` is freed and nothing else is undone (`Abandon`) |
| `UnloadBegin`, `UnloadDetach`, `UnloadReattach`, `UnloadRelease`, and their failures | `trn_transit_xdp_unload` |
| `EbpfLoad`, `EbpfLoadFails`, `EbpfUnload` | one stage replaced or taken out |
| `UpdateEndpoints`, `UpdateFails`, `DeleteEndpoint`, `UpdateDroplet` | the map RPCs |
| `Stop`, `Start` | the process ends anywhere; a new one mounts `/sys/fs/bpf` again |

Calls that return without an effect (`md` already set or NULL, a bad index, an
unknown interface) are stuttering steps.  Three facts about the kernel are taken
from its documentation, not from this code: an attached program outlives the
process and keeps its maps; a prog array is emptied when no descriptor and no pin
refers to it, attached programs notwithstanding; unmounting the BPF file system
drops its pins.

### Runs

| Run | Instance | Shows |
|---|---|---|
| `daemon_faults` | 3 loads, 1 restart, 2 stages, 2 entrance lists; every call may fail but the re-attach | `TypeOK`; `LoadedServes`: `md` set means both interfaces are served; `JumpsFilled`: what runs finds its stages; `DropletServed`: an acknowledged entrance list is the one in use |
| `daemon_endpoints` | 2 loads, 1 restart, 1 stage, 2 keys, 2 values; loads do not fail, everything after them may | `EndpointsServed`, `PinsCurrent` |
| `daemon_detach` | nothing fails | violated: an unload ends with the program attached and its maps released |

Bounds.  Two interfaces are what the code has.  Two stages distinguish the first
from the last (the code has four, treated alike).  Three loads are the fewest for
one that fails, one that succeeds and one after it; one restart puts a crash at
every place of any of them.  Loads and restarts run out, so a behaviour may end:
deadlock is not checked.  There is no liveness property: the daemon only answers
calls, and a system call that does not return is beyond it.

What does not hold, and is therefore stated under assumptions.
- `LoadedServes` fails if the re-attach of an unload fails: the unload returns
  with the interface bare and `md` set, and every later load returns 0 at once.
  (A query that fails is harmless, precisely because what the unload had detached
  it has attached again.)
- `EndpointsServed` fails once a load has failed: `update_ep` goes by the map
  table and never asks for `md`, so it fills the maps of the abandoned load and
  reports success; the next load starts with empty maps.
- `PinsCurrent` fails likewise: the pins of the abandoned load stay, and
  `post_load` takes a pin that exists for its own.
- The finding: `trn_transit_xdp_unload` re-attaches at line 899 what it has
  detached at 892, against its comment at 882.
- An unload leaves the pin of `xdpcap_hook`: it looks for a map called
  `xdpcap_hook_map` (920), which the map table calls `xdpcap_hook` (86).  The
  model keeps that pin; no property is stated about it.

### Proofs (`TransitDaemonProofs`)

For any number of interfaces, stages, keys, values, loads and restarts.

- `TypeCorrect`, together with `CallShape`: where a call is, its index is in
  range, `md` is set and is the latest load.
- `JumpsSafe`, `DropletsSafe`: `JumpsFilled` and `DropletServed` whatever fails.
- `LoadedSafe`: `LoadedServes`, assuming `"reattach" \notin Fails`.
- `EndpointsSafe`, `PinsSafe`: assuming that no call of a load fails.

None of the five is inductive: each is about a moment between calls or about what
an earlier load left.  The invariant they rest on says what holds between any two
system calls: the map table and the main program's object are those of `md`
(`MapsInUse`); a load has attached exactly the interfaces before its index, and
afterwards an interface runs `md`'s program or none (`Attachments`); `md`'s jump
table is full from `LoadInit` on (`MdJumps`); an unload leaves at most the
interface it is at bare (`OneDetached`, with the assumption of `LoadedSafe`); and
what has been acknowledged is in `md`'s maps, for entrance lists always and for
endpoints when loads do not fail (`AckedInMd`, `TableOfMd`).  TLC checked these
parts on the instances above before they were proved.

## 5. TransitXdp

The XDP program of a gateway, `_transit` in `trn_transit_xdp.c` with all it calls,
for one frame on each CPU.  A frame is a record of the fields the program looks
at; `fits` counts the headers it has in full.  The daemon and an agent of the node
rewrite the maps at the same time and nothing excludes them, so a run takes one
step between any two reads of shared state.  `endpoints_map` is preallocated: an
element that was deleted is used again at once, even while a run holds a pointer to
it.  Elements are slots, and `slots` survives the key that pointed to them.

| Variable | Code |
|---|---|
| `role`, `num`, `entrances`, `writing` | the element of `if_config_map`; the part a write has yet to copy |
| `epIdx`, `slots` | `endpoints_map` |
| `rules`, `jmp`, `xsks` | `sg_cidr_map`, `jmp_table`, `xsks_map` |
| `appendTail`, `notAddTail` | the build, and the global `pkt_not_add_tail` |
| `cpu` | the run on each CPU: where it is, the frame as it is and as it came, what it has read |
| `writes` | counter that bounds the model |

| Action | Code |
|---|---|
| `Receive`, `ProcessEth`, `ProcessIp` | `_transit`, `trn_process_eth`, `trn_process_ip` down to the overlay header |
| `CheckEgress`, `CheckIngress`, `EpLookup` | `trn_sg_check`, twice, and the lookup of the endpoint, in `trn_process_inner_ip` and `trn_process_inner_arp` |
| `RewriteInner`, `RewriteOuter`, `AppendHints` | the rewriting of the headers, the checksum, the hints |
| `Conclude`, `FindSocket`, `Redirect` | the end of `_transit`: tail call to a stage, or `xsks_map` |
| `Leave`, `Return` | the frame is gone, or comes back from an endpoint whose host is an entrance |
| `WriteEndpoint`, `DeleteEndpoint`, `WriteConfig`, `CopyEntrances`, `WriteRule`, `WriteStage`, `WriteSocket` | user space |

Run `xdp_gateway`: three good frames and each frame that differs from one of them in
one respect, two writes between any two reads.  The build with `appendTail`, where
runs meet in `pkt_not_add_tail`, has two CPUs and no writes.

- `SentWhenDue`, `SentToEndpoint`: for runs no write disturbs, a definition of which
  frames must leave and where to, said of the whole frame at once.
- `UnsentUntouched`: whatever user space does, a frame that is not sent on is as it
  came.
- `SentVerifies`: the header checksum.  Words and TTL count modulo `Base` = 16, with
  the sums small enough to need one fold and large enough to need two.
- `LoopsEnd`: frames that come back run out.
- `HintsNameSender`: hints name the host the frame came from, or 0 when another CPU
  wrote `pkt_not_add_tail` between two reads.
- `NoTenantFrameToKernel`, which is only proved: the `XDP_PASS` that permits in
  `trn_sg_check` does not become a verdict, whatever is written meanwhile.

What does not hold, and what one should know.  Nothing in the repository fills
`sg_cidr_map`: without an agent that does, every inner IP packet is dropped.
Lookups in it are 64 bits long and end before the addresses.  A disturbed run may
send a frame to the endpoint that took over the slot (line 237 against 321).
`update_droplet` writes uninitialised stack bytes behind the entrances it was given
(`Junk`).  A gateway writes its own MAC as
source of the hints, so the agent hears the host of the sender with the MAC of the
gateway.

### Proofs (`TransitXdpProofs`)

Every property above is a theorem, for any frames, endpoints, rules, entrance
lists, numbers of CPUs, slots and writes, and any modulus `Base`: `TypeCorrect`,
`SendsWhenDue`, `SendsToEndpoint`, `LeavesUntouched`, `NoTenantFramePasses`,
`SendsVerify`, `RoundsEnd`, `HintsTellSender`.

The properties speak of a run that is over.  The invariant `Inv` says, of a run at
each of its steps, what it has come to, in terms of the frame as it came: what the
frame has been made into (`Made`), where its endpoint was found (`Found`), which
conditions it has passed (`Read`, `Fit`, `Passed`), what it has cost of the TTL
(`Hops`) and what its tail is (`Tailed`).  A run is `quiet` while no write has come
between its reads, and as long as the list of entrances is not half copied; the writes
of user space keep `Inv` because they end the quiet of every run that has read what
they write (`Config`, `MapsShape`).
`SendsVerify` rests on `ChecksumVerifies`: the sum of any three words is below
3 `Base`, a round of `trn_csum_fold_helper` brings it below `Base`, or to `Base`, from
where one more does (`Round`, `FoldFits`), and none changes it modulo `Base` - 1.

Assumed: `Base` > 1; what a frame is (`FramesAssumption`); host addresses are words
(`EndpointAssumption`); entrances with one MAC are the same, as MACs are made of IPs
(`ListsAssumption`); the first state of `endpoints_map` gives no element to two keys
(`MapsAssumption`).

## 6. CnDpnd

The daemon of a compute node.  Its XDP program reads what a gateway has put behind a
frame and pushes a hint to a queue; its process pops the queue and sends each hint to
the control agent.  Every start loads a program and a queue of its own, named here by
the number of the start; the program stays attached when the process ends.

| Variable | Code |
|---|---|
| `cpu` | the run on each CPU, and the program it belongs to |
| `attached` | the program on the device |
| `proc`, `object`, `sendbuf` | the process of each start, the object file it found, the hint between pop and `sendto` |
| `queue` | `local_queue_map` of each start |
| `pushes`, `newest`, `told`, `lost`, `overlap` | history: numbers of the hints, the last hint of each flow and the last the agent was told, datagrams not sent, two processes reading at once |

| Action | Code |
|---|---|
| `Arrive`, `Push`, `Leave` | the program up to the push (`trn_process_eth` ... `trn_process_inner_ip`), the push with `BPF_EXIST`, its end |
| `Start`, `FindQueue`, `NoQueue`, `Unfit` | `main`, with `--force`; no map of that name; a map of another size or no socket |
| `Pop`, `Send`, `SendFails` | `cn_dp_assistant` |
| `Kill`, `Unload`, `Free` | the process ends; `--unload`; the kernel frees the queue of a program nobody uses |

Run `cn_hints`: a queue of 2, two starts, three hints on one CPU: the fewest for which
a queue overflows, and a second program takes over with hints left behind.

- `Delivers`: no hint, full queue or replaced program costs the host a frame.
- `ToldHost`: what the agent is told names the host of the flow's address.  It
  rests on `GatewayAssumption`, which is `HintsNameSender`.
- `NewestTold`: once a reader has caught up, the agent's last word on a flow is its
  newest hint, unless that hint was pushed out, its datagram lost, or two
  processes have read at once.
- `Drained`: a reader comes to the end of its queue.

Fairness: weak fairness of each process, which loops until it is killed.  Frames,
starts, kills and the network owe nothing.

What does not hold.  `NewestTold` fails when a second process is started with
`--force` while the first reads: they send the hints of a flow in any order.  A start
that finds no queue detaches whatever program is on the device by now
(`cn_dpnd_usr.c:348`); one that finds a queue of another size exits and leaves its
program attached (357), so hints go to a queue nobody reads.

Proofs (`CnDpndProofs`), for any number of CPUs, starts, hints and any queue length:
`TypeCorrect`, `DeliversSafe`, `ToldHostSafe`, `NewestToldSafe`.  The inductive
invariant `IInv` says that starts are in order and numbers grow along each queue
(`Started`, `Spaced`), that the newest hint of a flow is with one start only
(`Owned`), that one process reads at a time unless `overlap` (`OneReader`), that
nothing of a flow is left in the queue behind the newest hint once the agent has been
told it (`ToldLast`), and, the heart of it, that the newest hint of a flow is on its
way, told, lost or pushed out (`Kept`).  `NewestTold` alone says nothing while a hint is between the queue and the
agent.  Assumed: that the capacity is positive, what a frame is, and
`GatewayAssumption`.  Only model-checked: `Drained`.

## 7. Endpoints

How ports reach the nodes.  `POST /ports` collects endpoints in the list `eps`,
commits the rows, and sends the list in batches to every address of `node_ips`, one
CLI after the other.  A CLI calls over UDP, sends a call again every 5 seconds and
gives up after 25; the daemon keeps no record of what it has served.  What is said
of an endpoint is the number of the request that said it.

| Variable | Code |
|---|---|
| `portRows`, `vpcRows` | the tables `ports` and `vpcs` |
| `vnis`, `nodeIps`, `eps` | `settings.vnis`, `settings.node_ips`, `ports.eps`: memory of the worker |
| `req`, `phase`, `at` | the request being served; the batch and the node it is at |
| `call`, `orphan` | the CLI the worker waits for; one whose worker was killed |
| `net`, `daemon`, `table` | copies in the socket of each daemon, the daemon, its `endpoints_map` |
| `posts` ... `strayed` | bounds, and history the properties need |

| Action | Code |
|---|---|
| `PostVpc`, `DeleteVpc`, `LoadNode`, `UnloadNode` | what VPC and node requests do to the memory that `ports.py` reads |
| `Post`, `CommitPorts`, `CommitEps`, `Refuse` | `all_ports`, `set_up_ports_in_the_same_vpc_from_hazelcast`: the loop, two commits, an exception at either |
| `Call`, `Finish`, `DeletePort` | `update_ep` for one batch and node; the answer; DELETE |
| `Transmit`, `Unreached`, `Replied`, `Expire` | the CLI |
| `Serve`, `Die`, `Restart`, `Overtake` | a daemon serves a copy, dies within a batch, comes back; a copy overtakes another |
| `Crash`, `OrphanTransmit`, `OrphanEnds` | gunicorn kills the worker; its CLI runs on |

Run `endpoints_told`: two nodes, both loaded (`Known`), two VPCs with a port each, batches of 2, tables of 1
entry, sockets of 2 copies, 2 copies per call, 2 posts, 2 other changes, one killed
worker, one dead daemon.  Two posts and what a refused one leaves behind make three
entries, so a full batch and a short one.

- `NeverOlder`: a node does not go back behind what it has acknowledged.
- `EveryNodeTold`: 201 means that the call of each known node with each port is over.
- `RowsFirst`: nodes hear of a port only after its rows are committed, or with a later
  request that was.
- `RequestsEnd`: every request ends, whatever nodes do.

Fairness: weak fairness of the worker and of the CLI it waits for.  Nothing is asked of
the network, of daemons, or of the CLI of a dead worker.

What does not hold.
- That a node's table matches the rows.  The endpoint of a refused request goes out
  with the next accepted one; PUT and DELETE of a port tell no node; only the first
  address of a port is sent.
- That a node added later hears of older endpoints.
- After a worker was killed `node_ips`, `vnis` and `eps` are empty: a POST is answered
  201 with nobody told, and ports of VPCs made before are refused.
- `NeverOlder` fails for nodes in `strayed`: where the network delivers copies in another order,
  an orphan's copies come after newer calls, or (found by TLC) a batch that names a
  port twice is sent again and cut short by the daemon's death between the two.

A daemon is coarse here: its failures within a load are `TransitDaemon`'s.

### Proofs (`EndpointsProofs`)

For any nodes, any finite set of ports, any requests, sizes of batches, maps and
sockets, and any numbers of copies, posts, deaths and killed workers.

- `TypeCorrect`: `TypeOK`, from `Shaped`, which adds that the call is of the batch and
  the node the loop is at.
- `RowsComeFirst`: `RowsFirst` speaks of tables, but what they say was in a socket
  before, in a call, and in `eps`.  `Asked` says what of `eps` may go out once the loop
  begins, `Out` that calls, copies and tables hold nothing else.
- `NodesTold`: the loop's invariant (`Told`): each element of the request is in `eps`,
  and the batches and nodes behind the loop's place are called.  It needs that the
  batches cover the list (`ChunksCover`, `ChunkIs`).
- `NodesNeverOlder`: `NeverOlder` is not inductive, as copies are still to come.
  `Fresh` says of each of them, for a node that is not in `strayed`, that it is harmless: it
  says nothing older than what was acknowledged, or says again what is there.  A new
  copy is, because what a node is to be told yet is not older than what it has
  acknowledged (`Ahead`); an acknowledgement makes the copies of its call harmless in the
  second way, and no others are in the socket (`Numbered`, `InOrder`).

The daemon's loop over a batch is the recursive function `Steps`.  That it is defined
(`StepsDefined`), and what it keeps after any number of elements (`StepsTrack`), is
proved by the smallest counterexample (`Least`): a set of numbers that holds one has a
least one.  TLC checked `Asked`, `Out`, `Told`, `Ahead`, `Numbered`, `InOrder` and
`Fresh` on the instance above before they were proved.  Assumed: batches are not empty
and the CLI takes them (`BatchAssumption`), ports are finitely many
(`FiniteAssumption`), the nodes loaded at the beginning are a list without
repetitions (`KnownAssumption`), requests are lists of ports.  Only model-checked: `RequestsEnd`.

## 8. GatewayNodes

The manager as it runs: `ZgcDroplets` and `Endpoints` in one process.  They share two
things.  The worker serves one request at a time, of either kind (`Free`).  And
`settings.node_ips`, a dictionary: `node_load_transit_xdp` and
`node_unload_transit_xdp` write it, `ports_update_eps_config` goes through it.  It is
`nodeIps`, a list in the order of insertion, to `Endpoints`, and `ToSet(nodeIps)`, a set, to
the instance `Zgc` of `ZgcDroplets`.  (It is an instance of `ZgcServiceProofs`, which
extends `ZgcDroplets`, so that the theorems come with it.)

| Action | Steps it joins |
|---|---|
| `PostNode`, `PostNodeNoZgc` | `LoadNode` with the beginning of a POST: the node is entered, and its daemon called; without a ZGC an exception comes between the two |
| `NodeStep` | a step of the request for a node; the last of a DELETE is an `UnloadNode` as well |
| `DeleteNode`, `PostZgc`, `Operator` | of `ZgcDroplets` alone; the operator also runs during requests for ports |
| `VpcRequest`, `PortRequest`, `PortStep`, `Network` | of `Endpoints` alone; a VPC is only made while there is a ZGC |
| `NodeRequestFails` | an exception ends the request for a node, not the worker |
| `WorkerKilled` | one worker dies: `Crash` and `ManagerCrash` |

Run `gateways_told`: three nodes, three IPs, three requests for nodes that start settled,
resubmissions and refused calls, one post of one port, one killed worker, and one crash of
either process or failed request.  Two nodes are the fewest of which one may be deleted; a
third makes a DELETE deal IPs to one of two.  Requests at any time, which `GatewaysKnown`
does not exclude, are left to the theorems below.

- `GatewaysKnown`: until a worker is killed, each node with a droplet in service is in
  `node_ips`, unless the deletion of its droplet was refused and it has not been POSTed
  since (`stranded`): `node_unload_transit_xdp` is called all the same.
- `GatewaysTold`: 201 for ports means that each node with a droplet in service, and not
  `stranded`, has been called with each of them, not only those `Endpoints` calls known.
- `EveryGatewayTold`: whichever gateway IP a tenant uses, of those `POST /vpcs` hands
  out, a node it belongs to has been called with the port, until something crashes; except
  for the IPs that refused calls did not hand out (`lost`), which are with nobody, and those
  of a droplet whose deletion was refused.

Fairness is that of `Endpoints`; the properties are safety.

What does not hold: any of the three once a worker was killed, as the new one has an empty
`node_ips` while droplets stay in service, and nothing fills it again but a POST of
the node.  Without their exceptions each fails by one refused call.  `EveryGatewayTold`
needs what `RangeCovered` needs: settled requests, no crash of the operator either.

### Proofs (`GatewayNodesProofs`)

For any values of the constants that `GatewayAssumption` allows, which are those of
`ZgcDroplets`, and no node at the beginning (`NobodyAssumption`, as in `ZgcDroplets`).

- `ImplementsZgc`, `ImplementsEndpoints`: `JointSpec` implements the specification of each
  component, so that all theorems of sections 3 and 7 hold of the manager as a whole.
  The second needs an invariant of the first: a DELETE in progress is of a node.
- `GatewaysKnownSafe`: `GatewaysKnown` is not inductive.  `ServedKnown` adds that a POST in
  progress has entered its node, and that a DELETE past `Remove` has taken the droplet
  out of service, or made the node `stranded`, before `Unload` takes the node out of
  `node_ips`.  That a `Replace`
  does not bring it back into service is `RacingInv`: its body has the droplet's status,
  or is refused.  `ServedStep` (in `ZgcServiceProofs`) is the proof for one step;
  `CrashesGrow` keeps the killed workers apart.
- `GatewaysToldSafe`: from `NodesTold` and `GatewaysKnownSafe`'s invariant.
- `EveryGatewayToldSafe`: if `Settled`, from `NothingLost`, as ports are served when no request for a
  node is in progress (`OneAtATime`).

TLC finds the strengthening (`ZgcShape`, `Undisturbed`, `OneAtATime`) invariant on the
instance of `gateways_told`, and on one of two nodes, IPs and one port with requests at
any time and resubmissions.

## 9. OperatorChains

What the operator builds when it starts: a DFT and forwarders, chains from the
handler of the DFT, FTNs from the handlers of chains, and a droplet for each FTN and
forwarder.  kopf runs these synchronous handlers in a pool of threads, one per
object, counts the attempts of one that raises a temporary error, and gives up after
`kopf_max_retries`.

| Variable | Code |
|---|---|
| `status`, `holds`, `links` | the objects in Kubernetes: status; droplet of FTNs and forwarders; ftns, head and tail of chains |
| `droplets` | `OprStore.store["Droplet"]`, which are the provisioned ones |
| `stored` | the DFT and the chains in `OprStore.store` |
| `allocated` | `DropletOperator.allocated_droplets` |
| `boot` | how far `CommonOperatorStart` has come |
| `run`, `tries` | the handler of each object, with the children it has created and the droplet it has picked; kopf's count |
| `raced`, `emptied`, `short`, `changes`, `crashes`, `faults` | history and bounds |

| Action | Code |
|---|---|
| `Boot` | `create_default_dft`, `create_default_fwds`, one object at a time |
| `BeginParent`, `CreateChild`, `Store`, `Patch` | `dft_create`, `chain_create`, `create_n_chains`, `create_n_ftns`, `set_object_provisioned` |
| `BeginHolder`, `Sample`, `Allocate`, `Patch` | `ftn_create`, `fwd_create`, `assign_droplet` up to the pick and after it |
| `Retry` (within the two `Begin`s) | `raise_temporary_error` |
| `Fault` | a call to Kubernetes raises, which `run_workflow` makes a permanent error |
| `Crash` | the operator dies; the next one lists what is provisioned |
| `NewDroplet`, `LoseDroplet` | the handlers of droplets, of which `ZgcDroplets` has the detail |

Stores of FTNs and forwarders are left out: a handler resets what it finds there
from the event's spec.  A handler takes the step from the check of its parents to the
first creation at once, as nothing is taken out of the store of parents.

Run `operator_tree`: one chain of two FTNs, two forwarders, three droplets (a fourth
may come), two attempts, two threads, one trouble: a restart, a failed call, or a
droplet that comes or goes.  Four that want three droplets reach the race for one
droplet, the race for the last, and the lack of one; two threads are the fewest that
race.  One trouble at every place of any behaviour is what fits; the proofs have no such
bound.

- `OneHolder`: until a restart, a droplet has one holder, and one that is provisioned
  has a droplet, unless two were picked at once, or the last was taken between the
  look and the pick.
- `Complete`: a DFT or chain that is provisioned has all its children, and a chain lists
  each FTN once and in order, whatever was interrupted and done again.
- `EventuallyServed`: in the end every object is provisioned, unless a call has failed,
  droplets have run out, or, for FTNs, the operator has restarted.

Fairness: weak fairness of the start and the handlers taken together: something of the
operator that can run does.

What does not hold, and is therefore stated under assumptions.
- Two threads may pick one droplet (`droplets_operator.py:70-76` has no lock), or
  one may find none left; `assign_droplet` then returns False, nobody looks, and the
  FTN is provisioned with an empty droplet.  These are `raced` and `emptied`.
- `allocated_droplets` is not rebuilt at a start: after a restart droplets are
  given again while their holders are provisioned.
- A droplet is never given back: `unassign_droplet` has no caller (and would raise, `d`
  is not defined there).  A droplet whose holder could not be patched, or that went
  away and came back, is lost until a restart.
- After a restart an FTN that is still Init waits for its chain to be provisioned
  again, as only provisioned chains are listed; kopf may have given up by then.
- An object whose handler has failed is tried again only after a restart.
No document of the repository promises otherwise, so none of these is a run that
expects a violation.

Proofs (`OperatorChainsProofs`), for any number of chains, replicas, droplets, threads,
attempts and troubles.
- `TypeCorrect`: types, and what a running handler implies (its object is Init, the
  operator has started).
- `OneHolderSafe`: `OneHolder` speaks of Kubernetes, but a droplet is decided on two steps
  earlier.  `DropletInv` says of every droplet that is held, picked or about to be
  written that no other has it and that it is allocated, or is about to be by the
  only handler at that place (`Distinct`), and that a handler past the look still has a
  droplet to find (`Filled`), as long as `raced` and `emptied` say so.
- `CompleteSafe`: `BuildInv` says that what a handler has created is the beginning of
  the list of children, that each of them exists, and that one about to be patched
  has created all (`Building`).
Assumed: the sizes are positive, and the empty string is no droplet.  Only
model-checked: `EventuallyServed`.

## 10. Not modelled

- Everywhere: requests that only read, logging, JSON and CRD formats, deployment,
  tests, vendored code, the books example, the kernel and libbpf themselves.
- Of the manager: PUT of nodes, ZGCs, VPCs and ports, which edit columns; hosts; the
  Hazelcast client.
- Of the operator: deletion of DFTs, chains, FTNs and forwarders, which nothing in the
  program asks for; the maglev table.  `create_n_chains` adds names to it and copies
  `MaglevTable.table` without calling `get_table`, which computes it: the table of a DFT
  is always empty, and only a unit test fills one.
- Of the daemon: security-group maps, which no RPC reaches; the datapath
  assistant, which is not built (`turnOn 0`); the numbers of file descriptors, so
  not what a call on a descriptor that was closed and given out again does;
  programs of others on the interface.
- Of the XDP programs: debug counters and xdpcap.
- Of the compute node: the length of the datagram, which is a whole frame's, sent from
  the hint's first field on (`cn_dpnd_usr.c:286`), and so what lies behind the hint.
- Of the manager as a whole: what the death of a daemon does to the entrances it was
  told (`ZgcDroplets` keeps what was said, `TransitDaemon` says what becomes of it), so
  daemons do not die in `GatewayNodes`.
