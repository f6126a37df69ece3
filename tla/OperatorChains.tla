--------------------------- MODULE OperatorChains ---------------------------
(***************************************************************************)
(* The operator's tree of objects: a DFT and forwarders made at its start, *)
(* chains made by the handler of the DFT, FTNs by the handlers of chains.  *)
(* FTNs and forwarders take a droplet each.  Handlers of different objects *)
(* run in threads side by side, their calls to Kubernetes can fail, those  *)
(* that must wait are tried again a few times, and the operator's memory   *)
(* (the store and the droplets allocated) does not outlive its process.    *)
(***************************************************************************)
EXTENDS Naturals, Sequences, FiniteSets

CONSTANTS
  NChains,     \* default_n_chains, 3
  NReplicas,   \* default_n_replicas, 3: FTNs of a chain, and forwarders
  Droplet,     \* names of droplets
  Present,     \* those in the cluster when the operator first starts
  Nothing,     \* the empty string
  MaxTries,    \* kopf_max_retries, 10
  Threads,     \* handlers kopf runs at once
  MaxTroubles  \* bound: deaths of the operator, calls to Kubernetes that
               \* fail, droplets that come or go, taken together

ASSUME SizesAssumption == NChains \in Nat \ {0} /\ NReplicas \in Nat \ {0}
ASSUME TriesAssumption == MaxTries \in Nat \ {0} /\ Threads \in Nat \ {0}
ASSUME DropletAssumption == Present \subseteq Droplet /\ Nothing \notin Droplet

Dft == <<"dft", 0, 0>>
Chain(i) == <<"chain", i, 0>>
Ftn(i, j) == <<"ftn", i, j>>
Fwd(i) == <<"fwd", i, 0>>

Chains == {Chain(i) : i \in 1 .. NChains}
Ftns == {Ftn(i, j) : i \in 1 .. NChains, j \in 1 .. NReplicas}
Fwds == {Fwd(i) : i \in 1 .. NReplicas}

Parents == {Dft} \cup Chains
Holders == Ftns \cup Fwds
Objects == Parents \cup Holders

\* create_n_chains, create_n_ftns: what the handler of an object creates.
Children == [o \in Parents |->
  IF o = Dft THEN [i \in 1 .. NChains |-> Chain(i)]
             ELSE [j \in 1 .. NReplicas |-> Ftn(o[2], j)]]

\* What a start of the operator creates.
Roots == [i \in 1 .. NReplicas + 1 |-> IF i = 1 THEN Dft ELSE Fwd(i - 1)]

VARIABLES
  status,     \* status of each object in Kubernetes, "none" when it is not there
  holds,      \* droplet of each FTN and forwarder, in Kubernetes
  links,      \* ftns, head and tail of each chain, in Kubernetes
  droplets,   \* the droplets in OprStore.store, which are those provisioned
  stored,     \* the DFT and the chains in OprStore.store
  allocated,  \* allocated_droplets
  boot,       \* how many of Roots the starting operator has created
  run,        \* the handler of each object
  tries,      \* attempts kopf has counted for each object
  raced,      \* history: two picked droplets at once, or the allocated are forgotten
  emptied,    \* history: a droplet went to another, or away, under a handler that
              \* had seen it free, or the allocated are forgotten
  short,      \* history: an FTN or a forwarder has found no droplet free
  changes, crashes, faults

memory == <<stored, allocated, boot, run>>
cluster == <<status, holds, links>>
history == <<raced, emptied, short>>
bounds == <<changes, crashes, faults>>
vars == <<cluster, droplets, memory, tries, history, bounds>>

Unlinked == [ftns |-> <<>>, head |-> Nothing, tail |-> Nothing]
NotRunning == [pc |-> "idle", made |-> <<>>, pick |-> Nothing]

Bounded == changes + crashes + faults < MaxTroubles

Free == droplets \ allocated
Ready == boot = Len(Roots)

Init ==
  /\ status = [o \in Objects |-> "none"]
  /\ holds = [o \in Holders |-> Nothing]
  /\ links = [c \in Chains |-> Unlinked]
  /\ droplets = Present
  /\ stored = {}
  /\ allocated = {}
  /\ boot = 0
  /\ run = [o \in Objects |-> NotRunning]
  /\ tries = [o \in Objects |-> 0]
  /\ raced = FALSE
  /\ emptied = FALSE
  /\ short = FALSE
  /\ changes = 0
  /\ crashes = 0
  /\ faults = 0

CreatedNotStored(o) ==
  /\ status' = [status EXCEPT ![o] = IF @ = "none" THEN "Init" ELSE @]
  /\ UNCHANGED stored

\* kube_create_obj: an object that is there already keeps its spec.
Created(o) ==
  /\ status' = [status EXCEPT ![o] = IF @ = "none" THEN "Init" ELSE @]
  /\ stored' = stored \cup ({o} \cap Parents)

\* create_default_dft and create_default_fwds, one object at a time, before
\* kopf calls the first handler.
Boot ==
  /\ ~ Ready
  /\ Created(Roots[boot + 1])
  /\ boot' = boot + 1
  /\ UNCHANGED <<holds, links, droplets, allocated, run, tries, history, bounds>>

(***************************************************************************)
(* A handler.  It runs for an object whose status is Init.                 *)
(***************************************************************************)
\* kopf gives up after MaxTries attempts.
Retry(o) ==
  /\ tries' = [tries EXCEPT ![o] = @ + 1]
  /\ run' = [run EXCEPT ![o].pc = IF tries[o] + 1 = MaxTries THEN "failed" ELSE "idle"]

\* The parents a handler looks for in the store.
Needs(o) ==
  IF o = Dft THEN {}
    ELSE IF o \in Ftns THEN {Dft, Chain(o[2])}
    ELSE {Dft}

Running(o) == run[o].pc \notin {"idle", "failed"}

Due(o) ==
  /\ Ready
  /\ status[o] = "Init" /\ run[o].pc = "idle"
  /\ Cardinality({p \in Objects : Running(p)}) < Threads

\* dft_create and chain_create, up to the first object created.
BeginParent(o) ==
  /\ o \in Parents
  /\ Due(o)
  /\ IF Needs(o) \subseteq stored
       THEN run' = [run EXCEPT ![o] = [NotRunning EXCEPT !.pc = "create"]] /\ UNCHANGED tries
       ELSE Retry(o)
  /\ UNCHANGED <<cluster, droplets, stored, allocated, boot, history, bounds>>

\* ftn_create and fwd_create, up to the call of assign_droplet.
BeginHolder(o) ==
  /\ o \in Holders
  /\ Due(o)
  /\ IF Needs(o) \subseteq stored /\ Free # {}
       THEN run' = [run EXCEPT ![o] = [NotRunning EXCEPT !.pc = "assign"]] /\ UNCHANGED tries
       ELSE Retry(o)
  /\ short' = (short \/ (Needs(o) \subseteq stored /\ Free = {}))
  /\ UNCHANGED <<cluster, droplets, stored, allocated, boot, raced, emptied, bounds>>

CreateChild(o) ==
  /\ run[o].pc = "create"
  /\ Len(run[o].made) < Len(Children[o])
  /\ LET child == Children[o][Len(run[o].made) + 1]
     IN  /\ Created(child)
         /\ run' = [run EXCEPT ![o].made = Append(@, child)]
  /\ UNCHANGED <<holds, links, droplets, allocated, boot, tries, history, bounds>>

\* assign_droplet up to the pick.  With nothing left it returns False, which its
\* callers do not look at.
Sample(o) ==
  /\ run[o].pc = "assign"
  /\ IF Free = {}
       THEN run' = [run EXCEPT ![o].pc = "patch"]
       ELSE \E d \in Free : run' = [run EXCEPT ![o].pc = "allocate", ![o].pick = d]
  /\ raced' = (raced \/ \E p \in Holders : run[p].pc = "allocate")
  /\ UNCHANGED <<cluster, droplets, stored, allocated, boot, tries, emptied, short, bounds>>

AllocateNothing(o) ==
  /\ run[o].pc = "allocate"
  /\ run' = [run EXCEPT ![o].pc = "patch"]
  /\ emptied' = (emptied \/ \E p \in Holders : run[p].pc = "assign")
  /\ UNCHANGED <<cluster, droplets, stored, allocated, boot, tries, raced, short, bounds>>

Allocate(o) ==
  /\ run[o].pc = "allocate"
  /\ allocated' = allocated \cup {run[o].pick}
  /\ run' = [run EXCEPT ![o].pc = "patch"]
  /\ emptied' = (emptied \/ \E p \in Holders : run[p].pc = "assign")
  /\ UNCHANGED <<cluster, droplets, stored, boot, tries, raced, short, bounds>>

StoreOneShort(o) ==
  /\ run[o].pc = "create"
  /\ Len(run[o].made) + 1 >= Len(Children[o])
  /\ stored' = stored \cup {o}
  /\ run' = [run EXCEPT ![o].pc = "patch"]
  /\ UNCHANGED <<cluster, droplets, allocated, boot, tries, history, bounds>>

\* set_object_provisioned: the store first, then Kubernetes.
Store(o) ==
  /\ run[o].pc = "create"
  /\ Len(run[o].made) = Len(Children[o])
  /\ stored' = stored \cup {o}
  /\ run' = [run EXCEPT ![o].pc = "patch"]
  /\ UNCHANGED <<cluster, droplets, allocated, boot, tries, history, bounds>>

Linked(made) == [ftns |-> made, head |-> made[1], tail |-> made[NReplicas]]

\* kube_update_obj writes the whole spec, until Kubernetes takes it.
Patch(o) ==
  /\ run[o].pc = "patch"
  /\ status' = [status EXCEPT ![o] = "Provisioned"]
  /\ holds' = IF o \in Holders THEN [holds EXCEPT ![o] = run[o].pick] ELSE holds
  /\ links' = IF o \in Chains THEN [links EXCEPT ![o] = Linked(run[o].made)] ELSE links
  /\ run' = [run EXCEPT ![o] = NotRunning]
  /\ UNCHANGED <<droplets, stored, allocated, boot, tries, history, bounds>>

\* A call that raises: run_workflow makes it a PermanentError.  What has been
\* created, stored and allocated by then stays.
Fault(o) ==
  /\ Bounded
  /\ \/ run[o].pc = "patch"
     \/ run[o].pc = "create" /\ Len(run[o].made) < Len(Children[o])
  /\ run' = [run EXCEPT ![o] = [NotRunning EXCEPT !.pc = "failed"]]
  /\ faults' = faults + 1
  /\ UNCHANGED <<cluster, droplets, stored, allocated, boot, tries, history, changes, crashes>>

(***************************************************************************)
(* What happens around the handlers.                                       *)
(***************************************************************************)
\* The handlers of droplets put one in the store and take it out.
NewDroplet(d) ==
  /\ Ready
  /\ Bounded
  /\ d \notin droplets
  /\ droplets' = droplets \cup {d}
  /\ changes' = changes + 1
  /\ UNCHANGED <<cluster, memory, tries, history, crashes, faults>>

LoseDroplet(d) ==
  /\ Ready
  /\ Bounded
  /\ d \in droplets
  /\ droplets' = droplets \ {d}
  /\ changes' = changes + 1
  /\ emptied' = (emptied \/ \E p \in Holders : run[p].pc = "assign")
  /\ UNCHANGED <<cluster, memory, tries, raced, short, crashes, faults>>

\* The operator dies; the next one lists what is provisioned.  kopf keeps its
\* count of attempts with the object, until it has given up on it.
Crash ==
  /\ Bounded
  /\ crashes' = crashes + 1
  /\ stored' = {o \in Parents : status[o] = "Provisioned"}
  /\ allocated' = {}
  /\ boot' = 0
  /\ run' = [o \in Objects |-> NotRunning]
  /\ tries' = [o \in Objects |-> IF run[o].pc = "failed" THEN 0 ELSE tries[o]]
  /\ raced' = TRUE
  /\ emptied' = TRUE
  /\ UNCHANGED <<cluster, droplets, short, changes, faults>>

Step(o) ==
  \/ BeginParent(o)
  \/ BeginHolder(o)
  \/ CreateChild(o)
  \/ Sample(o)
  \/ Allocate(o)
  \/ Store(o)
  \/ Patch(o)

Next ==
  \/ Boot
  \/ \E o \in Objects : Step(o) \/ Fault(o)
  \/ \E d \in Droplet : NewDroplet(d) \/ LoseDroplet(d)
  \/ Crash

Spec == Init /\ [][Next]_vars

\* The operator starts, and its threads run.
FairSpec == Spec /\ WF_vars(Boot \/ \E o \in Objects : Step(o))

-----------------------------------------------------------------------------
States == {"idle", "create", "assign", "allocate", "patch", "failed"}

TypeOK ==
  /\ status \in [Objects -> {"none", "Init", "Provisioned"}]
  /\ holds \in [Holders -> Droplet \cup {Nothing}]
  /\ DOMAIN links = Chains
  /\ droplets \subseteq Droplet /\ allocated \subseteq Droplet
  /\ stored \subseteq Parents
  /\ boot \in 0 .. Len(Roots)
  /\ run \in [Objects -> [pc : States, made : Seq(Objects), pick : Droplet \cup {Nothing}]]
  /\ tries \in [Objects -> 0 .. MaxTries]
  /\ \A o \in Objects :
       /\ run[o].pc \in {"assign", "allocate"} => o \in Holders
       /\ run[o].pc = "create" => o \in Parents
       /\ run[o].pc = "allocate" => run[o].pick # Nothing
       /\ run[o].pc # "failed" => tries[o] < MaxTries
       /\ Running(o) => status[o] = "Init" /\ Ready
  /\ raced \in BOOLEAN /\ emptied \in BOOLEAN /\ short \in BOOLEAN
  /\ changes \in Nat /\ crashes \in Nat /\ faults \in Nat

\* As long as the operator has not restarted, FTNs and forwarders that are
\* provisioned have a droplet each of their own, unless two of them were picked
\* at once (droplets_operator.py:70-76) or the last was taken between the look
\* and the pick (ftns/create.py:28-31).
OneHolder ==
  /\ ~ raced => \A o, p \in Holders :
       holds[o] = holds[p] /\ holds[o] # Nothing => o = p
  /\ ~ emptied => \A o \in Holders :
       status[o] = "Provisioned" => holds[o] # Nothing

\* Whatever was interrupted and done again: all that a provisioned object is
\* made of exists, and a provisioned chain lists its FTNs in order and once
\* each, the first as its head and the last as its tail.
Complete ==
  \A o \in Parents :
    status[o] = "Provisioned" =>
      /\ \A i \in DOMAIN Children[o] : status[Children[o][i]] # "none"
      /\ o \in Chains =>
           links[o] = [ftns |-> Children[o], head |-> Children[o][1],
                       tail |-> Children[o][NReplicas]]

\* In the end every object is there and provisioned, unless a call has failed,
\* droplets have run out, or, for an FTN, the operator has restarted: its chain
\* is then not in the store before the chain is provisioned again, and kopf may
\* have given up by then.
EventuallyServed ==
  <>[](\A o \in Objects :
         \/ status[o] = "Provisioned"
         \/ faults > 0
         \/ o \in Holders /\ short
         \/ o \in Ftns /\ crashes > 0)
=============================================================================
