------------------------ MODULE OperatorChainsProofs ------------------------
(***************************************************************************)
(* Proofs about OperatorChains, for any number of chains, replicas,        *)
(* droplets, threads, attempts and troubles.                               *)
(***************************************************************************)
EXTENDS OperatorChains, TLAPS

(***************************************************************************)
(* The objects.                                                            *)
(***************************************************************************)
LEMMA ObjectFacts ==
  /\ Dft \in Parents /\ Dft \notin Chains
  /\ Chains \subseteq Parents
  /\ Parents \subseteq Objects /\ Holders \subseteq Objects
  /\ Parents \cap Holders = {}
BY DEF Dft, Chain, Ftn, Fwd, Chains, Ftns, Fwds, Parents, Holders, Objects

LEMMA ChildrenFacts ==
  ASSUME NEW o \in Parents
  PROVE  /\ Children[o] \in Seq(Objects)
         /\ Len(Children[o]) \in Nat \ {0}
         /\ o \in Chains => Len(Children[o]) = NReplicas
<1>1. CASE o = Dft
  <2>1. Children[o] = [i \in 1 .. NChains |-> Chain(i)]
    BY <1>1, ObjectFacts DEF Children
  <2>2. \A i \in 1 .. NChains : Chain(i) \in Objects
    BY DEF Chains, Parents, Objects
  <2> QED BY <1>1, <2>1, <2>2, SizesAssumption, ObjectFacts
<1>2. CASE o # Dft
  <2>1. PICK i \in 1 .. NChains : o = Chain(i)
    BY <1>2 DEF Parents, Chains
  <2>2. Children[o] = [j \in 1 .. NReplicas |-> Ftn(i, j)]
    BY <1>2, <2>1 DEF Children, Chain
  <2>3. \A j \in 1 .. NReplicas : Ftn(i, j) \in Objects
    BY DEF Ftns, Holders, Objects
  <2> QED BY <2>2, <2>3, SizesAssumption
<1> QED BY <1>1, <1>2

LEMMA RootsFacts ==
  /\ Len(Roots) = NReplicas + 1
  /\ \A i \in 1 .. Len(Roots) : Roots[i] \in Objects
<1>1. DOMAIN Roots = 1 .. NReplicas + 1 /\ Len(Roots) = NReplicas + 1
  BY SizesAssumption DEF Roots
<1>2. ASSUME NEW i \in 1 .. NReplicas + 1 PROVE Roots[i] \in Objects
  <2>1. CASE i = 1
    BY <2>1, ObjectFacts DEF Roots
  <2>2. CASE i # 1
    <3>1. i - 1 \in 1 .. NReplicas
      BY <2>2, SizesAssumption
    <3> QED BY <2>2, <3>1 DEF Roots, Fwds, Holders, Objects
  <2> QED BY <2>1, <2>2
<1> QED BY <1>1, <1>2

(***************************************************************************)
(* Type correctness.                                                       *)
(***************************************************************************)
Runs == [pc : States, made : Seq(Objects), pick : Droplet \cup {Nothing}]

LEMMA NotRunningType == NotRunning \in Runs /\ NotRunning.pick = Nothing
BY DEF NotRunning, Runs, States

LEMMA NewRun ==
  ASSUME NEW pc \in States
  PROVE  /\ [NotRunning EXCEPT !.pc = pc] \in Runs
         /\ [NotRunning EXCEPT !.pc = pc].pc = pc
         /\ [NotRunning EXCEPT !.pc = pc].pick = Nothing
         /\ [NotRunning EXCEPT !.pc = pc].made = <<>>
<1>1. [NotRunning EXCEPT !.pc = pc] = [pc |-> pc, made |-> <<>>, pick |-> Nothing]
  BY DEF NotRunning
<1>2. [pc |-> pc, made |-> <<>>, pick |-> Nothing] \in Runs
  BY DEF Runs
<1> QED BY <1>1, <1>2

\* An object created is there, and nothing else changes status.
LEMMA CreatedFacts ==
  ASSUME TypeOK, NEW o \in Objects, Created(o)
  PROVE  /\ status' \in [Objects -> {"none", "Init", "Provisioned"}]
         /\ stored' \subseteq Parents
         /\ status'[o] # "none"
         /\ \A p \in Objects : status[p] # "none" => status'[p] = status[p]
         /\ \A p \in Objects : status'[p] = "Provisioned" <=> status[p] = "Provisioned"
BY DEF TypeOK, Created

LEMMA TypeInit == Init => TypeOK
<1> SUFFICES ASSUME Init PROVE TypeOK
  OBVIOUS
<1>1. run \in [Objects -> Runs]
  BY NotRunningType DEF Init
<1>2. 0 \in 0 .. Len(Roots)
  BY RootsFacts, SizesAssumption
<1>3. \A o \in Objects : run[o].pc = "idle" /\ run[o].pick = Nothing
  BY DEF Init, NotRunning
<1>4. \A o \in Objects : tries[o] \in 0 .. MaxTries /\ tries[o] < MaxTries
  BY TriesAssumption DEF Init
<1>5. /\ status \in [Objects -> {"none", "Init", "Provisioned"}]
      /\ holds \in [Holders -> Droplet \cup {Nothing}]
      /\ DOMAIN links = Chains
      /\ droplets \subseteq Droplet /\ allocated \subseteq Droplet
      /\ stored \subseteq Parents
      /\ boot \in 0 .. Len(Roots)
      /\ tries \in [Objects -> 0 .. MaxTries]
  BY <1>2, <1>4, DropletAssumption DEF Init
<1>6. /\ raced \in BOOLEAN /\ emptied \in BOOLEAN /\ short \in BOOLEAN
      /\ changes \in Nat /\ crashes \in Nat /\ faults \in Nat
  BY DEF Init
<1> QED BY <1>1, <1>3, <1>4, <1>5, <1>6 DEF TypeOK, Runs, Running

LEMMA TypeRetry ==
  ASSUME TypeOK, NEW o \in Objects, Due(o), Retry(o)
  PROVE  /\ tries' \in [Objects -> 0 .. MaxTries]
         /\ run' \in [Objects -> Runs]
         /\ \A p \in Objects :
              /\ p # o => run'[p] = run[p] /\ tries'[p] = tries[p]
              /\ run'[p].made = run[p].made /\ run'[p].pick = run[p].pick
         /\ run'[o].pc \in {"idle", "failed"}
         /\ run'[o].pc # "failed" => tries'[o] < MaxTries
<1>1. run[o] \in Runs /\ run[o].pc = "idle" /\ tries[o] < MaxTries /\ tries[o] \in Nat
  BY TriesAssumption DEF TypeOK, Due, Runs
<1>2. tries'[o] = tries[o] + 1
  BY DEF Retry, TypeOK
<1>3. run'[o] = [run[o] EXCEPT !.pc = IF tries[o] + 1 = MaxTries THEN "failed" ELSE "idle"]
  BY DEF Retry, TypeOK
<1>4. run'[o] \in Runs /\ run'[o].made = run[o].made /\ run'[o].pick = run[o].pick
  BY <1>1, <1>3 DEF Runs, States
<1>5. run'[o].pc = IF tries[o] + 1 = MaxTries THEN "failed" ELSE "idle"
  BY <1>1, <1>3 DEF Runs
<1>6. \A p \in Objects : p # o => run'[p] = run[p] /\ tries'[p] = tries[p]
  BY DEF Retry, TypeOK
<1>7. tries' \in [Objects -> 0 .. MaxTries]
  BY <1>1, TriesAssumption DEF Retry, TypeOK
<1>8. run' \in [Objects -> Runs]
  BY <1>4, <1>6 DEF Retry, TypeOK, Runs
<1> QED BY <1>1, <1>2, <1>4, <1>5, <1>6, <1>7, <1>8, TriesAssumption

\* What the parts of TypeOK about handlers become when only o's handler changes.
LEMMA TypeOneRun ==
  ASSUME TypeOK, NEW o \in Objects, NEW r \in Runs,
         run' = [run EXCEPT ![o] = r],
         r.pc \in {"assign", "allocate"} => o \in Holders,
         r.pc = "create" => o \in Parents,
         r.pc = "allocate" => r.pick # Nothing,
         r.pc # "failed" => tries[o] < MaxTries,
         r.pc \notin {"idle", "failed"} => status'[o] = "Init" /\ Ready',
         \A p \in Objects : p # o /\ Running(p) => status'[p] = "Init" /\ Ready',
         UNCHANGED tries
  PROVE  /\ run' \in [Objects -> Runs]
         /\ tries' \in [Objects -> 0 .. MaxTries]
         /\ \A p \in Objects :
              /\ run'[p].pc \in {"assign", "allocate"} => p \in Holders
              /\ run'[p].pc = "create" => p \in Parents
              /\ run'[p].pc = "allocate" => run'[p].pick # Nothing
              /\ run'[p].pc # "failed" => tries'[p] < MaxTries
              /\ Running(p)' => status'[p] = "Init" /\ Ready'
<1>1. run' \in [Objects -> Runs] /\ run'[o] = r /\ \A p \in Objects : p # o => run'[p] = run[p]
  BY DEF TypeOK, Runs
<1>2. ASSUME NEW p \in Objects
      PROVE  /\ run'[p].pc \in {"assign", "allocate"} => p \in Holders
             /\ run'[p].pc = "create" => p \in Parents
             /\ run'[p].pc = "allocate" => run'[p].pick # Nothing
             /\ run'[p].pc # "failed" => tries'[p] < MaxTries
             /\ Running(p)' => status'[p] = "Init" /\ Ready'
  BY <1>1 DEF TypeOK, Running
<1>3. tries' \in [Objects -> 0 .. MaxTries]
  BY DEF TypeOK
<1> QED BY <1>1, <1>2, <1>3

LEMMA TypeBoot == TypeOK /\ Boot => TypeOK'
<1> SUFFICES ASSUME TypeOK, Boot PROVE TypeOK'
  OBVIOUS
<1>1. boot + 1 \in 1 .. Len(Roots) /\ boot' = boot + 1 /\ ~ Ready
  BY RootsFacts, SizesAssumption DEF Boot, TypeOK, Ready
<1>2. Roots[boot + 1] \in Objects /\ Created(Roots[boot + 1])
  BY <1>1, RootsFacts DEF Boot
<1>3. /\ status' \in [Objects -> {"none", "Init", "Provisioned"}]
      /\ stored' \subseteq Parents
  BY <1>2, CreatedFacts
<1>4. boot' \in 0 .. Len(Roots)
  BY <1>1, RootsFacts, SizesAssumption
<1>5. \A o \in Objects : ~ Running(o) /\ ~ Running(o)'
  BY <1>1 DEF TypeOK, Boot, Running
<1> QED BY <1>3, <1>4, <1>5 DEF TypeOK, Boot, history, bounds

LEMMA TypeBegin ==
  ASSUME TypeOK, NEW o \in Objects, BeginParent(o) \/ BeginHolder(o)
  PROVE  TypeOK'
<1> DEFINE pc == IF o \in Parents THEN "create" ELSE "assign"
<1>1. Due(o) /\ status[o] = "Init" /\ run[o].pc = "idle" /\ Ready
  BY DEF BeginParent, BeginHolder, Due
<1>2. /\ UNCHANGED <<status, holds, links, droplets, stored, allocated, boot>>
      /\ raced' \in BOOLEAN /\ emptied' \in BOOLEAN /\ short' \in BOOLEAN
      /\ UNCHANGED <<changes, crashes, faults>>
  BY DEF BeginParent, BeginHolder, TypeOK, cluster, history, bounds
<1>3. CASE Retry(o)
  <2>1. \A p \in Objects : run'[p].pc \notin {"idle", "failed"} => run'[p] = run[p] /\ p # o
    BY <1>3, <1>1, TypeRetry
  <2>2. \A p \in Objects : run'[p].pc # "failed" => tries'[p] < MaxTries
    BY <1>3, <1>1, TypeRetry DEF TypeOK
  <2>3. run' \in [Objects -> Runs] /\ tries' \in [Objects -> 0 .. MaxTries]
    BY <1>3, <1>1, TypeRetry
  <2>4. \A p \in Objects :
           /\ run'[p].pc \in {"assign", "allocate"} => p \in Holders
           /\ run'[p].pc = "create" => p \in Parents
           /\ run'[p].pc = "allocate" => run'[p].pick # Nothing
           /\ Running(p)' => status'[p] = "Init" /\ Ready'
    BY <2>1, <1>2 DEF TypeOK, Running, Ready
  <2> QED BY <1>2, <2>2, <2>3, <2>4 DEF TypeOK, Runs
<1>4. CASE run' = [run EXCEPT ![o] = [NotRunning EXCEPT !.pc = pc]] /\ UNCHANGED tries
  <2> DEFINE r == [NotRunning EXCEPT !.pc = pc]
  <2>1. r \in Runs /\ r.pc = pc /\ r.pick = Nothing
    <3>1. pc \in States
      BY DEF States
    <3> QED BY <3>1, NewRun
  <2>2. o \notin Parents => o \in Holders
    BY DEF Objects
  <2>3. tries[o] < MaxTries
    BY <1>1 DEF TypeOK
  <2>4. \A p \in Objects : Running(p) => status'[p] = "Init" /\ Ready'
    BY <1>2 DEF TypeOK, Running, Ready
  <2>5. status'[o] = "Init" /\ Ready'
    BY <1>1, <1>2 DEF Ready
  <2> HIDE DEF r
  <2>6. run' = [run EXCEPT ![o] = r] /\ UNCHANGED tries
    BY <1>4 DEF r
  <2>7. /\ r.pc \in {"assign", "allocate"} => o \in Holders
        /\ r.pc = "create" => o \in Parents
        /\ r.pc # "allocate"
    BY <2>1, <2>2
  <2>8. /\ run' \in [Objects -> Runs]
        /\ tries' \in [Objects -> 0 .. MaxTries]
        /\ \A p \in Objects :
             /\ run'[p].pc \in {"assign", "allocate"} => p \in Holders
             /\ run'[p].pc = "create" => p \in Parents
             /\ run'[p].pc = "allocate" => run'[p].pick # Nothing
             /\ run'[p].pc # "failed" => tries'[p] < MaxTries
             /\ Running(p)' => status'[p] = "Init" /\ Ready'
    BY <2>1, <2>3, <2>4, <2>5, <2>6, <2>7, TypeOneRun
  <2> QED BY <1>2, <2>8 DEF TypeOK, Runs
<1>5. o \in Parents <=> o \notin Holders
  BY ObjectFacts DEF Objects
<1> QED BY <1>3, <1>4, <1>5 DEF BeginParent, BeginHolder

LEMMA TypeCreateChild ==
  ASSUME TypeOK, NEW o \in Objects, CreateChild(o)
  PROVE  TypeOK'
<1> DEFINE child == Children[o][Len(run[o].made) + 1]
           r == [run[o] EXCEPT !.made = Append(@, child)]
<1>1. o \in Parents /\ run[o] \in Runs /\ run[o].pc = "create"
  BY DEF CreateChild, TypeOK, Runs
<1>2. child \in Objects
  BY <1>1, ChildrenFacts DEF CreateChild, Runs
<1>3. Created(child) /\ run' = [run EXCEPT ![o] = r]
  BY DEF CreateChild
<1>4. r \in Runs /\ r.pc = "create"
  <2> DEFINE m == Append(run[o].made, child)
  <2>1. m \in Seq(Objects)
    BY <1>1, <1>2 DEF Runs
  <2>2. r = [run[o] EXCEPT !.made = m]
    OBVIOUS
  <2> HIDE DEF m
  <2> QED BY <1>1, <2>1, <2>2 DEF Runs
<1>5. UNCHANGED <<holds, links, droplets, allocated, boot, tries, raced, emptied, short,
                  changes, crashes, faults>>
  BY DEF CreateChild, history, bounds
<1>6. /\ status' \in [Objects -> {"none", "Init", "Provisioned"}]
      /\ stored' \subseteq Parents
      /\ \A p \in Objects : status[p] # "none" => status'[p] = status[p]
  BY <1>2, <1>3, CreatedFacts
<1>7. \A p \in Objects : Running(p) => status'[p] = "Init" /\ Ready'
  BY <1>5, <1>6 DEF TypeOK, Ready
<1>8. tries[o] < MaxTries /\ Running(o)
  BY <1>1 DEF TypeOK, Running
<1> HIDE DEF r
<1>9. /\ run' \in [Objects -> Runs]
      /\ tries' \in [Objects -> 0 .. MaxTries]
      /\ \A p \in Objects :
           /\ run'[p].pc \in {"assign", "allocate"} => p \in Holders
           /\ run'[p].pc = "create" => p \in Parents
           /\ run'[p].pc = "allocate" => run'[p].pick # Nothing
           /\ run'[p].pc # "failed" => tries'[p] < MaxTries
           /\ Running(p)' => status'[p] = "Init" /\ Ready'
  BY <1>1, <1>3, <1>4, <1>5, <1>7, <1>8, TypeOneRun
<1> QED BY <1>5, <1>6, <1>9 DEF TypeOK, Runs

LEMMA TypeAssign ==
  ASSUME TypeOK, NEW o \in Objects, Sample(o) \/ Allocate(o) \/ Store(o) \/ Fault(o)
  PROVE  TypeOK'
<1> DEFINE r == run'[o]
<1>1. run[o] \in Runs /\ Running(o)
  BY DEF Sample, Allocate, Store, Fault, TypeOK, Runs, Running
<1>2. /\ r \in Runs /\ run' = [run EXCEPT ![o] = r]
      /\ r.pc \in {"allocate", "patch", "failed"}
      /\ r.pc = "allocate" => run[o].pc = "assign" /\ r.pick # Nothing
  <2>1. CASE Sample(o)
    <3>1. CASE run' = [run EXCEPT ![o].pc = "patch"]
      BY <1>1, <3>1 DEF TypeOK, Runs, States
    <3>2. CASE \E d \in Free : run' = [run EXCEPT ![o].pc = "allocate", ![o].pick = d]
      <4>1. PICK d \in Droplet : run' = [run EXCEPT ![o].pc = "allocate", ![o].pick = d]
        BY <3>2 DEF Free, TypeOK
      <4>2. r = [run[o] EXCEPT !.pc = "allocate", !.pick = d]
        BY <4>1 DEF TypeOK
      <4> QED BY <1>1, <2>1, <4>1, <4>2, DropletAssumption DEF TypeOK, Runs, States, Sample
    <3> QED BY <2>1, <3>1, <3>2 DEF Sample
  <2>2. CASE Allocate(o) \/ Store(o)
    <3>1. run' = [run EXCEPT ![o].pc = "patch"]
      BY <2>2 DEF Allocate, Store
    <3>2. r = [run[o] EXCEPT !.pc = "patch"]
      BY <3>1 DEF TypeOK
    <3>3. r \in Runs /\ r.pc = "patch"
      BY <1>1, <3>2 DEF Runs, States
    <3>4. run' = [run EXCEPT ![o] = r]
      BY <3>1, <3>2 DEF TypeOK
    <3> QED BY <3>3, <3>4
  <2>3. CASE Fault(o)
    <3>1. run' = [run EXCEPT ![o] = [NotRunning EXCEPT !.pc = "failed"]]
      BY <2>3 DEF Fault
    <3>2. r = [NotRunning EXCEPT !.pc = "failed"]
      BY <3>1 DEF TypeOK
    <3>3. r \in Runs /\ r.pc = "failed"
      <4>1. "failed" \in States
        BY DEF States
      <4> QED BY <3>2, <4>1, NewRun
    <3>4. run' = [run EXCEPT ![o] = r]
      BY <3>1, <3>2
    <3> QED BY <3>3, <3>4
  <2> QED BY <2>1, <2>2, <2>3
<1>3. UNCHANGED <<status, holds, links, droplets, boot, tries, changes, crashes>>
  BY DEF Sample, Allocate, Store, Fault, cluster, history, bounds
<1>4. /\ stored' \subseteq Parents /\ allocated' \subseteq Droplet
      /\ raced' \in BOOLEAN /\ emptied' \in BOOLEAN /\ short' \in BOOLEAN /\ faults' \in Nat
  <2>1. CASE Sample(o)
    BY <2>1 DEF Sample, TypeOK, bounds
  <2>2. CASE Allocate(o)
    BY <1>1, <2>2 DEF Allocate, TypeOK, Runs, bounds
  <2>3. CASE Store(o)
    BY <2>3 DEF Store, TypeOK, history, bounds
  <2>4. CASE Fault(o)
    BY <2>4 DEF Fault, TypeOK, history
  <2> QED BY <2>1, <2>2, <2>3, <2>4
<1>5. \A p \in Objects : Running(p) => status'[p] = "Init" /\ Ready'
  BY <1>3 DEF TypeOK, Ready
<1>6. tries[o] < MaxTries /\ (run[o].pc = "assign" => o \in Holders)
  BY <1>1 DEF TypeOK, Running
<1> HIDE DEF r
<1>7. /\ run' \in [Objects -> Runs]
      /\ tries' \in [Objects -> 0 .. MaxTries]
      /\ \A p \in Objects :
           /\ run'[p].pc \in {"assign", "allocate"} => p \in Holders
           /\ run'[p].pc = "create" => p \in Parents
           /\ run'[p].pc = "allocate" => run'[p].pick # Nothing
           /\ run'[p].pc # "failed" => tries'[p] < MaxTries
           /\ Running(p)' => status'[p] = "Init" /\ Ready'
  BY <1>1, <1>2, <1>3, <1>5, <1>6, TypeOneRun
<1> QED BY <1>3, <1>4, <1>7 DEF TypeOK, Runs

LEMMA TypePatch ==
  ASSUME TypeOK, NEW o \in Objects, Patch(o)
  PROVE  TypeOK'
<1>1. run[o] \in Runs /\ Running(o) /\ tries[o] < MaxTries
  BY DEF Patch, TypeOK, Runs, Running
<1>2. UNCHANGED <<droplets, stored, allocated, boot, tries, raced, emptied, short,
                  changes, crashes, faults>>
  BY DEF Patch, history, bounds
<1>3. /\ status' \in [Objects -> {"none", "Init", "Provisioned"}]
      /\ \A p \in Objects : p # o => status'[p] = status[p]
  BY DEF Patch, TypeOK
<1>4. holds' \in [Holders -> Droplet \cup {Nothing}]
  BY <1>1 DEF Patch, TypeOK, Runs
<1>5. DOMAIN links' = Chains
  BY DEF Patch, TypeOK
<1>6. \A p \in Objects : p # o /\ Running(p) => status'[p] = "Init" /\ Ready'
  BY <1>2, <1>3 DEF TypeOK, Ready
<1>7. run' = [run EXCEPT ![o] = NotRunning] /\ NotRunning.pc = "idle"
  BY DEF Patch, NotRunning
<1>8. /\ run' \in [Objects -> Runs]
      /\ tries' \in [Objects -> 0 .. MaxTries]
      /\ \A p \in Objects :
           /\ run'[p].pc \in {"assign", "allocate"} => p \in Holders
           /\ run'[p].pc = "create" => p \in Parents
           /\ run'[p].pc = "allocate" => run'[p].pick # Nothing
           /\ run'[p].pc # "failed" => tries'[p] < MaxTries
           /\ Running(p)' => status'[p] = "Init" /\ Ready'
  BY <1>1, <1>2, <1>6, <1>7, NotRunningType, TypeOneRun
<1> QED BY <1>2, <1>3, <1>4, <1>5, <1>8 DEF TypeOK, Runs

LEMMA TypeDroplets ==
  ASSUME TypeOK, NEW d \in Droplet, NewDroplet(d) \/ LoseDroplet(d)
  PROVE  TypeOK'
<1>1. /\ UNCHANGED <<cluster, memory, tries, raced, short, crashes, faults>>
      /\ droplets' \subseteq Droplet /\ changes' \in Nat /\ emptied' \in BOOLEAN
  <2>1. CASE NewDroplet(d)
    BY <2>1 DEF NewDroplet, TypeOK, history
  <2>2. CASE LoseDroplet(d)
    BY <2>2 DEF LoseDroplet, TypeOK
  <2> QED BY <2>1, <2>2
<1> QED BY <1>1 DEF TypeOK, cluster, memory, Running, Ready

LEMMA TypeCrash == TypeOK /\ Crash => TypeOK'
<1> SUFFICES ASSUME TypeOK, Crash PROVE TypeOK'
  OBVIOUS
<1>1. run' \in [Objects -> Runs] /\ \A o \in Objects : run'[o].pc = "idle"
  BY NotRunningType DEF Crash, NotRunning
<1>2. /\ tries' \in [Objects -> 0 .. MaxTries]
      /\ \A o \in Objects : tries'[o] < MaxTries
  BY TriesAssumption DEF Crash, TypeOK
<1>3. 0 \in 0 .. Len(Roots)
  BY RootsFacts, SizesAssumption
<1>4. /\ UNCHANGED <<status, holds, links, droplets, short, changes, faults>>
      /\ stored' \subseteq Parents /\ allocated' \subseteq Droplet
      /\ boot' \in 0 .. Len(Roots)
      /\ raced' \in BOOLEAN /\ emptied' \in BOOLEAN /\ crashes' \in Nat
  BY <1>3 DEF Crash, TypeOK, cluster
<1> QED BY <1>1, <1>2, <1>4 DEF TypeOK, Runs, Running

LEMMA TypeStep == TypeOK /\ [Next]_vars => TypeOK'
<1> SUFFICES ASSUME TypeOK, [Next]_vars PROVE TypeOK'
  OBVIOUS
<1>1. CASE UNCHANGED vars
  BY <1>1 DEF TypeOK, vars, cluster, memory, history, bounds, Running, Ready
<1>2. CASE Next
  BY <1>2, TypeBoot, TypeBegin, TypeCreateChild, TypeAssign, TypePatch, TypeDroplets, TypeCrash
  DEF Next, Step
<1> QED BY <1>1, <1>2

\* The operator's variables have their types: among others, a handler runs only
\* for an object whose status is Init, after the start is over, and kopf gives up
\* in time.
THEOREM TypeCorrect == Spec => []TypeOK
BY TypeInit, TypeStep, PTL DEF Spec

(***************************************************************************)
(* Droplets.  What an object has or is about to have is allocated, but for *)
(* a droplet just picked; so the next pick is of another one.              *)
(***************************************************************************)
Own(o) == {holds[o], run[o].pick} \ {Nothing}

Distinct ==
  ~ raced =>
    /\ \A o \in Holders : holds[o] # Nothing => holds[o] \in allocated
    /\ \A o \in Holders :
         run[o].pc # "allocate" /\ run[o].pick # Nothing => run[o].pick \in allocated
    /\ \A o, p \in Holders : o # p => Own(o) \cap Own(p) = {}

\* A handler that has seen a droplet free will find one.
Filled ==
  ~ emptied =>
    /\ \A o \in Holders : run[o].pc = "assign" => Free # {}
    /\ \A o \in Holders : run[o].pc = "patch" => run[o].pick # Nothing
    /\ \A o \in Holders : status[o] = "Provisioned" => holds[o] # Nothing

\* What a handler has created is there, in the order of Children.
Built(o) ==
  /\ Len(run[o].made) <= Len(Children[o])
  /\ \A i \in 1 .. Len(run[o].made) :
       run[o].made[i] = Children[o][i] /\ status[Children[o][i]] # "none"

Building ==
  \A o \in Parents :
    /\ run[o].pc \in {"create", "patch"} => Built(o)
    /\ run[o].pc = "patch" => Len(run[o].made) = Len(Children[o])

\* A step that changes what one object has keeps Distinct if the object has
\* nothing new and what it has is allocated.
LEMMA DistinctKept ==
  ASSUME Distinct, NEW o \in Objects,
         raced => raced', allocated \subseteq allocated',
         \A p \in Holders : p # o => holds'[p] = holds[p] /\ run'[p] = run[p],
         o \in Holders /\ ~ raced' =>
           /\ Own(o)' \subseteq Own(o)
           /\ holds'[o] # Nothing => holds'[o] \in allocated'
           /\ run'[o].pc # "allocate" /\ run'[o].pick # Nothing => run'[o].pick \in allocated'
  PROVE  Distinct'
<1> SUFFICES ASSUME ~ raced' PROVE Distinct'
  BY DEF Distinct
<1>1. ~ raced
  OBVIOUS
<1>2. \A p \in Holders : Own(p)' \subseteq Own(p)
  BY DEF Own
<1>3. ASSUME NEW p \in Holders
      PROVE  /\ holds'[p] # Nothing => holds'[p] \in allocated'
             /\ run'[p].pc # "allocate" /\ run'[p].pick # Nothing => run'[p].pick \in allocated'
  <2>1. CASE p = o
    BY <2>1
  <2>2. CASE p # o
    BY <1>1, <2>2 DEF Distinct
  <2> QED BY <2>1, <2>2
<1>4. ASSUME NEW p \in Holders, NEW q \in Holders, p # q
      PROVE  Own(p)' \cap Own(q)' = {}
  BY <1>1, <1>2, <1>4 DEF Distinct
<1> QED BY <1>3, <1>4 DEF Distinct

LEMMA FilledKept ==
  ASSUME Filled, NEW o \in Objects,
         emptied => emptied', ~ emptied' => Free \subseteq Free',
         \A p \in Holders : p # o => holds'[p] = holds[p] /\ run'[p] = run[p]
                                    /\ (status'[p] = "Provisioned" => status[p] = "Provisioned"),
         o \in Holders /\ ~ emptied' =>
           /\ run'[o].pc = "assign" => Free' # {}
           /\ run'[o].pc = "patch" => run'[o].pick # Nothing
           /\ status'[o] = "Provisioned" => holds'[o] # Nothing
  PROVE  Filled'
<1> SUFFICES ASSUME ~ emptied' PROVE Filled'
  BY DEF Filled
<1>1. ASSUME NEW p \in Holders
      PROVE  /\ run'[p].pc = "assign" => Free' # {}
             /\ run'[p].pc = "patch" => run'[p].pick # Nothing
             /\ status'[p] = "Provisioned" => holds'[p] # Nothing
  <2>1. CASE p = o
    BY <2>1
  <2>2. CASE p # o
    BY <2>2 DEF Filled
  <2> QED BY <2>1, <2>2
<1> QED BY <1>1 DEF Filled

DropletInv == TypeOK /\ Distinct /\ Filled

LEMMA DropletInit == Init => DropletInv
<1> SUFFICES ASSUME Init PROVE DropletInv
  OBVIOUS
<1>1. \A o \in Holders : holds[o] = Nothing /\ status[o] = "none"
                          /\ run[o].pc = "idle" /\ run[o].pick = Nothing
  BY ObjectFacts DEF Init, NotRunning
<1>2. Distinct
  BY <1>1 DEF Distinct, Own
<1>3. Filled
  BY <1>1 DEF Filled
<1> QED BY <1>2, <1>3, TypeInit DEF DropletInv

\* The steps of the handler of a DFT or a chain, and of a start.
LEMMA DropletCreated ==
  ASSUME DropletInv, NEW o \in Objects,
         Boot \/ CreateChild(o) \/ Store(o) \/ (Patch(o) /\ o \in Parents)
           \/ (Fault(o) /\ o \in Parents) \/ BeginParent(o)
  PROVE  Distinct' /\ Filled'
<1>1. /\ UNCHANGED <<droplets, allocated, raced, emptied>>
      /\ \A p \in Holders : holds'[p] = holds[p] /\ run'[p] = run[p]
      /\ \A p \in Holders : status'[p] = "Provisioned" => status[p] = "Provisioned"
  <2> USE DEF DropletInv, TypeOK
  <2>1. CASE Boot
    <3>1. boot + 1 \in 1 .. Len(Roots)
      BY <2>1, RootsFacts, SizesAssumption DEF Boot, Ready
    <3>2. Roots[boot + 1] \in Objects /\ Created(Roots[boot + 1])
      BY <2>1, <3>1, RootsFacts DEF Boot
    <3>3. \A p \in Objects : status'[p] = "Provisioned" <=> status[p] = "Provisioned"
      BY <3>2, CreatedFacts
    <3> QED BY <2>1, <3>3, ObjectFacts DEF Boot, history
  <2>2. CASE CreateChild(o)
    <3> DEFINE child == Children[o][Len(run[o].made) + 1]
    <3>1. o \in Parents /\ run[o].made \in Seq(Objects)
      BY <2>2 DEF CreateChild
    <3>2. child \in Objects /\ Created(child)
      BY <2>2, <3>1, ChildrenFacts DEF CreateChild
    <3>3. \A p \in Objects : status'[p] = "Provisioned" <=> status[p] = "Provisioned"
      BY <3>2, CreatedFacts
    <3>4. \A p \in Objects : p # o => run'[p] = run[p]
      BY <2>2 DEF CreateChild
    <3> QED BY <2>2, <3>1, <3>3, <3>4, ObjectFacts DEF CreateChild, history
  <2>3. CASE Store(o)
    <3>1. o \in Parents
      BY <2>3 DEF Store
    <3> QED BY <2>3, <3>1, ObjectFacts DEF Store, cluster, history
  <2>4. CASE Patch(o) /\ o \in Parents
    BY <2>4, ObjectFacts DEF Patch, history
  <2>5. CASE Fault(o) /\ o \in Parents
    BY <2>5, ObjectFacts DEF Fault, cluster, history
  <2>6. CASE BeginParent(o)
    <3>1. \A p \in Objects : p # o => run'[p] = run[p]
      BY <2>6 DEF BeginParent, Retry
    <3> QED BY <2>6, <3>1, ObjectFacts DEF BeginParent, cluster, history
  <2> QED BY <2>1, <2>2, <2>3, <2>4, <2>5, <2>6
<1>2. Distinct'
  BY <1>1 DEF DropletInv, Distinct, Own
<1>3. Filled'
  BY <1>1 DEF DropletInv, Filled, Free
<1> QED BY <1>2, <1>3

LEMMA DropletBegin ==
  ASSUME DropletInv, NEW o \in Holders, BeginHolder(o)
  PROVE  Distinct' /\ Filled'
<1>1. /\ UNCHANGED <<status, holds, droplets, allocated, raced, emptied>>
      /\ \A p \in Holders : p # o => run'[p] = run[p]
      /\ o \in Objects /\ status[o] = "Init" /\ run[o].pc = "idle"
  BY ObjectFacts DEF BeginHolder, DropletInv, TypeOK, cluster, Due, Retry
<1>2. \/ run'[o].pc \in {"idle", "failed"} /\ run'[o].pick = run[o].pick
      \/ run'[o].pc = "assign" /\ run'[o].pick = Nothing /\ Free # {}
  <2>1. CASE Retry(o)
    BY <1>1, <2>1, TypeRetry DEF DropletInv, BeginHolder
  <2>2. CASE Free # {} /\ run' = [run EXCEPT ![o] = [NotRunning EXCEPT !.pc = "assign"]]
    <3>1. "assign" \in States
      BY DEF States
    <3> QED BY <1>1, <2>2, <3>1, NewRun DEF DropletInv, TypeOK
  <2> QED BY <2>1, <2>2 DEF BeginHolder
<1>3. Own(o)' \subseteq Own(o)
  BY <1>1, <1>2 DEF Own
<1>4. Distinct'
  BY <1>1, <1>2, <1>3, DistinctKept DEF DropletInv, Distinct
<1>5. Free' = Free
  BY <1>1 DEF Free
<1>6. Filled'
  BY <1>1, <1>2, <1>5, FilledKept DEF DropletInv
<1> QED BY <1>4, <1>6

\* The pick: only droplets picked and not yet allocated could be met again.
LEMMA DropletSample ==
  ASSUME DropletInv, NEW o \in Objects, Sample(o)
  PROVE  Distinct' /\ Filled'
<1>1. /\ UNCHANGED <<status, holds, droplets, allocated, emptied>>
      /\ o \in Holders /\ run[o] \in Runs /\ run[o].pc = "assign"
      /\ \A p \in Holders : p # o => run'[p] = run[p]
  <2>1. \A p \in Objects : p # o => run'[p] = run[p]
    BY DEF Sample, DropletInv, TypeOK
  <2>2. o \in Holders /\ run[o] \in Runs /\ run[o].pc = "assign"
    BY DEF Sample, DropletInv, TypeOK, Runs
  <2> QED BY <2>1, <2>2, ObjectFacts DEF Sample, cluster
<1>2. \/ Free = {} /\ run'[o].pc = "patch" /\ run'[o].pick = run[o].pick
      \/ run'[o].pc = "allocate" /\ run'[o].pick \in Free
  <2>1. CASE Free = {}
    BY <1>1, <2>1 DEF Sample, DropletInv, TypeOK
  <2>2. CASE Free # {}
    <3>1. PICK d \in Free : run' = [run EXCEPT ![o].pc = "allocate", ![o].pick = d]
      BY <2>2 DEF Sample
    <3>2. run'[o] = [run[o] EXCEPT !.pc = "allocate", !.pick = d]
      BY <1>1, <3>1 DEF DropletInv, TypeOK
    <3> QED BY <1>1, <3>2 DEF Runs
  <2> QED BY <2>1, <2>2
<1>3. Free' = Free
  BY <1>1 DEF Free
<1>4. Filled'
  <2>1. ~ emptied' => run'[o].pc # "patch"
    BY <1>1, <1>2 DEF DropletInv, Filled
  <2>2. status'[o] # "Provisioned"
    BY <1>1 DEF DropletInv, TypeOK, Running
  <2> QED BY <1>1, <1>2, <1>3, <2>1, <2>2, FilledKept DEF DropletInv
<1>5. Distinct'
  <2>1. CASE run'[o].pc = "patch"
    <3>1. Own(o)' = Own(o)
      BY <1>1, <1>2, <2>1 DEF Own
    <3>2. raced => raced'
      BY DEF Sample
    <3> QED BY <1>1, <1>2, <2>1, <3>1, <3>2, DistinctKept DEF DropletInv, Distinct
  <2>2. CASE run'[o].pc = "allocate" /\ run'[o].pick \in Free
    <3> SUFFICES ASSUME ~ raced' PROVE Distinct'
      BY DEF Distinct
    <3>1. ~ raced /\ \A p \in Holders : run[p].pc # "allocate"
      BY DEF Sample
    <3>2. \A p \in Holders : Own(p) \subseteq allocated
      BY <3>1 DEF DropletInv, Distinct, Own
    <3>3. run'[o].pick \notin allocated
      BY <2>2 DEF Free
    <3>4. \A p \in Holders : p # o => Own(p)' = Own(p)
      BY <1>1 DEF Own
    <3>5. Own(o)' \subseteq Own(o) \cup {run'[o].pick}
      BY <1>1 DEF Own
    <3>6. \A p, q \in Holders : p # q => Own(p)' \cap Own(q)' = {}
      BY <3>1, <3>2, <3>3, <3>4, <3>5 DEF DropletInv, Distinct
    <3> QED BY <1>1, <2>2, <3>1, <3>6 DEF DropletInv, Distinct
  <2> QED BY <1>2, <2>1, <2>2
<1> QED BY <1>4, <1>5

LEMMA DropletAllocate ==
  ASSUME DropletInv, NEW o \in Objects, Allocate(o)
  PROVE  Distinct' /\ Filled'
<1>1. /\ UNCHANGED <<status, holds, droplets, raced>>
      /\ allocated' = allocated \cup {run[o].pick}
      /\ o \in Holders /\ run[o] \in Runs /\ run[o].pc = "allocate" /\ run[o].pick # Nothing
      /\ run' = [run EXCEPT ![o].pc = "patch"]
  BY DEF Allocate, DropletInv, TypeOK, Runs, cluster
<1>2. /\ run'[o].pc = "patch" /\ run'[o].pick = run[o].pick
      /\ \A p \in Holders : p # o => run'[p] = run[p]
  <2>1. run'[o] = [run[o] EXCEPT !.pc = "patch"]
    BY <1>1 DEF DropletInv, TypeOK
  <2> QED BY <1>1, <2>1 DEF Runs, DropletInv, TypeOK
<1>3. Distinct'
  <2>1. Own(o)' = Own(o)
    BY <1>1, <1>2 DEF Own
  <2> QED BY <1>1, <1>2, <2>1, DistinctKept DEF DropletInv, Distinct
<1>4. Filled'
  <2> SUFFICES ASSUME ~ emptied' PROVE Filled'
    BY DEF Filled
  <2>1. ~ emptied /\ \A p \in Holders : run[p].pc # "assign"
    BY DEF Allocate
  <2>2. \A p \in Holders : run'[p].pc # "assign"
    BY <1>2, <2>1
  <2>3. \A p \in Holders : run'[p].pc = "patch" => run'[p].pick # Nothing
    BY <1>1, <1>2, <2>1 DEF DropletInv, Filled
  <2> QED BY <1>1, <2>1, <2>2, <2>3 DEF DropletInv, Filled
<1> QED BY <1>3, <1>4

\* An FTN or a forwarder is provisioned with what was picked for it, or not.
LEMMA DropletPatch ==
  ASSUME DropletInv, NEW o \in Holders, Patch(o) \/ Fault(o)
  PROVE  Distinct' /\ Filled'
<1>1. /\ UNCHANGED <<droplets, allocated, raced, emptied>>
      /\ o \in Objects /\ run[o] \in Runs /\ run[o].pc = "patch"
      /\ \A p \in Holders : p # o => /\ run'[p] = run[p]
                                       /\ holds'[p] = holds[p]
                                       /\ status'[p] = status[p]
  BY ObjectFacts DEF Patch, Fault, DropletInv, TypeOK, Runs, cluster, history
<1>2. /\ run'[o].pick = Nothing /\ run'[o].pc \in {"idle", "failed"}
      /\ \/ holds'[o] = run[o].pick
         \/ holds'[o] = holds[o] /\ status'[o] = status[o]
  <2>1. CASE Patch(o)
    <3>1. run'[o] = NotRunning /\ holds'[o] = run[o].pick
      BY <1>1, <2>1 DEF Patch, DropletInv, TypeOK
    <3> QED BY <3>1 DEF NotRunning
  <2>2. CASE Fault(o)
    <3>1. "failed" \in States
      BY DEF States
    <3>2. run'[o] = [NotRunning EXCEPT !.pc = "failed"]
      BY <1>1, <2>2 DEF Fault, DropletInv, TypeOK
    <3> QED BY <2>2, <3>1, <3>2, NewRun DEF Fault, cluster
  <2> QED BY <2>1, <2>2
<1>3. Own(o)' \subseteq Own(o)
  BY <1>2 DEF Own
<1>4. Distinct'
  BY <1>1, <1>2, <1>3, DistinctKept DEF DropletInv, Distinct
<1>5. Free' = Free
  BY <1>1 DEF Free
<1>6. status'[o] = "Provisioned" /\ ~ emptied' => holds'[o] # Nothing
  BY <1>1, <1>2 DEF DropletInv, Filled
<1>7. Filled'
  BY <1>1, <1>2, <1>5, <1>6, FilledKept DEF DropletInv
<1> QED BY <1>4, <1>7

LEMMA DropletOutside ==
  ASSUME DropletInv, (\E d \in Droplet : NewDroplet(d) \/ LoseDroplet(d)) \/ Crash
  PROVE  Distinct' /\ Filled'
<1>1. CASE \E d \in Droplet : NewDroplet(d)
  BY <1>1 DEF NewDroplet, DropletInv, Distinct, Filled, Own, Free, cluster, memory, history
<1>2. CASE \E d \in Droplet : LoseDroplet(d)
  <2>1. Distinct'
    BY <1>2 DEF LoseDroplet, DropletInv, Distinct, Own, cluster, memory
  <2>2. Filled'
    <3>1. UNCHANGED <<status, holds, run>>
      BY <1>2 DEF LoseDroplet, cluster, memory
    <3>2. ~ emptied' => ~ emptied /\ \A p \in Holders : run[p].pc # "assign"
      BY <1>2 DEF LoseDroplet
    <3> QED BY <3>1, <3>2 DEF DropletInv, Filled
  <2> QED BY <2>1, <2>2
<1>3. CASE Crash
  BY <1>3 DEF Crash, Distinct, Filled
<1> QED BY <1>1, <1>2, <1>3

LEMMA DropletStep == DropletInv /\ [Next]_vars => DropletInv'
<1> SUFFICES ASSUME DropletInv, [Next]_vars PROVE DropletInv'
  OBVIOUS
<1>1. TypeOK'
  BY TypeStep DEF DropletInv
<1>2. CASE UNCHANGED vars
  BY <1>1, <1>2 DEF DropletInv, Distinct, Filled, Own, Free, vars, cluster, memory, history
<1>3. CASE Boot
  BY <1>1, <1>3, DropletCreated, ObjectFacts DEF DropletInv
<1>4. CASE \E o \in Objects : Step(o) \/ Fault(o)
  <2>1. PICK o \in Objects : Step(o) \/ Fault(o)
    BY <1>4
  <2>2. o \in Parents \/ o \in Holders
    BY DEF Objects
  <2>3. CASE BeginParent(o) \/ CreateChild(o) \/ Store(o)
    BY <1>1, <2>3, DropletCreated DEF DropletInv
  <2>4. CASE BeginHolder(o)
    <3>1. o \in Holders
      BY <2>4 DEF BeginHolder
    <3> QED BY <1>1, <2>4, <3>1, DropletBegin DEF DropletInv
  <2>5. CASE Sample(o)
    BY <1>1, <2>5, DropletSample DEF DropletInv
  <2>6. CASE Allocate(o)
    BY <1>1, <2>6, DropletAllocate DEF DropletInv
  <2>7. CASE Patch(o) \/ Fault(o)
    BY <1>1, <2>2, <2>7, DropletPatch, DropletCreated DEF DropletInv
  <2> QED BY <2>1, <2>3, <2>4, <2>5, <2>6, <2>7 DEF Step
<1>5. CASE (\E d \in Droplet : NewDroplet(d) \/ LoseDroplet(d)) \/ Crash
  BY <1>1, <1>5, DropletOutside DEF DropletInv
<1> QED BY <1>2, <1>3, <1>4, <1>5 DEF Next

\* FTNs and forwarders have a droplet each of their own, unless two were picked
\* at once or the operator has restarted.
THEOREM OneHolderSafe == Spec => []OneHolder
<1>1. DropletInv => OneHolder
  <2> SUFFICES ASSUME DropletInv PROVE OneHolder
    OBVIOUS
  <2>1. ASSUME ~ raced, NEW o \in Holders, NEW p \in Holders,
               holds[o] = holds[p], holds[o] # Nothing
        PROVE  o = p
    BY <2>1 DEF DropletInv, Distinct, Own
  <2> QED BY <2>1 DEF DropletInv, Filled, OneHolder
<1> QED BY <1>1, DropletInit, DropletStep, PTL DEF Spec

(***************************************************************************)
(* Children.                                                               *)
(***************************************************************************)
\* Objects are not taken away again.
LEMMA StatusStays ==
  ASSUME TypeOK, [Next]_vars, NEW p \in Objects, status[p] # "none"
  PROVE  status'[p] # "none"
<1>1. CASE UNCHANGED vars
  BY <1>1 DEF vars, cluster
<1>2. CASE Boot
  <2>1. boot + 1 \in 1 .. Len(Roots)
    BY <1>2, RootsFacts, SizesAssumption DEF Boot, Ready, TypeOK
  <2>2. Roots[boot + 1] \in Objects /\ Created(Roots[boot + 1])
    BY <1>2, <2>1, RootsFacts DEF Boot
  <2> QED BY <2>2, CreatedFacts
<1>3. CASE \E o \in Objects : CreateChild(o)
  <2>1. PICK o \in Objects : CreateChild(o)
    BY <1>3
  <2>2. Children[o][Len(run[o].made) + 1] \in Objects
    BY <2>1, ChildrenFacts DEF CreateChild, TypeOK
  <2> QED BY <2>1, <2>2, CreatedFacts DEF CreateChild
<1>4. CASE \E o \in Objects : Patch(o)
  BY <1>4 DEF Patch, TypeOK
<1>5. CASE UNCHANGED status
  BY <1>5
<1>6. CASE Next
  <2>1. CASE \E o \in Objects : \/ BeginParent(o) \/ BeginHolder(o) \/ Sample(o)
                                \/ Allocate(o) \/ Store(o) \/ Fault(o)
    BY <2>1, <1>5 DEF BeginParent, BeginHolder, Sample, Allocate, Store, Fault, cluster
  <2>2. CASE (\E d \in Droplet : NewDroplet(d) \/ LoseDroplet(d)) \/ Crash
    BY <2>2, <1>5 DEF NewDroplet, LoseDroplet, Crash, cluster
  <2> QED BY <1>2, <1>3, <1>4, <1>6, <2>1, <2>2 DEF Next, Step
<1> QED BY <1>1, <1>6

BuildInv == TypeOK /\ Building /\ Complete

LEMMA BuildInit == Init => BuildInv
<1> SUFFICES ASSUME Init PROVE BuildInv
  OBVIOUS
<1>1. \A o \in Parents : status[o] = "none" /\ run[o].pc = "idle"
  BY ObjectFacts DEF Init, NotRunning
<1> QED BY <1>1, TypeInit DEF BuildInv, Building, Complete

\* What is there stays there for the handlers that have not moved.
LEMMA BuiltStays ==
  ASSUME TypeOK, [Next]_vars, NEW o \in Parents, Built(o), run'[o].made = run[o].made
  PROVE  Built(o)'
<1>1. /\ Children[o] \in Seq(Objects) /\ run[o].made \in Seq(Objects)
  BY ChildrenFacts, ObjectFacts DEF TypeOK
<1>2. \A i \in 1 .. Len(run[o].made) : Children[o][i] \in Objects
  BY <1>1 DEF Built
<1> QED BY <1>2, StatusStays DEF Built

\* A step that provisions nothing and touches no links keeps Complete.
LEMMA CompleteStays ==
  ASSUME TypeOK, Complete, [Next]_vars, UNCHANGED links,
         \A o \in Parents : status'[o] = "Provisioned" => status[o] = "Provisioned"
  PROVE  Complete'
<1>1. ASSUME NEW o \in Parents, status'[o] = "Provisioned"
      PROVE  /\ \A i \in DOMAIN Children[o] : status'[Children[o][i]] # "none"
             /\ o \in Chains =>
                  links'[o] = [ftns |-> Children[o], head |-> Children[o][1],
                               tail |-> Children[o][NReplicas]]
  <2>1. Children[o] \in Seq(Objects)
    BY ChildrenFacts
  <2>2. \A i \in DOMAIN Children[o] : Children[o][i] \in Objects
    BY <2>1
  <2> QED BY <1>1, <2>2, StatusStays DEF Complete
<1> QED BY <1>1 DEF Complete

LEMMA BuildCreate ==
  ASSUME BuildInv, [Next]_vars, NEW o \in Objects, CreateChild(o)
  PROVE  Building' /\ Complete'
<1> DEFINE n == Len(run[o].made)
           child == Children[o][n + 1]
<1>1. /\ o \in Parents /\ run[o] \in Runs /\ run[o].pc = "create" /\ Built(o)
      /\ run[o].made \in Seq(Objects) /\ n \in Nat /\ n < Len(Children[o])
  BY DEF CreateChild, BuildInv, Building, TypeOK, Runs
<1>2. child \in Objects /\ Created(child)
  BY <1>1, ChildrenFacts DEF CreateChild
<1>3. /\ run'[o] = [run[o] EXCEPT !.made = Append(@, child)]
      /\ \A p \in Objects : p # o => run'[p] = run[p]
      /\ UNCHANGED links
  BY DEF CreateChild, BuildInv, TypeOK
<1>4. run'[o].made = Append(run[o].made, child) /\ run'[o].pc = "create"
  BY <1>1, <1>3 DEF Runs
<1>5. status'[child] # "none" /\ \A p \in Objects : status'[p] = "Provisioned" <=> status[p] = "Provisioned"
  BY <1>2, CreatedFacts DEF BuildInv
<1>6. Built(o)'
  <2>1. Len(run'[o].made) = n + 1 /\ n + 1 <= Len(Children[o])
    BY <1>1, <1>2, <1>4, ChildrenFacts
  <2>2. ASSUME NEW i \in 1 .. n + 1
        PROVE  run'[o].made[i] = Children[o][i] /\ status'[Children[o][i]] # "none"
    <3>1. CASE i = n + 1
      BY <1>1, <1>2, <1>4, <1>5, <3>1
    <3>2. CASE i # n + 1
      <4>1. i \in 1 .. n /\ run'[o].made[i] = run[o].made[i]
        BY <1>1, <1>2, <1>4, <3>2
      <4>2. run[o].made[i] = Children[o][i] /\ status[Children[o][i]] # "none"
        BY <1>1, <4>1 DEF Built
      <4>3. Children[o][i] \in Objects
        BY <1>1, <4>1, ChildrenFacts
      <4> QED BY <4>1, <4>2, <4>3, StatusStays DEF BuildInv
    <3> QED BY <3>1, <3>2
  <2> QED BY <2>1, <2>2 DEF Built
<1>7. Building'
  <2>1. ASSUME NEW p \in Parents, p # o
        PROVE  /\ run'[p].pc \in {"create", "patch"} => Built(p)'
               /\ run'[p].pc = "patch" => Len(run'[p].made) = Len(Children[p])
    BY <1>3, <2>1, BuiltStays, ObjectFacts DEF BuildInv, Building
  <2> QED BY <1>4, <1>6, <2>1 DEF Building
<1>8. Complete'
  BY <1>3, <1>5, CompleteStays, ObjectFacts DEF BuildInv
<1> QED BY <1>7, <1>8

\* A chain is provisioned with the list of what its handler created.
LEMMA BuildPatch ==
  ASSUME BuildInv, [Next]_vars, NEW o \in Objects, Patch(o)
  PROVE  Building' /\ Complete'
<1>1. /\ run'[o] = NotRunning
      /\ \A p \in Objects : p # o => run'[p] = run[p] /\ status'[p] = status[p]
      /\ \A c \in Chains : c # o => links'[c] = links[c]
  BY DEF Patch, BuildInv, TypeOK
<1>2. Building'
  <2>1. ASSUME NEW p \in Parents
        PROVE  /\ run'[p].pc \in {"create", "patch"} => Built(p)'
               /\ run'[p].pc = "patch" => Len(run'[p].made) = Len(Children[p])
    <3>1. CASE p = o
      BY <1>1, <3>1 DEF NotRunning
    <3>2. CASE p # o
      BY <1>1, <3>2, BuiltStays, ObjectFacts DEF BuildInv, Building
    <3> QED BY <3>1, <3>2
  <2> QED BY <2>1 DEF Building
<1>3. ASSUME NEW p \in Parents, status'[p] = "Provisioned"
      PROVE  /\ \A i \in DOMAIN Children[p] : status'[Children[p][i]] # "none"
             /\ p \in Chains =>
                  links'[p] = [ftns |-> Children[p], head |-> Children[p][1],
                               tail |-> Children[p][NReplicas]]
  <2>1. Children[p] \in Seq(Objects)
    BY ChildrenFacts
  <2>2. DOMAIN Children[p] = 1 .. Len(Children[p])
        /\ \A i \in DOMAIN Children[p] : Children[p][i] \in Objects
    BY <2>1
  <2>3. CASE p = o
    <3>1. /\ run[o].made \in Seq(Objects) /\ Len(run[o].made) = Len(Children[o])
          /\ Built(o)
      BY <2>3, ObjectFacts DEF Patch, BuildInv, Building, TypeOK
    <3>2. run[o].made = Children[o]
      BY <2>1, <2>3, <3>1 DEF Built
    <3>3. \A i \in DOMAIN Children[p] : status[Children[p][i]] # "none"
      BY <2>2, <2>3, <3>1 DEF Built
    <3>4. \A i \in DOMAIN Children[p] : status'[Children[p][i]] # "none"
      BY <2>2, <3>3, StatusStays DEF BuildInv
    <3>5. p \in Chains => links'[p] = Linked(run[o].made)
      BY <2>3 DEF Patch, BuildInv, TypeOK
    <3> QED BY <2>3, <3>2, <3>4, <3>5 DEF Linked
  <2>4. CASE p # o
    <3>1. status[p] = "Provisioned"
      BY <1>1, <1>3, <2>4, ObjectFacts
    <3>2. \A i \in DOMAIN Children[p] : status'[Children[p][i]] # "none"
      BY <2>2, <3>1, StatusStays DEF BuildInv, Complete
    <3> QED BY <1>1, <2>4, <3>1, <3>2 DEF BuildInv, Complete
  <2> QED BY <2>3, <2>4
<1> QED BY <1>2, <1>3 DEF Complete

\* The other steps of a handler start it, move it or end it.
LEMMA BuildOther ==
  ASSUME BuildInv, [Next]_vars, NEW o \in Objects,
         BeginParent(o) \/ BeginHolder(o) \/ Sample(o) \/ Allocate(o) \/ Store(o) \/ Fault(o)
  PROVE  Building' /\ Complete'
<1>1. UNCHANGED <<status, links>>
  BY DEF BeginParent, BeginHolder, Sample, Allocate, Store, Fault, cluster
<1>2. \A p \in Objects : p # o => run'[p] = run[p]
  BY DEF BeginParent, BeginHolder, Sample, Allocate, Store, Fault, Retry, BuildInv, TypeOK
<1>3. o \in Parents =>
        \/ run'[o].pc \in {"idle", "failed"}
        \/ run'[o].pc = "create" /\ run'[o].made = <<>>
        \/ /\ run[o].pc = "create" /\ run'[o].pc = "patch"
           /\ run'[o].made = run[o].made /\ Len(run[o].made) = Len(Children[o])
  <2> SUFFICES ASSUME o \in Parents
               PROVE  \/ run'[o].pc \in {"idle", "failed"}
                      \/ run'[o].pc = "create" /\ run'[o].made = <<>>
                      \/ /\ run[o].pc = "create" /\ run'[o].pc = "patch"
                         /\ run'[o].made = run[o].made /\ Len(run[o].made) = Len(Children[o])
    OBVIOUS
  <2>1. o \notin Holders /\ run[o] \in Runs
    BY ObjectFacts DEF BuildInv, TypeOK, Runs
  <2>2. CASE BeginParent(o)
    <3>1. CASE Retry(o)
      BY <2>2, <3>1, TypeRetry DEF BuildInv, BeginParent
    <3>2. CASE run' = [run EXCEPT ![o] = [NotRunning EXCEPT !.pc = "create"]]
      <4>1. "create" \in States
        BY DEF States
      <4> QED BY <3>2, <4>1, NewRun DEF BuildInv, TypeOK
    <3> QED BY <2>2, <3>1, <3>2 DEF BeginParent
  <2>3. CASE Store(o)
    <3>1. run'[o] = [run[o] EXCEPT !.pc = "patch"]
      BY <2>3 DEF Store, BuildInv, TypeOK
    <3> QED BY <2>1, <2>3, <3>1 DEF Store, Runs
  <2>4. CASE Fault(o)
    <3>1. "failed" \in States
      BY DEF States
    <3> QED BY <2>4, <3>1, NewRun DEF Fault, BuildInv, TypeOK
  <2>5. ~ BeginHolder(o) /\ ~ Sample(o) /\ ~ Allocate(o)
    BY <2>1 DEF BeginHolder, Sample, Allocate, BuildInv, TypeOK
  <2> QED BY <2>2, <2>3, <2>4, <2>5
<1>4. Building'
  <2>1. ASSUME NEW p \in Parents
        PROVE  /\ run'[p].pc \in {"create", "patch"} => Built(p)'
               /\ run'[p].pc = "patch" => Len(run'[p].made) = Len(Children[p])
    <3>1. CASE p # o
      BY <1>2, <3>1, BuiltStays, ObjectFacts DEF BuildInv, Building
    <3>2. CASE p = o /\ run'[o].made = run[o].made /\ run[o].pc = "create"
                    /\ Len(run[o].made) = Len(Children[o])
      BY <3>2, BuiltStays DEF BuildInv, Building
    <3>3. CASE p = o /\ run'[o].pc = "create" /\ run'[o].made = <<>>
      BY <3>3, ChildrenFacts DEF Built
    <3>4. CASE p = o /\ run'[o].pc \in {"idle", "failed"}
      BY <3>4
    <3> QED BY <1>3, <3>1, <3>2, <3>3, <3>4
  <2> QED BY <2>1 DEF Building
<1>5. Complete'
  BY <1>1, CompleteStays DEF BuildInv
<1> QED BY <1>4, <1>5

LEMMA BuildStep == BuildInv /\ [Next]_vars => BuildInv'
<1> SUFFICES ASSUME BuildInv, [Next]_vars PROVE BuildInv'
  OBVIOUS
<1>1. TypeOK'
  BY TypeStep DEF BuildInv
<1>2. CASE UNCHANGED vars
  BY <1>1, <1>2 DEF BuildInv, Building, Built, Complete, vars, cluster, memory
<1>3. CASE Boot
  <2>1. boot + 1 \in 1 .. Len(Roots)
    BY <1>3, RootsFacts, SizesAssumption DEF Boot, Ready, BuildInv, TypeOK
  <2>2. Roots[boot + 1] \in Objects /\ Created(Roots[boot + 1])
    BY <1>3, <2>1, RootsFacts DEF Boot
  <2>3. \A p \in Objects : status'[p] = "Provisioned" <=> status[p] = "Provisioned"
    BY <2>2, CreatedFacts DEF BuildInv
  <2>4. UNCHANGED <<run, links>>
    BY <1>3 DEF Boot
  <2>5. Building'
    BY <2>4, BuiltStays DEF BuildInv, Building
  <2>6. Complete'
    BY <2>3, <2>4, CompleteStays, ObjectFacts DEF BuildInv
  <2> QED BY <1>1, <2>5, <2>6 DEF BuildInv
<1>4. CASE \E o \in Objects : Step(o) \/ Fault(o)
  BY <1>1, <1>4, BuildCreate, BuildPatch, BuildOther DEF Step, BuildInv
<1>5. CASE \E d \in Droplet : NewDroplet(d) \/ LoseDroplet(d)
  BY <1>1, <1>5
  DEF NewDroplet, LoseDroplet, BuildInv, Building, Built, Complete, cluster, memory
<1>6. CASE Crash
  <2>1. \A o \in Parents : run'[o].pc = "idle"
    BY <1>6, ObjectFacts DEF Crash, NotRunning
  <2> QED BY <1>1, <1>6, <2>1 DEF Crash, BuildInv, Building, Complete, cluster
<1> QED BY <1>2, <1>3, <1>4, <1>5, <1>6 DEF Next

\* However often creation was interrupted and done again, a provisioned DFT has
\* its chains, and a provisioned chain its FTNs, listed in order, with head and
\* tail.
THEOREM CompleteSafe == Spec => []Complete
<1>1. BuildInv => Complete
  BY DEF BuildInv
<1> QED BY <1>1, BuildInit, BuildStep, PTL DEF Spec
=============================================================================
