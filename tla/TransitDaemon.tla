---------------------------- MODULE TransitDaemon ----------------------------
(***************************************************************************)
(* The transit daemon of one node: loading and unloading the XDP program,  *)
(* replacing its stages, filling its BPF maps.                             *)
(*                                                                         *)
(* The daemon serves one RPC at a time, but a load or an unload is a       *)
(* sequence of system calls, each of which may fail and end it early, and  *)
(* packets meet whatever is attached between two of them.  So load and     *)
(* unload take one step per object or interface, the other RPCs one step.  *)
(*                                                                         *)
(* Every load attempt makes a new set of maps and programs.  They are      *)
(* named by the number of the attempt; 0 stands for none.  Kernel objects  *)
(* outlive the daemon's bookkeeping: an attached program keeps its maps,   *)
(* but a prog array (jmp_table) is emptied by the kernel once no file      *)
(* descriptor and no pin refers to it.                                     *)
(***************************************************************************)
EXTENDS Naturals

CONSTANTS
  NItf,         \* TRAN_ITF_MAP_MAX interfaces
  NStage,       \* TRAN_MAX_PROG - 1 stages
  Key,          \* keys of endpoints_map
  Val,          \* endpoints, and entrance lists
  NoEntry,      \* no entry under a key
  Unknown,      \* nothing acknowledged about a key
  Fails,        \* the system calls that may fail
  MaxLoads,     \* bound: load attempts
  MaxRestarts   \* bound: restarts of the daemon

Calls == {"main", "stage", "init", "attach", "info", "query", "reattach",
          "ebpf", "entry"}

Itf == 0 .. NItf - 1
Stage == 1 .. NStage
Load == 1 .. MaxLoads
MapKey == Key \cup Itf   \* endpoints_map, and if_config_map by interface

ASSUME SizeAssumption == NItf \in Nat \ {0} /\ NStage \in Nat \ {0}
ASSUME KeyAssumption == Key \cap Itf = {}
ASSUME ValAssumption == NoEntry \notin Val /\ Unknown \notin Val \cup {NoEntry}
ASSUME FailsAssumption == Fails \subseteq Calls
ASSUME LoadsAssumption == MaxLoads \in Nat /\ MaxRestarts \in Nat

VARIABLES
  md,        \* the load md describes, 0 when md is NULL
  table,     \* the load whose open map fds trn_xdp_bpfmaps holds, 0 for none
  objs,      \* BPF objects the process has open, known to md or leaked
  pins,      \* the load whose maps are pinned under /sys/fs/bpf
  attached,  \* the load whose main program runs on each interface
  jmp,       \* jmp_table of each load
  entries,   \* endpoints_map and if_config_map of each load
  phase,     \* where the call being served is
  at,        \* its loop index
  loads,     \* history: load attempts
  restarts,  \* history: restarts
  acked      \* history: what the last RPC with result 0 said of each key

kernel == <<objs, pins, attached, jmp, entries>>
memory == <<md, table>>
call == <<phase, at>>
history == <<loads, restarts, acked>>
vars == <<kernel, memory, call, history>>

Object == (Load \X {"main"} \X Itf) \cup (Load \X {"stage"} \X Stage)
Slot == {"empty", "set", "removed"}   \* removed: by unload_transit_xdp_ebpf

TypeOK ==
  /\ md \in 0 .. MaxLoads
  /\ table \in 0 .. MaxLoads
  /\ objs \subseteq Object
  /\ pins \in [{"shared", "hook"} -> 0 .. MaxLoads]
  /\ attached \in [Itf -> 0 .. MaxLoads]
  /\ jmp \in [Load -> [Stage -> Slot]]
  /\ entries \in [Load -> [MapKey -> Val \cup {NoEntry}]]
  /\ phase \in {"idle", "down", "main", "stage", "init", "attach",
                "detach", "reattach", "release"}
  /\ at \in Nat
  /\ loads \in 0 .. MaxLoads
  /\ restarts \in 0 .. MaxRestarts
  /\ acked \in [MapKey -> Val \cup {NoEntry, Unknown}]

EmptyTable == [s \in Stage |-> "empty"]
FullTable == [s \in Stage |-> "set"]
NothingAcked == [k \in MapKey |-> Unknown]

Init ==
  /\ md = 0
  /\ table = 0
  /\ objs = {}
  /\ pins = [p \in {"shared", "hook"} |-> 0]
  /\ attached = [i \in Itf |-> 0]
  /\ jmp = [g \in Load |-> EmptyTable]
  /\ entries = [g \in Load |-> [k \in MapKey |-> NoEntry]]
  /\ phase = "idle"
  /\ at = 0
  /\ loads = 0
  /\ restarts = 0
  /\ acked = NothingAcked

\* Whether a descriptor of the process or a pin keeps the maps of a load.
Used(g, open, pinned) == pinned["shared"] = g \/ \E o \in open : o[1] = g

\* The kernel empties the jump tables that nobody uses any more.
Hold(open, pinned) ==
  /\ objs' = open
  /\ pins' = pinned
  /\ jmp' = [g \in Load |-> IF Used(g, open, pinned) THEN jmp[g] ELSE EmptyTable]

Goto(p, i) == phase' = p /\ at' = i

(***************************************************************************)
(* load_transit_xdp.  When md is set it returns 0 at once.                 *)
(***************************************************************************)
LoadBegin ==
  /\ phase = "idle"
  /\ md = 0
  /\ loads < MaxLoads
  /\ loads' = loads + 1
  /\ md' = loads + 1
  /\ table' = 0                      \* trn_transit_map_hash
  /\ Goto("main", 0)
  /\ UNCHANGED <<kernel, restarts, acked>>

\* The cleanup label: md is freed and nothing else, so objects stay open, pins
\* stay, and an interface attached already stays attached.
Abandon ==
  /\ md' = 0
  /\ Goto("idle", 0)
  /\ UNCHANGED <<attached, entries, history>>

\* post_load pins what is not pinned already.
Pinned == [p \in {"shared", "hook"} |-> IF pins[p] = 0 THEN md ELSE pins[p]]

LoadMainOnce ==
  /\ phase = "main"
  /\ Hold(objs \cup {<<md, "main", at>>}, Pinned)
  /\ table' = md
  /\ IF at < NItf THEN Goto("main", at + 1) ELSE Goto("stage", 1)
  /\ UNCHANGED <<attached, entries, md, history>>
LoadMain ==
  /\ phase = "main"
  /\ Hold(objs \cup {<<md, "main", at>>}, Pinned)
  /\ table' = md
  /\ IF at + 1 < NItf THEN Goto("main", at + 1) ELSE Goto("stage", 1)
  /\ UNCHANGED <<attached, entries, md, history>>

\* The object that fails is closed; it may have pinned its maps before.
LoadMainFails ==
  /\ phase = "main" /\ "main" \in Fails
  /\ \E p \in {pins, Pinned} : Hold(objs, p)
  /\ UNCHANGED table
  /\ Abandon

LoadStage ==
  /\ phase = "stage"
  /\ Hold(objs \cup {<<md, "stage", at>>}, pins)
  /\ IF at + 1 \in Stage THEN Goto("stage", at + 1) ELSE Goto("init", 0)
  /\ UNCHANGED <<attached, entries, memory, history>>

LoadStageFails ==
  /\ phase = "stage" /\ "stage" \in Fails
  /\ UNCHANGED <<objs, pins, jmp, table>>
  /\ Abandon

\* trn_transit_xdp_map_initialize.  When it fails the load is abandoned before
\* anything runs on its maps, so how far it came does not matter.
LoadInitOffByOne ==
  /\ phase = "init"
  /\ jmp' = [jmp EXCEPT ![md] = [s \in Stage |-> IF s < NStage THEN "set" ELSE "empty"]]
  /\ Goto("attach", 0)
  /\ UNCHANGED <<objs, pins, attached, entries, memory, history>>
LoadInit ==
  /\ phase = "init"
  /\ jmp' = [jmp EXCEPT ![md] = FullTable]
  /\ Goto("attach", 0)
  /\ UNCHANGED <<objs, pins, attached, entries, memory, history>>

LoadInitFails ==
  /\ phase = "init" /\ "init" \in Fails
  /\ UNCHANGED <<objs, pins, jmp, table>>
  /\ Abandon

\* Attaching replaces what is attached; after the last interface md is ready.
LoadAttach ==
  /\ phase = "attach"
  /\ attached' = [attached EXCEPT ![at] = md]
  /\ IF at + 1 < NItf THEN Goto("attach", at + 1) ELSE Goto("idle", 0)
  /\ UNCHANGED <<objs, pins, jmp, entries, memory, history>>

LoadAttachFails ==
  /\ phase = "attach" /\ "attach" \in Fails
  /\ UNCHANGED <<objs, pins, jmp, table>>
  /\ Abandon

\* Attached, but bpf_obj_get_info_by_fd fails.
LoadInfoFails ==
  /\ phase = "attach" /\ "info" \in Fails
  /\ attached' = [attached EXCEPT ![at] = md]
  /\ md' = 0
  /\ Goto("idle", 0)
  /\ UNCHANGED <<objs, pins, jmp, entries, table, history>>

(***************************************************************************)
(* unload_transit_xdp.  When md is NULL it returns 0 at once.              *)
(***************************************************************************)
UnloadBegin ==
  /\ phase = "idle"
  /\ md # 0
  /\ Goto("detach", 0)
  /\ UNCHANGED <<kernel, memory, history>>

UnloadQueryFails ==
  /\ phase = "detach" /\ "query" \in Fails
  /\ Goto("idle", 0)
  /\ UNCHANGED <<kernel, memory, history>>

\* Detach, unless another program has taken the interface.
UnloadDetach ==
  /\ phase = "detach"
  /\ attached' = [attached EXCEPT ![at] = IF @ = md THEN 0 ELSE @]
  /\ Goto("reattach", at)
  /\ UNCHANGED <<objs, pins, jmp, entries, memory, history>>

\* In either case the program is attached again.
UnloadNext == IF at + 1 < NItf THEN Goto("detach", at + 1) ELSE Goto("release", 0)
UnloadStaysDetached ==
  /\ phase = "reattach"
  /\ UnloadNext
  /\ UNCHANGED <<kernel, memory, history>>
UnloadReattach ==
  /\ phase = "reattach"
  /\ attached' = [attached EXCEPT ![at] = md]
  /\ UnloadNext
  /\ UNCHANGED <<objs, pins, jmp, entries, memory, history>>

UnloadReattachFails ==
  /\ phase = "reattach" /\ "reattach" \in Fails
  /\ Goto("idle", 0)
  /\ UNCHANGED <<kernel, memory, history>>

\* Unpin the shared maps (the name xdpcap_hook_map matches no entry of the
\* table, so the hook's pin stays), close the objects md knows, free md.
UnloadRelease ==
  /\ phase = "release"
  /\ Hold({o \in objs : o[1] # md}, [pins EXCEPT !["shared"] = 0])
  /\ md' = 0
  /\ table' = 0
  /\ acked' = NothingAcked
  /\ Goto("idle", 0)
  /\ UNCHANGED <<attached, entries, loads, restarts>>

(***************************************************************************)
(* load_transit_xdp_ebpf and unload_transit_xdp_ebpf: one stage.           *)
(***************************************************************************)
EbpfLoad(s) ==
  /\ phase = "idle" /\ md # 0
  /\ objs' = objs \cup {<<md, "stage", s>>}
  /\ jmp' = [jmp EXCEPT ![md][s] = "set"]
  /\ UNCHANGED <<pins, attached, entries, memory, call, history>>

\* The old object is closed first; jmp_table keeps its program, also when the
\* new one is loaded and only the update of jmp_table fails.
EbpfLoadFails(s) ==
  /\ phase = "idle" /\ md # 0 /\ "ebpf" \in Fails
  /\ \E new \in SUBSET {<<md, "stage", s>>} :
       Hold((objs \ {<<md, "stage", s>>}) \cup new, pins)
  /\ UNCHANGED <<attached, entries, memory, call, history>>

EbpfUnload(s) ==
  /\ phase = "idle" /\ md # 0
  /\ objs' = objs \ {<<md, "stage", s>>}
  /\ jmp' = [jmp EXCEPT ![md][s] = "removed"]
  /\ UNCHANGED <<pins, attached, entries, memory, call, history>>

(***************************************************************************)
(* The maps.  The endpoint calls go by the map table alone; only the       *)
(* droplet call needs md.                                                  *)
(***************************************************************************)
Write(S, f) == [entries EXCEPT ![table] =
                  [k \in MapKey |-> IF k \in S THEN f[k] ELSE @[k]]]
Ack(S, f) == acked' = [k \in MapKey |-> IF k \in S THEN f[k] ELSE acked[k]]

UpdateEndpoints(S, f) ==
  /\ phase = "idle" /\ table # 0
  /\ entries' = Write(S, f)
  /\ Ack(S, f)
  /\ UNCHANGED <<objs, pins, attached, jmp, memory, call, loads, restarts>>

\* An update in the batch fails: those before it stay, the result is an error.
UpdateFailsAcked(S, done, f) ==
  /\ phase = "idle" /\ table # 0 /\ "entry" \in Fails
  /\ entries' = Write(done, f)
  /\ Ack(S, f)
  /\ UNCHANGED <<objs, pins, attached, jmp, memory, call, loads, restarts>>
UpdateFails(S, done, f) ==
  /\ phase = "idle" /\ table # 0 /\ "entry" \in Fails
  /\ entries' = Write(done, f)
  /\ Ack(S, NothingAcked)
  /\ UNCHANGED <<objs, pins, attached, jmp, memory, call, loads, restarts>>

\* Refused when there is no entry.
DeleteEndpoint(k) ==
  /\ phase = "idle" /\ table # 0
  /\ entries[table][k] # NoEntry
  /\ entries' = Write({k}, [j \in MapKey |-> NoEntry])
  /\ Ack({k}, [j \in MapKey |-> NoEntry])
  /\ UNCHANGED <<objs, pins, attached, jmp, memory, call, loads, restarts>>

UpdateDropletByTable(i, v) ==
  /\ phase = "idle" /\ table # 0
  /\ entries' = Write({i}, [j \in MapKey |-> v])
  /\ Ack({i}, [j \in MapKey |-> v])
  /\ UNCHANGED <<objs, pins, attached, jmp, memory, call, loads, restarts>>
UpdateDroplet(i, v) ==
  /\ phase = "idle" /\ md # 0 /\ table # 0
  /\ entries' = Write({i}, [j \in MapKey |-> v])
  /\ Ack({i}, [j \in MapKey |-> v])
  /\ UNCHANGED <<objs, pins, attached, jmp, memory, call, loads, restarts>>

(***************************************************************************)
(* The daemon stops, in the middle of a call or not, and is started again; *)
(* starting mounts /sys/fs/bpf anew.  What is attached stays attached.     *)
(***************************************************************************)
Stop ==
  /\ phase # "down"
  /\ restarts < MaxRestarts
  /\ restarts' = restarts + 1
  /\ Hold({}, pins)
  /\ md' = 0
  /\ table' = 0
  /\ acked' = NothingAcked
  /\ Goto("down", 0)
  /\ UNCHANGED <<attached, entries, loads>>

StartKeepsMount ==
  /\ phase = "down"
  /\ Goto("idle", 0)
  /\ UNCHANGED <<kernel, memory, history>>
Start ==
  /\ phase = "down"
  /\ Hold(objs, [p \in {"shared", "hook"} |-> 0])
  /\ Goto("idle", 0)
  /\ UNCHANGED <<attached, entries, memory, history>>

LoadStep ==
  \/ LoadBegin \/ LoadMain \/ LoadMainFails \/ LoadStage \/ LoadStageFails
  \/ LoadInit \/ LoadInitFails \/ LoadAttach \/ LoadAttachFails \/ LoadInfoFails

UnloadStep ==
  \/ UnloadBegin \/ UnloadQueryFails \/ UnloadDetach
  \/ UnloadReattach \/ UnloadReattachFails \/ UnloadRelease

StageStep ==
  \E s \in Stage : EbpfLoad(s) \/ EbpfLoadFails(s) \/ EbpfUnload(s)

MapStep ==
  \/ \E S \in SUBSET Key : \E batch \in [S -> Val] :
       \/ UpdateEndpoints(S, batch)
       \/ \E done \in SUBSET S : done # S /\ UpdateFails(S, done, batch)
  \/ \E k \in Key : DeleteEndpoint(k)
  \/ \E i \in Itf, v \in Val : UpdateDroplet(i, v)

Next == LoadStep \/ UnloadStep \/ StageStep \/ MapStep \/ Stop \/ Start

Spec == Init /\ [][Next]_vars

(***************************************************************************)
(* Why the properties hold: what is true between any two system calls.     *)
(***************************************************************************)
Loading == phase \in {"main", "stage", "init", "attach"}

\* Calls that can end a load early.
LoadCalls == {"main", "stage", "init", "attach", "info"}

CallShape ==
  /\ phase \in {"main", "attach", "detach", "reattach"} => at \in Itf
  /\ phase = "stage" => at \in Stage
  /\ phase \notin {"idle", "down"} => md # 0
  /\ phase = "down" => md = 0
  /\ md # 0 => md = loads

\* The map table is that of md, and md's main program keeps its maps in use.
MapsInUse ==
  md # 0 /\ (phase = "main" => at > 0) =>
    table = md /\ <<md, "main", 0>> \in objs

\* A load attaches interface by interface; afterwards they run md's program or,
\* in an unload or after one that failed, nothing.
Attachments ==
  /\ \A i \in Itf : attached[i] <= loads
  /\ Loading => \A i \in Itf : attached[i] = md <=> phase = "attach" /\ i < at
  /\ md # 0 /\ ~Loading => \A i \in Itf : attached[i] \in {0, md}

\* An unload leaves at most the interface it is at without a program.
OneDetached ==
  md # 0 /\ ~Loading =>
    \A i \in Itf : attached[i] # md => phase = "reattach" /\ i = at

MdJumps ==
  md # 0 /\ phase \notin {"main", "stage", "init"} =>
    \A s \in Stage : jmp[md][s] # "empty"

\* The keys whose acknowledgements can be relied on, and what they mean.
Reliable == Itf \cup IF Fails \cap LoadCalls = {} THEN Key ELSE {}
TableOfMd == Fails \cap LoadCalls = {} /\ md = 0 => table = 0
AckedInMd ==
  \A k \in Reliable : acked[k] # Unknown =>
    md # 0 /\ ~Loading /\ entries[md][k] = acked[k]

(***************************************************************************)
(* Properties.                                                             *)
(***************************************************************************)

\* Between calls, when md is set, its programs run on every interface.  This
\* is what makes it right that a second load_transit_xdp returns 0 without
\* looking; unload_transit_xdp can give up half way and leave md as it is.
LoadedServes ==
  phase = "idle" /\ md # 0 => \A i \in Itf : attached[i] = md

\* "Initialize bpfmaps before attach to interfaces"
\* (trn_transit_xdp_usr.c:830): whatever a packet meets, in the middle of a
\* load, after one that failed or after a crash, is a program that finds all
\* its stages, but those an operator took out, as long as its maps are in use.
JumpsFilled ==
  \A i \in Itf : LET g == attached[i] IN
    g # 0 /\ Used(g, objs, pins) => \A s \in Stage : jmp[g][s] # "empty"

\* An entrance list that the daemon acknowledged is the one the program on that
\* interface uses, whichever loads failed before.
DropletServed ==
  \A i \in Itf : acked[i] # Unknown /\ attached[i] # 0 =>
    entries[attached[i]][i] = acked[i]

\* What the last acknowledged RPC said of an endpoint is what every attached
\* program finds.  (Not so once a load has failed: see the README.)
EndpointsServed ==
  \A i \in Itf, k \in Key : acked[k] # Unknown /\ attached[i] # 0 =>
    entries[attached[i]][k] = acked[k]

\* The pins under /sys/fs/bpf are those of the maps in use: post_load leaves a
\* pin that exists as it is.
PinsCurrent ==
  md # 0 /\ phase # "main" => pins["shared"] = md

\* "Detatch XDP program from interfaces before releasing bpfmaps"
\* (trn_transit_xdp_usr.c:882): no program runs on an interface after the
\* maps it jumps through are released.
DetachedBeforeRelease ==
  \A i \in Itf : attached[i] # 0 => Used(attached[i], objs, pins)
=============================================================================
