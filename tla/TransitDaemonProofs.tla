------------------------- MODULE TransitDaemonProofs -------------------------
(***************************************************************************)
(* Theorems about TransitDaemon, for any number of interfaces and stages,  *)
(* any keys and values, any number of loads and restarts.                  *)
(***************************************************************************)
EXTENDS TransitDaemon, TLAPS

\* The loop indexes and the numbers of loads.
LEMMA Indexes ==
  /\ 0 \in Itf /\ 1 \in Stage
  /\ \A i \in Itf : i \in Nat /\ (i + 1 < NItf => i + 1 \in Itf)
  /\ \A n \in 0 .. MaxLoads : n \in Nat /\ (n # 0 => n \in Load)
  /\ \A n \in 0 .. MaxLoads : n < MaxLoads => n + 1 \in 0 .. MaxLoads
  /\ \A s \in Stage : s \in Nat
  /\ Load \subseteq 0 .. MaxLoads
  /\ 0 \in 0 .. MaxLoads
BY SizeAssumption, LoadsAssumption DEF Itf, Stage, Load

\* The groups of unchanged variables.
LEMMA Unchanged ==
  /\ UNCHANGED kernel <=> UNCHANGED <<objs, pins, attached, jmp, entries>>
  /\ UNCHANGED memory <=> UNCHANGED <<md, table>>
  /\ UNCHANGED call <=> UNCHANGED <<phase, at>>
  /\ UNCHANGED history <=> UNCHANGED <<loads, restarts, acked>>
  /\ UNCHANGED vars <=> UNCHANGED <<kernel, memory, call, history>>
BY DEF kernel, memory, call, history, vars

(***************************************************************************)
(* Types, and the shape of a call, which keeps the loop indexes in range.  *)
(***************************************************************************)
LEMMA TypeInit == Init => TypeOK /\ CallShape
BY Indexes, LoadsAssumption DEF Init, TypeOK, CallShape, EmptyTable, NothingAcked, Slot

LEMMA HoldType ==
  ASSUME TypeOK, NEW open \in SUBSET Object, NEW pinned \in [{"shared", "hook"} -> 0 .. MaxLoads],
         Hold(open, pinned)
  PROVE  /\ objs' \subseteq Object
         /\ pins' \in [{"shared", "hook"} -> 0 .. MaxLoads]
         /\ jmp' \in [Load -> [Stage -> Slot]]
BY Indexes DEF Hold, TypeOK, EmptyTable, Slot

LEMMA PinnedType == TypeOK => Pinned \in [{"shared", "hook"} -> 0 .. MaxLoads]
BY Indexes DEF TypeOK, Pinned

LEMMA LoadType ==
  ASSUME TypeOK, CallShape, LoadStep
  PROVE  TypeOK' /\ CallShape'
<1> USE DEF CallShape, Goto, memory, kernel, history
<1>1. CASE LoadBegin
  BY <1>1, Indexes DEF LoadBegin, TypeOK
<1>2. CASE LoadMain
  <2>1. md \in Load /\ at \in Itf
    BY <1>2, Indexes DEF LoadMain, TypeOK
  <2>2. Hold(objs \cup {<<md, "main", at>>}, Pinned)
    BY <1>2 DEF LoadMain
  <2>3. objs \cup {<<md, "main", at>>} \in SUBSET Object
    BY <2>1, Indexes DEF TypeOK, Object
  <2>4. at' \in Nat /\ CallShape' /\ phase' \in {"main", "stage"}
    BY <1>2, <2>1, Indexes DEF LoadMain, TypeOK
  <2> QED BY <1>2, <2>1, <2>2, <2>3, <2>4, HoldType, PinnedType, Indexes DEF LoadMain, TypeOK
<1>3. CASE LoadMainFails
  <2>1. PICK p \in {pins, Pinned} : Hold(objs, p)
    BY <1>3 DEF LoadMainFails
  <2>2. p \in [{"shared", "hook"} -> 0 .. MaxLoads] /\ objs \in SUBSET Object
    BY PinnedType, Indexes DEF TypeOK
  <2>3. UNCHANGED <<table, attached, entries, loads, restarts, acked>>
           /\ md' = 0 /\ phase' = "idle" /\ at' = 0
    BY <1>3 DEF LoadMainFails, Abandon
  <2> QED BY <2>1, <2>2, <2>3, HoldType, Indexes DEF TypeOK
<1>4. CASE LoadStage
  <2>1. md \in Load /\ at \in Stage
    BY <1>4, Indexes DEF LoadStage, TypeOK
  <2>2. Hold(objs \cup {<<md, "stage", at>>}, pins)
    BY <1>4 DEF LoadStage
  <2>3. objs \cup {<<md, "stage", at>>} \in SUBSET Object
    BY <2>1, Indexes DEF TypeOK, Object
  <2>4. CallShape' /\ phase' \in {"stage", "init"}
    BY <1>4, <2>1, Indexes DEF LoadStage, TypeOK
  <2> QED BY <1>4, <2>2, <2>3, <2>4, HoldType, Indexes DEF LoadStage, TypeOK
<1>5. CASE LoadStageFails \/ LoadInitFails \/ LoadAttachFails
  BY <1>5, Indexes DEF LoadStageFails, LoadInitFails, LoadAttachFails, Abandon, TypeOK
<1>6. CASE LoadInit
  BY <1>6, Indexes DEF LoadInit, TypeOK, FullTable, Slot
<1>7. CASE LoadAttach
  BY <1>7, Indexes DEF LoadAttach, TypeOK
<1>8. CASE LoadInfoFails
  BY <1>8, Indexes DEF LoadInfoFails, TypeOK
<1> QED BY <1>1, <1>2, <1>3, <1>4, <1>5, <1>6, <1>7, <1>8 DEF LoadStep

LEMMA UnloadType ==
  ASSUME TypeOK, CallShape, UnloadStep
  PROVE  TypeOK' /\ CallShape'
<1> USE DEF CallShape, Goto, memory, kernel, history
<1>1. CASE UnloadBegin \/ UnloadQueryFails \/ UnloadReattachFails
  BY <1>1, Indexes DEF UnloadBegin, UnloadQueryFails, UnloadReattachFails, TypeOK
<1>2. CASE UnloadDetach
  BY <1>2, Indexes DEF UnloadDetach, TypeOK
<1>3. CASE UnloadReattach
  BY <1>3, Indexes DEF UnloadReattach, UnloadNext, TypeOK
<1>4. CASE UnloadRelease
  <2>1. Hold({o \in objs : o[1] # md}, [pins EXCEPT !["shared"] = 0])
    BY <1>4 DEF UnloadRelease
  <2>2. /\ {o \in objs : o[1] # md} \in SUBSET Object
        /\ [pins EXCEPT !["shared"] = 0] \in [{"shared", "hook"} -> 0 .. MaxLoads]
    BY Indexes DEF TypeOK
  <2> QED BY <1>4, <2>1, <2>2, HoldType, Indexes DEF UnloadRelease, TypeOK, NothingAcked
<1> QED BY <1>1, <1>2, <1>3, <1>4 DEF UnloadStep

LEMMA StageType ==
  ASSUME TypeOK, CallShape, StageStep
  PROVE  TypeOK' /\ CallShape'
<1> USE DEF CallShape, memory, call, history
<1>1. PICK s \in Stage : EbpfLoad(s) \/ EbpfLoadFails(s) \/ EbpfUnload(s)
  BY DEF StageStep
<1>2. md \in Load /\ <<md, "stage", s>> \in Object
  BY <1>1, Indexes DEF EbpfLoad, EbpfLoadFails, EbpfUnload, TypeOK, Object
<1>3. CASE EbpfLoad(s)
  BY <1>2, <1>3, Indexes DEF EbpfLoad, TypeOK, Slot
<1>4. CASE EbpfLoadFails(s)
  <2>1. PICK new \in SUBSET {<<md, "stage", s>>} :
          Hold((objs \ {<<md, "stage", s>>}) \cup new, pins)
    BY <1>4 DEF EbpfLoadFails
  <2>2. (objs \ {<<md, "stage", s>>}) \cup new \in SUBSET Object
    BY <1>2, Indexes DEF TypeOK
  <2> QED BY <1>4, <2>1, <2>2, HoldType, Indexes DEF EbpfLoadFails, TypeOK
<1>5. CASE EbpfUnload(s)
  BY <1>2, <1>5, Indexes DEF EbpfUnload, TypeOK, Slot
<1> QED BY <1>1, <1>3, <1>4, <1>5

\* Every call on the maps writes values and acknowledges some of the keys.
LEMMA MapType ==
  ASSUME TypeOK, CallShape, MapStep
  PROVE  TypeOK' /\ CallShape'
<1> USE DEF CallShape, memory, call
<1>1. ASSUME NEW S \in SUBSET Key, NEW batch \in [S -> Val], UpdateEndpoints(S, batch)
      PROVE  TypeOK' /\ CallShape'
  BY <1>1, Indexes DEF UpdateEndpoints, Write, Ack, TypeOK
<1>2. ASSUME NEW S \in SUBSET Key, NEW batch \in [S -> Val], NEW done \in SUBSET S,
             UpdateFails(S, done, batch)
      PROVE  TypeOK' /\ CallShape'
  BY <1>2, Indexes DEF UpdateFails, Write, Ack, NothingAcked, TypeOK
<1>3. ASSUME NEW k \in Key, DeleteEndpoint(k)
      PROVE  TypeOK' /\ CallShape'
  BY <1>3, Indexes DEF DeleteEndpoint, Write, Ack, TypeOK
<1>4. ASSUME NEW i \in Itf, NEW v \in Val, UpdateDroplet(i, v)
      PROVE  TypeOK' /\ CallShape'
  BY <1>4, Indexes DEF UpdateDroplet, Write, Ack, TypeOK
<1> QED BY <1>1, <1>2, <1>3, <1>4 DEF MapStep

LEMMA RestartType ==
  ASSUME TypeOK, CallShape, Stop \/ Start
  PROVE  TypeOK' /\ CallShape'
<1>1. CASE Stop
  <2>1. Hold({}, pins) /\ {} \in SUBSET Object
    BY <1>1 DEF Stop
  <2>2. pins \in [{"shared", "hook"} -> 0 .. MaxLoads]
    BY Indexes DEF TypeOK
  <2>3. restarts' \in 0 .. MaxRestarts
    BY <1>1, LoadsAssumption DEF Stop, TypeOK
  <2>4. acked' \in [MapKey -> Val \cup {NoEntry, Unknown}]
    BY <1>1 DEF Stop, NothingAcked
  <2>5. /\ md' = 0 /\ table' = 0 /\ phase' = "down" /\ at' = 0
        /\ UNCHANGED <<attached, entries, loads>>
    BY <1>1 DEF Stop, Goto
  <2> QED BY <2>1, <2>2, <2>3, <2>4, <2>5, HoldType, Indexes DEF CallShape, TypeOK
<1>2. CASE Start
  <2>1. Hold(objs, [p \in {"shared", "hook"} |-> 0])
    BY <1>2 DEF Start
  <2>2. /\ objs \in SUBSET Object
        /\ [p \in {"shared", "hook"} |-> 0] \in [{"shared", "hook"} -> 0 .. MaxLoads]
    BY Indexes DEF TypeOK
  <2> QED BY <1>2, <2>1, <2>2, HoldType, Indexes DEF Start, Goto, CallShape, TypeOK, memory, history
<1> QED BY <1>1, <1>2

LEMMA TypeStep == TypeOK /\ CallShape /\ [Next]_vars => TypeOK' /\ CallShape'
<1> SUFFICES ASSUME TypeOK, CallShape, [Next]_vars PROVE TypeOK' /\ CallShape'
  OBVIOUS
<1>1. CASE UNCHANGED vars
  BY <1>1, Unchanged, Indexes DEF TypeOK, CallShape, kernel, memory, call, history
<1>2. CASE Next
  BY <1>2, LoadType, UnloadType, StageType, MapType, RestartType DEF Next
<1> QED BY <1>1, <1>2

\* Every state is well typed, and the call being served is where it should be.
THEOREM TypeCorrect == Spec => [](TypeOK /\ CallShape)
BY TypeInit, TypeStep, PTL DEF Spec

(***************************************************************************)
(* What md describes: its table, its objects, what it attached, its jumps. *)
(***************************************************************************)
MdInv == MapsInUse /\ Attachments /\ MdJumps

LEMMA MdInit == Init => MdInv
BY Indexes DEF Init, MdInv, MapsInUse, Attachments, MdJumps, Loading

\* Releasing descriptors and pins leaves the jump table of a load that is still
\* in use alone.
LEMMA HoldKeeps ==
  ASSUME NEW open, NEW pinned, Hold(open, pinned), NEW g \in Load, Used(g, open, pinned)
  PROVE  jmp'[g] = jmp[g]
BY DEF Hold

LEMMA MainUses ==
  ASSUME NEW g, NEW open, <<g, "main", 0>> \in open, NEW pinned
  PROVE  Used(g, open, pinned)
<1>1. <<g, "main", 0>>[1] = g
  OBVIOUS
<1> QED BY <1>1 DEF Used

\* An attach step adds its interface to those that run md's program.
LEMMA AttachOne ==
  ASSUME TypeOK, CallShape, Attachments, LoadAttach, NEW i \in Itf
  PROVE  attached'[i] <= loads' /\ (attached'[i] = md <=> i < at + 1)
<1>1. md = loads /\ md \in Nat /\ at \in Itf /\ loads' = loads
  BY Indexes DEF LoadAttach, TypeOK, CallShape, history
<1>2. attached'[i] = IF i = at THEN md ELSE attached[i]
  BY DEF LoadAttach, TypeOK
<1>3. attached[i] <= loads /\ (attached[i] = md <=> i < at)
  BY DEF LoadAttach, Attachments, Loading
<1>4. i \in Nat /\ at \in Nat
  BY <1>1, Indexes
<1>5. CASE i = at
  BY <1>1, <1>2, <1>4, <1>5
<1>6. CASE i # at
  BY <1>1, <1>2, <1>3, <1>4, <1>6
<1> QED BY <1>5, <1>6

\* After the last interface all of them do.
LEMMA AttachLast ==
  ASSUME TypeOK, CallShape, Attachments, LoadAttach, ~(at + 1 < NItf), NEW i \in Itf
  PROVE  attached'[i] = md
<1>1. at \in Itf
  BY DEF CallShape, LoadAttach
<1>2. i < at + 1
  BY <1>1, SizeAssumption DEF Itf
<1> QED BY <1>2, AttachOne

LEMMA LoadMd ==
  ASSUME TypeOK, CallShape, MdInv, LoadStep
  PROVE  MdInv'
<1> USE Indexes DEF MdInv, Loading, CallShape, Goto, memory, kernel, history
<1>1. CASE LoadBegin
  BY <1>1 DEF LoadBegin, TypeOK, MapsInUse, Attachments, MdJumps
<1>2. CASE LoadMain
  <2>1. MapsInUse' 
    BY <1>2 DEF LoadMain, Hold, MapsInUse, TypeOK
  <2>2. Attachments' /\ MdJumps'
    BY <1>2 DEF LoadMain, Attachments, MdJumps, TypeOK
  <2> QED BY <2>1, <2>2
<1>3. CASE LoadMainFails \/ LoadStageFails \/ LoadInitFails \/ LoadAttachFails
  BY <1>3 DEF LoadMainFails, LoadStageFails, LoadInitFails, LoadAttachFails, Abandon,
     TypeOK, MapsInUse, Attachments, MdJumps
<1>4. CASE LoadStage
  <2>1. MapsInUse'
    BY <1>4 DEF LoadStage, Hold, MapsInUse, TypeOK
  <2>2. Attachments' /\ MdJumps'
    BY <1>4 DEF LoadStage, Attachments, MdJumps, TypeOK
  <2> QED BY <2>1, <2>2
<1>5. CASE LoadInit
  <2>1. md \in Load /\ jmp'[md] = FullTable
    BY <1>5 DEF LoadInit, TypeOK
  <2>2. MdJumps'
    BY <1>5, <2>1 DEF LoadInit, MdJumps, FullTable
  <2>3. MapsInUse'
    BY <1>5 DEF LoadInit, MapsInUse
  <2>4. phase' = "attach" /\ at' = 0 /\ UNCHANGED <<attached, md, loads>>
    BY <1>5 DEF LoadInit
  <2>5. \A i \in Itf : ~(i < 0)
    OBVIOUS
  <2>6. Attachments'
    BY <1>5, <2>4, <2>5 DEF LoadInit, Attachments
  <2> QED BY <2>2, <2>3, <2>6
<1>6. CASE LoadAttach
  <2>1. MapsInUse' /\ MdJumps'
    BY <1>6 DEF LoadAttach, MapsInUse, MdJumps, TypeOK
  <2>2. md # 0 /\ at \in Itf /\ UNCHANGED <<md, loads>>
    BY <1>6 DEF LoadAttach
  <2>3. CASE at + 1 < NItf
    <3>1. phase' = "attach" /\ at' = at + 1
      BY <1>6, <2>3 DEF LoadAttach
    <3> QED BY <1>6, <2>1, <2>2, <3>1, AttachOne DEF Attachments
  <2>4. CASE ~(at + 1 < NItf)
    <3>1. phase' = "idle"
      BY <1>6, <2>4 DEF LoadAttach
    <3> QED BY <1>6, <2>1, <2>2, <2>4, <3>1, AttachOne, AttachLast DEF Attachments
  <2> QED BY <2>3, <2>4
<1>7. CASE LoadInfoFails
  BY <1>7 DEF LoadInfoFails, MapsInUse, Attachments, MdJumps, TypeOK
<1> QED BY <1>1, <1>2, <1>3, <1>4, <1>5, <1>6, <1>7 DEF LoadStep

LEMMA UnloadMd ==
  ASSUME TypeOK, CallShape, MdInv, UnloadStep
  PROVE  MdInv'
<1> USE Indexes DEF MdInv, Loading, CallShape, Goto, memory, kernel, history
<1>1. CASE UnloadBegin \/ UnloadQueryFails \/ UnloadReattachFails
  BY <1>1 DEF UnloadBegin, UnloadQueryFails, UnloadReattachFails,
     MapsInUse, Attachments, MdJumps, TypeOK
<1>2. CASE UnloadDetach
  BY <1>2 DEF UnloadDetach, MapsInUse, Attachments, MdJumps, TypeOK
<1>3. CASE UnloadReattach
  BY <1>3 DEF UnloadReattach, UnloadNext, MapsInUse, Attachments, MdJumps, TypeOK
<1>4. CASE UnloadRelease
  BY <1>4 DEF UnloadRelease, MapsInUse, Attachments, MdJumps, TypeOK
<1> QED BY <1>1, <1>2, <1>3, <1>4 DEF UnloadStep

LEMMA StageMd ==
  ASSUME TypeOK, CallShape, MdInv, StageStep
  PROVE  MdInv'
<1> USE Indexes DEF MdInv, Loading, CallShape, memory, call, history
<1>1. PICK s \in Stage : EbpfLoad(s) \/ EbpfLoadFails(s) \/ EbpfUnload(s)
  BY DEF StageStep
<1>2. md \in Load /\ phase = "idle" /\ <<md, "main", 0>> \in objs
  BY <1>1 DEF EbpfLoad, EbpfLoadFails, EbpfUnload, TypeOK, MapsInUse
<1>3. <<md, "main", 0>> # <<md, "stage", s>>
  OBVIOUS
<1>4. CASE EbpfLoad(s) \/ EbpfUnload(s)
  BY <1>2, <1>3, <1>4 DEF EbpfLoad, EbpfUnload, TypeOK, MapsInUse, Attachments, MdJumps
<1>5. CASE EbpfLoadFails(s)
  <2>1. PICK new \in SUBSET {<<md, "stage", s>>} :
          Hold((objs \ {<<md, "stage", s>>}) \cup new, pins)
    BY <1>5 DEF EbpfLoadFails
  <2>2. <<md, "main", 0>> \in (objs \ {<<md, "stage", s>>}) \cup new
    BY <1>2, <1>3
  <2>3. jmp'[md] = jmp[md]
    BY <1>2, <2>1, <2>2, HoldKeeps, MainUses
  <2>4. <<md, "main", 0>> \in objs'
    BY <2>1, <2>2 DEF Hold
  <2> QED BY <1>5, <2>3, <2>4 DEF EbpfLoadFails, MapsInUse, Attachments, MdJumps
<1> QED BY <1>1, <1>4, <1>5

\* Calls on the maps leave everything else alone.
LEMMA MapFrame ==
  ASSUME MapStep
  PROVE  /\ UNCHANGED <<objs, pins, attached, jmp, md, table, phase, at, loads>>
         /\ phase = "idle" /\ table # 0
BY DEF MapStep, UpdateEndpoints, UpdateFails, DeleteEndpoint, UpdateDroplet, memory, call

LEMMA MdStep == TypeOK /\ CallShape /\ MdInv /\ [Next]_vars => MdInv'
<1> SUFFICES ASSUME TypeOK, CallShape, MdInv, [Next]_vars PROVE MdInv'
  OBVIOUS
<1>1. CASE UNCHANGED vars
  BY <1>1, Unchanged DEF MdInv, MapsInUse, Attachments, MdJumps, Loading,
     kernel, memory, call, history
<1>2. CASE MapStep
  BY <1>2, MapFrame DEF MdInv, MapsInUse, Attachments, MdJumps, Loading
<1>3. CASE Stop \/ Start
  BY <1>3 DEF Stop, Start, Goto, MdInv, MapsInUse, Attachments, MdJumps, Loading,
     CallShape, memory, history
<1> QED BY <1>1, <1>2, <1>3, LoadMd, UnloadMd, StageMd DEF Next

LEMMA MdAlways == Spec => []MdInv
BY TypeCorrect, MdInit, MdStep, PTL DEF Spec

(***************************************************************************)
(* A load that is believed to be there is there.                           *)
(***************************************************************************)
LEMMA DetachedStep ==
  ASSUME TypeOK, CallShape, MdInv, OneDetached, "reattach" \notin Fails, [Next]_vars
  PROVE  OneDetached'
<1> USE DEF OneDetached, Loading, CallShape, Goto
<1>1. CASE UNCHANGED vars \/ MapStep
  BY <1>1, Unchanged, MapFrame DEF kernel, memory, call
<1>2. CASE LoadStep
  <2>1. CASE LoadAttach
    <3>1. CASE at + 1 < NItf
      BY <2>1, <3>1 DEF LoadAttach
    <3>2. CASE ~(at + 1 < NItf)
      BY <2>1, <3>2, AttachLast DEF LoadAttach, MdInv, memory
    <3> QED BY <3>1, <3>2
  <2>2. CASE ~LoadAttach
    BY <1>2, <2>2 DEF LoadStep, LoadBegin, LoadMain, LoadMainFails, LoadStage,
       LoadStageFails, LoadInit, LoadInitFails, LoadAttachFails, LoadInfoFails, Abandon
  <2> QED BY <2>1, <2>2
<1>3. CASE UnloadStep
  <2>1. CASE UnloadBegin \/ UnloadQueryFails \/ UnloadReattachFails \/ UnloadRelease
    BY <2>1 DEF UnloadBegin, UnloadQueryFails, UnloadReattachFails, UnloadRelease,
       kernel, memory
  <2>2. CASE UnloadDetach
    BY <2>2 DEF UnloadDetach, TypeOK, memory
  <2>3. CASE UnloadReattach
    BY <2>3 DEF UnloadReattach, UnloadNext, TypeOK, memory
  <2> QED BY <1>3, <2>1, <2>2, <2>3 DEF UnloadStep
<1>4. CASE StageStep
  BY <1>4 DEF StageStep, EbpfLoad, EbpfLoadFails, EbpfUnload, memory, call
<1>5. CASE Stop \/ Start
  BY <1>5 DEF Stop, Start, memory
<1> QED BY <1>1, <1>2, <1>3, <1>4, <1>5 DEF Next

\* As long as attaching a program again does not fail, md set means that both
\* interfaces run its program, although loads and unloads may give up anywhere
\* else and the daemon may be restarted at any point.
THEOREM LoadedSafe ==
  ASSUME "reattach" \notin Fails
  PROVE  Spec => []LoadedServes
<1>1. Init => OneDetached
  BY DEF Init, OneDetached
<1>2. TypeOK /\ CallShape /\ MdInv /\ OneDetached /\ [Next]_vars => OneDetached'
  BY DetachedStep
<1>3. OneDetached => LoadedServes
  BY DEF OneDetached, LoadedServes, Loading
<1> QED BY <1>1, <1>2, <1>3, TypeCorrect, MdAlways, PTL DEF Spec

(***************************************************************************)
(* What runs finds its stages.                                             *)
(***************************************************************************)

\* A step that changes kernel objects only through Hold, and neither attaches
\* nor brings a load into use that is attached, keeps the jump tables filled.
LEMMA HoldJumps ==
  ASSUME TypeOK, JumpsFilled, NEW open, NEW pinned, Hold(open, pinned), attached' = attached,
         \A i \in Itf : attached[i] # 0 /\ Used(attached[i], open, pinned) =>
           Used(attached[i], objs, pins)
  PROVE  JumpsFilled'
<1> SUFFICES ASSUME NEW i \in Itf, attached'[i] # 0, Used(attached'[i], objs', pins'),
                    NEW s \in Stage
             PROVE  jmp'[attached'[i]][s] # "empty"
  BY DEF JumpsFilled
<1>1. attached[i] \in Load /\ attached[i] # 0 /\ Used(attached[i], open, pinned)
  BY Indexes DEF TypeOK, Hold
<1>2. jmp'[attached[i]] = jmp[attached[i]]
  BY <1>1, HoldKeeps
<1>3. jmp[attached[i]][s] # "empty"
  BY <1>1 DEF JumpsFilled
<1> QED BY <1>2, <1>3

LEMMA JumpsStep ==
  ASSUME TypeOK, CallShape, MdInv, JumpsFilled, [Next]_vars
  PROVE  JumpsFilled'
<1> USE Indexes
<1>1. CASE UNCHANGED vars \/ MapStep \/ LoadBegin \/ UnloadBegin \/ UnloadQueryFails
           \/ UnloadReattachFails \/ LoadStageFails \/ LoadInitFails \/ LoadAttachFails
  BY <1>1, Unchanged, MapFrame DEF JumpsFilled, LoadBegin, UnloadBegin, UnloadQueryFails,
     UnloadReattachFails, LoadStageFails, LoadInitFails, LoadAttachFails, Abandon, kernel
<1>2. CASE LoadMain \/ LoadMainFails \/ LoadStage
  <2>1. \A i \in Itf : attached[i] # md
    BY <1>2 DEF LoadMain, LoadMainFails, LoadStage, MdInv, Attachments, Loading
  <2>2. CASE LoadMain
    <3>1. Hold(objs \cup {<<md, "main", at>>}, Pinned) /\ attached' = attached
      BY <2>2 DEF LoadMain
    <3>2. \A i \in Itf : Used(attached[i], objs \cup {<<md, "main", at>>}, Pinned) =>
                          Used(attached[i], objs, pins)
      BY <2>1 DEF Used, Pinned
    <3> QED BY <3>1, <3>2, HoldJumps
  <2>3. CASE LoadMainFails
    <3>1. PICK p \in {pins, Pinned} : Hold(objs, p)
      BY <2>3 DEF LoadMainFails
    <3>2. attached' = attached
      BY <2>3 DEF LoadMainFails, Abandon
    <3>3. \A i \in Itf : Used(attached[i], objs, p) => Used(attached[i], objs, pins)
      BY <2>1 DEF Used, Pinned
    <3> QED BY <3>1, <3>2, <3>3, HoldJumps
  <2>4. CASE LoadStage
    <3>1. Hold(objs \cup {<<md, "stage", at>>}, pins) /\ attached' = attached
      BY <2>4 DEF LoadStage
    <3>2. \A i \in Itf : Used(attached[i], objs \cup {<<md, "stage", at>>}, pins) =>
                          Used(attached[i], objs, pins)
      BY <2>1 DEF Used
    <3> QED BY <3>1, <3>2, HoldJumps
  <2> QED BY <1>2, <2>2, <2>3, <2>4
<1>3. CASE LoadInit
  BY <1>3 DEF LoadInit, JumpsFilled, MdInv, Attachments, Loading, TypeOK
<1>4. CASE LoadAttach \/ LoadInfoFails \/ UnloadDetach \/ UnloadReattach
  <2>1. /\ UNCHANGED <<objs, pins, jmp>>
        /\ \A i \in Itf : attached'[i] \in {0, md, attached[i]}
        /\ \A s \in Stage : jmp[md][s] # "empty"
    BY <1>4 DEF LoadAttach, LoadInfoFails, UnloadDetach, UnloadReattach, TypeOK, CallShape,
       MdInv, MdJumps
  <2> QED BY <2>1 DEF JumpsFilled
<1>5. CASE UnloadRelease
  <2>1. /\ Hold({o \in objs : o[1] # md}, [pins EXCEPT !["shared"] = 0])
        /\ attached' = attached
    BY <1>5 DEF UnloadRelease
  <2>2. \A i \in Itf : attached[i] # 0 /\ Used(attached[i], {o \in objs : o[1] # md},
                                                [pins EXCEPT !["shared"] = 0]) =>
                        Used(attached[i], objs, pins)
    BY DEF Used, TypeOK
  <2> QED BY <2>1, <2>2, HoldJumps
<1>6. CASE StageStep
  <2>1. PICK s \in Stage : EbpfLoad(s) \/ EbpfLoadFails(s) \/ EbpfUnload(s)
    BY <1>6 DEF StageStep
  <2>2. attached' = attached /\ pins' = pins /\ md \in Load
    BY <2>1 DEF EbpfLoad, EbpfLoadFails, EbpfUnload, Hold, TypeOK
  <2>3. Used(md, objs, pins)
    BY <2>1, MainUses DEF MdInv, MapsInUse, EbpfLoad, EbpfLoadFails, EbpfUnload
  <2>4. <<md, "stage", s>>[1] = md
    OBVIOUS
  <2>5. CASE EbpfLoad(s) \/ EbpfUnload(s)
    <3>1. \A i \in Itf : Used(attached[i], objs', pins') => Used(attached[i], objs, pins)
      BY <2>2, <2>3, <2>4, <2>5 DEF EbpfLoad, EbpfUnload, Used
    <3>2. \A g \in Load, t \in Stage : jmp[g][t] # "empty" => jmp'[g][t] # "empty"
      BY <2>2, <2>5 DEF EbpfLoad, EbpfUnload, TypeOK
    <3>3. \A i \in Itf : attached[i] # 0 => attached[i] \in Load
      BY DEF TypeOK
    <3> QED BY <2>2, <3>1, <3>2, <3>3 DEF JumpsFilled
  <2>6. CASE EbpfLoadFails(s)
    <3>1. PICK new \in SUBSET {<<md, "stage", s>>} :
            Hold((objs \ {<<md, "stage", s>>}) \cup new, pins)
      BY <2>6 DEF EbpfLoadFails
    <3>2. \A i \in Itf : Used(attached[i], (objs \ {<<md, "stage", s>>}) \cup new, pins) =>
                          Used(attached[i], objs, pins)
      BY <2>3, <2>4 DEF Used
    <3> QED BY <2>2, <3>1, <3>2, HoldJumps
  <2> QED BY <2>1, <2>5, <2>6
<1>7. CASE Stop
  <2>1. Hold({}, pins) /\ attached' = attached
    BY <1>7 DEF Stop
  <2> QED BY <2>1, HoldJumps DEF Used
<1>8. CASE Start
  <2>1. Hold(objs, [p \in {"shared", "hook"} |-> 0]) /\ attached' = attached
    BY <1>8 DEF Start
  <2>2. \A i \in Itf : attached[i] # 0 /\ Used(attached[i], objs, [p \in {"shared", "hook"} |-> 0])
                        => Used(attached[i], objs, pins)
    BY DEF Used
  <2> QED BY <2>1, <2>2, HoldJumps
<1> QED BY <1>1, <1>2, <1>3, <1>4, <1>5, <1>6, <1>7, <1>8 DEF Next, LoadStep, UnloadStep

\* Whatever fails and whenever the daemon is killed, a program on an interface
\* whose maps are in use finds every stage that was not taken out on purpose.
THEOREM JumpsSafe == Spec => []JumpsFilled
<1>1. Init => JumpsFilled
  BY DEF Init, JumpsFilled
<1>2. TypeOK /\ CallShape /\ MdInv /\ JumpsFilled /\ [Next]_vars => JumpsFilled'
  BY JumpsStep
<1> QED BY <1>1, <1>2, TypeCorrect, MdAlways, PTL DEF Spec

(***************************************************************************)
(* What has been acknowledged is what is served.                           *)
(***************************************************************************)
AckInv == TableOfMd /\ AckedInMd

LEMMA AckInit == Init => AckInv
BY Indexes DEF Init, AckInv, TableOfMd, AckedInMd, NothingAcked, Reliable, MapKey

\* Only the calls on the maps write entries, and only into the table's load.
LEMMA EntriesFrame ==
  ASSUME TypeOK, LoadStep \/ UnloadStep \/ StageStep \/ Stop \/ Start
  PROVE  entries' = entries /\ (acked' = acked \/ acked' = NothingAcked)
BY DEF LoadStep, LoadBegin, LoadMain, LoadMainFails, LoadStage, LoadStageFails, LoadInit,
   LoadInitFails, LoadAttach, LoadAttachFails, LoadInfoFails, Abandon,
   UnloadStep, UnloadBegin, UnloadQueryFails, UnloadDetach, UnloadReattach,
   UnloadReattachFails, UnloadRelease,
   StageStep, EbpfLoad, EbpfLoadFails, EbpfUnload, Stop, Start, kernel, history

LEMMA TableStep ==
  ASSUME TypeOK, CallShape, MdInv, TableOfMd, [Next]_vars
  PROVE  TableOfMd'
<1> USE DEF TableOfMd, LoadCalls
<1>1. CASE UNCHANGED vars \/ MapStep
  BY <1>1, Unchanged, MapFrame DEF memory
<1>2. CASE LoadStep
  BY <1>2, Indexes DEF LoadStep, LoadBegin, LoadMain, LoadMainFails, LoadStage, LoadStageFails,
     LoadInit, LoadInitFails, LoadAttach, LoadAttachFails, LoadInfoFails, CallShape, TypeOK,
     memory
<1>3. CASE UnloadStep \/ StageStep \/ Stop \/ Start
  BY <1>3 DEF UnloadStep, UnloadBegin, UnloadQueryFails, UnloadDetach, UnloadReattach,
     UnloadReattachFails, UnloadRelease, StageStep, EbpfLoad, EbpfLoadFails, EbpfUnload,
     Stop, Start, memory
<1> QED BY <1>1, <1>2, <1>3 DEF Next

\* While anything is acknowledged md stays as it is, except where the daemon
\* forgets what it acknowledged.
LEMMA AckedFrame ==
  ASSUME TypeOK, CallShape, AckedInMd, LoadStep \/ UnloadStep \/ StageStep \/ Stop \/ Start,
         NEW k \in Reliable, acked'[k] # Unknown
  PROVE  acked[k] # Unknown /\ md' = md /\ ~Loading'
<1>1. k \in MapKey
  BY DEF Reliable, MapKey
<1>2. NothingAcked[k] = Unknown
  BY <1>1 DEF NothingAcked
<1>3. acked' = acked /\ acked[k] # Unknown
  BY <1>2, EntriesFrame
<1>4. md # 0 /\ ~Loading
  BY <1>3 DEF AckedInMd
<1>5. ~LoadStep
  BY <1>4 DEF Loading, LoadStep, LoadBegin, LoadMain, LoadMainFails, LoadStage, LoadStageFails,
     LoadInit, LoadInitFails, LoadAttach, LoadAttachFails, LoadInfoFails
<1>6. ~UnloadRelease /\ ~Stop
  BY <1>2, <1>3 DEF UnloadRelease, Stop
<1>7. CASE UnloadStep \/ StageStep
  BY <1>3, <1>4, <1>6, <1>7 DEF Loading, UnloadStep, UnloadBegin, UnloadQueryFails, UnloadDetach,
     UnloadReattach, UnloadNext, UnloadReattachFails, Goto,
     StageStep, EbpfLoad, EbpfLoadFails, EbpfUnload, memory, call
<1>8. CASE Start
  BY <1>3, <1>4, <1>8 DEF Start, Goto, Loading, memory
<1> QED BY <1>3, <1>5, <1>6, <1>7, <1>8

LEMMA AckedMap ==
  ASSUME TypeOK, CallShape, MdInv, TableOfMd, AckedInMd, MapStep
  PROVE  AckedInMd'
<1> SUFFICES ASSUME NEW k \in Reliable, acked'[k] # Unknown
             PROVE  md # 0 /\ ~Loading /\ entries'[md][k] = acked'[k]
  BY MapFrame DEF AckedInMd, Loading
<1> USE DEF Write, Ack
<1>1. k \in MapKey /\ (k \notin Itf => k \in Key /\ Fails \cap LoadCalls = {})
  BY DEF Reliable, MapKey
<1>2. ~Loading /\ phase = "idle" /\ table # 0
  BY MapFrame DEF Loading
<1>3. table \in Load
  BY <1>2, Indexes DEF TypeOK
<1>4. md # 0 => table = md
  BY <1>2 DEF MdInv, MapsInUse
<1>5. acked[k] # Unknown => md # 0 /\ entries[md][k] = acked[k]
  BY DEF AckedInMd
<1>6. k \in Key => k \notin Itf
  BY KeyAssumption
<1>7. k \in Key => md # 0
  BY <1>1, <1>2, <1>6 DEF TableOfMd
<1>8. ASSUME NEW S \in SUBSET Key, NEW batch \in [S -> Val], UpdateEndpoints(S, batch)
      PROVE  md # 0 /\ entries'[md][k] = acked'[k]
  BY <1>1, <1>3, <1>4, <1>5, <1>7, <1>8 DEF UpdateEndpoints, TypeOK
<1>9. ASSUME NEW S \in SUBSET Key, NEW batch \in [S -> Val], NEW done \in SUBSET S,
             UpdateFails(S, done, batch)
      PROVE  md # 0 /\ entries'[md][k] = acked'[k]
  BY <1>1, <1>3, <1>4, <1>5, <1>7, <1>9 DEF UpdateFails, NothingAcked, TypeOK
<1>10. ASSUME NEW j \in Key, DeleteEndpoint(j)
       PROVE  md # 0 /\ entries'[md][k] = acked'[k]
  BY <1>1, <1>3, <1>4, <1>5, <1>7, <1>10 DEF DeleteEndpoint, TypeOK
<1>11. ASSUME NEW i \in Itf, NEW v \in Val, UpdateDroplet(i, v)
       PROVE  md # 0 /\ entries'[md][k] = acked'[k]
  BY <1>1, <1>3, <1>4, <1>5, <1>11 DEF UpdateDroplet, TypeOK
<1> QED BY <1>2, <1>8, <1>9, <1>10, <1>11 DEF MapStep

LEMMA AckStep == TypeOK /\ CallShape /\ MdInv /\ AckInv /\ [Next]_vars => AckInv'
<1> SUFFICES ASSUME TypeOK, CallShape, MdInv, AckInv, [Next]_vars PROVE AckInv'
  OBVIOUS
<1>1. TableOfMd'
  BY TableStep DEF AckInv
<1>2. CASE UNCHANGED vars
  BY <1>1, <1>2, Unchanged DEF AckInv, AckedInMd, Loading, kernel, memory, call, history
<1>3. CASE MapStep
  BY <1>1, <1>3, AckedMap DEF AckInv
<1>4. CASE LoadStep \/ UnloadStep \/ StageStep \/ Stop \/ Start
  <2>1. AckedInMd
    BY DEF AckInv
  <2>2. ASSUME NEW k \in Reliable, acked'[k] # Unknown
        PROVE  md' # 0 /\ ~Loading' /\ entries'[md'][k] = acked'[k]
    <3>1. acked[k] # Unknown /\ md' = md /\ ~Loading'
      BY <1>4, <2>1, <2>2, AckedFrame
    <3>2. md # 0 /\ entries[md][k] = acked[k]
      BY <2>1, <3>1 DEF AckedInMd
    <3>3. entries' = entries /\ (acked' = acked \/ acked' = NothingAcked)
      BY <1>4, EntriesFrame
    <3>4. NothingAcked[k] = Unknown
      BY DEF NothingAcked, Reliable, MapKey
    <3> QED BY <2>2, <3>1, <3>2, <3>3, <3>4
  <2> QED BY <1>1, <2>2 DEF AckInv, AckedInMd
<1> QED BY <1>2, <1>3, <1>4 DEF Next

LEMMA AckAlways == Spec => []AckInv
BY TypeCorrect, MdAlways, AckInit, AckStep, PTL DEF Spec

LEMMA Served ==
  ASSUME TypeOK, MdInv, AckInv, NEW k \in Reliable, NEW i \in Itf,
         acked[k] # Unknown, attached[i] # 0
  PROVE  entries[attached[i]][k] = acked[k]
<1>1. md # 0 /\ ~Loading /\ entries[md][k] = acked[k]
  BY DEF AckInv, AckedInMd
<1>2. attached[i] = md
  BY <1>1 DEF MdInv, Attachments
<1> QED BY <1>1, <1>2

\* An acknowledged entrance list is in use on its interface, whatever fails.
THEOREM DropletsSafe == Spec => []DropletServed
<1>1. TypeOK /\ MdInv /\ AckInv => DropletServed
  BY Served DEF DropletServed, Reliable
<1> QED BY <1>1, TypeCorrect, MdAlways, AckAlways, PTL

\* If loads do not fail, an acknowledged endpoint is known to every program that
\* runs, although updates, stages and unloads may fail.
THEOREM EndpointsSafe ==
  ASSUME Fails \cap LoadCalls = {}
  PROVE  Spec => []EndpointsServed
<1>1. Key \subseteq Reliable
  BY DEF Reliable
<1>2. TypeOK /\ MdInv /\ AckInv => EndpointsServed
  BY <1>1, Served DEF EndpointsServed
<1> QED BY <1>2, TypeCorrect, MdAlways, AckAlways, PTL

(***************************************************************************)
(* The pins.                                                               *)
(***************************************************************************)

\* Without failing loads a pin is there exactly while its load is described by
\* md; a daemon that was killed leaves its pins until it starts again.
PinsOfMd ==
  /\ phase = "main" => pins["shared"] = IF at = 0 THEN 0 ELSE md
  /\ phase # "main" /\ md # 0 => pins["shared"] = md
  /\ phase \notin {"main", "down"} /\ md = 0 => pins["shared"] = 0

LEMMA PinsStep ==
  ASSUME Fails \cap LoadCalls = {}, TypeOK, CallShape, PinsOfMd, [Next]_vars
  PROVE  PinsOfMd'
<1> USE Indexes DEF PinsOfMd, LoadCalls, CallShape, Goto, Hold
<1>1. CASE UNCHANGED vars \/ MapStep
  BY <1>1, Unchanged, MapFrame DEF kernel, memory, call
<1>2. CASE LoadBegin
  BY <1>2 DEF LoadBegin, TypeOK, kernel
<1>3. CASE LoadMain
  <2>1. pins'["shared"] = md /\ md # 0 /\ md' = md
    BY <1>3 DEF LoadMain, Pinned, TypeOK
  <2>2. phase' = "main" => at' # 0
    BY <1>3 DEF LoadMain, TypeOK
  <2> QED BY <1>3, <2>1, <2>2 DEF LoadMain
<1>4. CASE LoadStage \/ LoadInit \/ LoadAttach
  BY <1>4 DEF LoadStage, LoadInit, LoadAttach, memory
<1>5. CASE LoadMainFails \/ LoadStageFails \/ LoadInitFails \/ LoadAttachFails \/ LoadInfoFails
  BY <1>5 DEF LoadMainFails, LoadStageFails, LoadInitFails, LoadAttachFails, LoadInfoFails
<1>6. CASE UnloadBegin \/ UnloadQueryFails \/ UnloadDetach \/ UnloadReattach
           \/ UnloadReattachFails
  BY <1>6 DEF UnloadBegin, UnloadQueryFails, UnloadDetach, UnloadReattach, UnloadNext,
     UnloadReattachFails, kernel, memory
<1>7. CASE UnloadRelease
  BY <1>7 DEF UnloadRelease, TypeOK
<1>8. CASE StageStep
  BY <1>8 DEF StageStep, EbpfLoad, EbpfLoadFails, EbpfUnload, memory, call
<1>9. CASE Stop \/ Start
  BY <1>9 DEF Stop, Start, memory
<1> QED BY <1>1, <1>2, <1>3, <1>4, <1>5, <1>6, <1>7, <1>8, <1>9 DEF Next, LoadStep, UnloadStep

\* If loads do not fail, what is pinned are the maps in use, after any number of
\* unloads that gave up half way and restarts at any point.
THEOREM PinsSafe ==
  ASSUME Fails \cap LoadCalls = {}
  PROVE  Spec => []PinsCurrent
<1>1. Init => PinsOfMd
  BY Indexes DEF Init, PinsOfMd
<1>2. TypeOK /\ CallShape /\ PinsOfMd /\ [Next]_vars => PinsOfMd'
  BY PinsStep
<1>3. PinsOfMd => PinsCurrent
  BY DEF PinsOfMd, PinsCurrent
<1> QED BY <1>1, <1>2, <1>3, TypeCorrect, PTL DEF Spec
=============================================================================
