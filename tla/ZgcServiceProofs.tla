-------------------------- MODULE ZgcServiceProofs --------------------------
(***************************************************************************)
(* Theorems about what the droplets of ZgcDroplets agree with: the copies  *)
(* of the operator, the rows of the database, the range of the ZGC, the    *)
(* entrances of the daemons, and the arithmetic of the shares.             *)
(***************************************************************************)
EXTENDS ZgcDropletsProofs, FiniteSetTheorems

(***************************************************************************)
(* The operator's patch changes no IPs.                                    *)
(***************************************************************************)
LEMMA PatchStep ==
  ASSUME SettledInv, [Next]_vars, NEW d \in Node, handler[d].running,
         ~handler'[d].running
  PROVE  droplets'[d].ip = droplets[d].ip
<1> USE DEF SettledInv, Sharing, kube, oper, db, memory, plane, history
<1>1. ASSUME NEW e \in Node, FinishProvision(e)
      PROVE  droplets'[d].ip = droplets[d].ip
  BY <1>1 DEF FinishProvision, Patched, HandlerCurrent, TypeOK
<1>2. ASSUME NEW e \in Node, StartProvision(e)
      PROVE  FALSE
  BY <1>2 DEF StartProvision, TypeOK
<1>3. CASE OperatorCrash
  BY <1>3 DEF OperatorCrash
<1>4. UNCHANGED handler \/ OperatorCrash
      \/ (\E e \in Node : FinishProvision(e) \/ StartProvision(e))
  BY DEF Next, ManagerStep, OperatorStep, vars, PostFirst, PostTooFew,
         PostTakes, BeginPost, PostNoZgc, PostZgc, BeginDelete, GwDelete,
         AbortNoRow, GwAdd, PickReceiver, Replace, ReplaceRefused, Push, Create,
         CreateRefused, PushNew, Commit, Remove, RemoveRefused, Unload, Finalize,
         ManagerCrash, RequestFails
<1> QED BY <1>1, <1>2, <1>3, <1>4

\* When clients wait for the operator, its patch, which writes the whole spec
\* out of the copy its handler was given, never takes back or brings back an IP.
THEOREM PatchesKeepIps == ASSUME Settled PROVE Spec => PatchKeepsIps
<1>1. SettledInv /\ [Next]_vars
        => [\A d \in Node : handler[d].running /\ ~handler'[d].running =>
              droplets'[d].ip = droplets[d].ip]_vars
  BY PatchStep
<1> QED BY <1>1, SettledSafe, PTL DEF Spec, PatchKeepsIps

(***************************************************************************)
(* When nodes are only POSTed.                                             *)
(***************************************************************************)

\* Without DELETEs a droplet that is there stays.
NothingDeleted ==
  /\ req.op = "post"
  /\ \A d \in Node : droplets[d].state # "Deleting"
  /\ Pending \subseteq Listed

LEMMA NothingDeletedInit == Init => NothingDeleted
BY DEF Init, NothingDeleted, Absent, NoRequest, Pending

LEMMA NothingDeletedStep ==
  ASSUME TypeOK, RequestShape, NothingDeleted, "delete" \notin Ops, [Next]_vars
  PROVE  NothingDeleted'
<1> USE DEF NothingDeleted, kube, oper, db, memory, plane, history
<1>0. Pending \subseteq Node /\ Listed \subseteq Node
  BY DEF Pending, RequestShape, TypeOK, Request, Listed
<1>1. ASSUME NEW n \in Node, PostFirst(n) \/ PostTooFew(n) \/ PostTakes(n)
      PROVE  NothingDeleted'
  <2>1. UNCHANGED droplets /\ req'.op = "post" /\ Pending' \subseteq Listed
    <3>1. CASE PostFirst(n) \/ PostTooFew(n)
      BY <3>1 DEF PostFirst, PostTooFew, BeginPost, Pending
    <3>2. CASE PostTakes(n)
      <4>1. PICK body, new : BeginPost(n, Givers, body, new, "pick")
        BY <3>2 DEF PostTakes
      <4> QED BY <4>1 DEF BeginPost, Pending, Givers
    <3> QED BY <1>1, <3>1, <3>2
  <2> QED BY <2>1 DEF Listed
<1>2. ASSUME UNCHANGED droplets,
             req' = NoRequest \/ (req'.op = req.op /\ Pending' \subseteq Pending)
      PROVE  NothingDeleted'
  BY <1>2 DEF NoRequest, Pending, Listed
<1>3. CASE (\E n \in Node : PostNoZgc(n)) \/ PostZgc \/ OperatorCrash \/ UNCHANGED vars
  BY <1>3, <1>2 DEF PostNoZgc, PostZgc, OperatorCrash, vars, Pending
<1>4. CASE \/ \E d \in Node : AbortNoRow(d)
           \/ Commit \/ Unload \/ ManagerCrash \/ RequestFails
  BY <1>4, <1>2 DEF AbortNoRow, Commit, Unload, ManagerCrash, RequestFails
<1>5. CASE (\E d \in Node : GwDelete(d)) \/ GwAdd \/ ReplaceRefused \/ Push
           \/ CreateRefused \/ PushNew
  <2>1. UNCHANGED droplets /\ req'.op = req.op
    BY <1>5 DEF GwDelete, GwAdd, ReplaceRefused, Push, CreateRefused, PushNew,
                TypeOK, Request
  <2>2. Pending' \subseteq Pending
    <3>1. ASSUME NEW d \in Node, GwDelete(d)
          PROVE  req.phase = "pick" /\ req'.phase = "gwAdd" /\ req'.cur = d
                 /\ req'.todo = req.todo \ {d} /\ d \in req.todo
      BY <3>1 DEF GwDelete, TypeOK, Request
    <3>2. ASSUME GwAdd \/ ReplaceRefused \/ Push \/ CreateRefused \/ PushNew
          PROVE  /\ req'.cur = req.cur /\ req'.todo = req.todo
                 /\ req'.phase = "replace" => req.phase = "gwAdd"
                 /\ req'.phase # "gwAdd"
      BY <3>2 DEF GwAdd, ReplaceRefused, Push, CreateRefused, PushNew, TypeOK, Request
    <3> QED BY <1>5, <3>1, <3>2 DEF Pending
  <2> QED BY <2>1, <2>2, <1>2
<1>6. /\ ~Remove /\ ~RemoveRefused
      /\ \A d \in Node : ~(PickReceiver(d) \/ Finalize(d) \/ BeginDelete(d))
  BY DEF PickReceiver, Remove, RemoveRefused, Finalize, BeginDelete, RequestShape
<1>7. ASSUME NEW c \in Node, \A d \in Node \ {c} : droplets'[d] = droplets[d],
             droplets'[c].state \notin {"Absent", "Deleting"},
             req'.op = req.op, Pending' \subseteq Pending
      PROVE  NothingDeleted'
  BY <1>0, <1>7 DEF Listed
<1>8. CASE Replace
  <2>1. req.cur \in Pending /\ req.cur \in Node
    BY <1>8, <1>0 DEF Replace, Pending
  <2>2. Written(req.cur).state \notin {"Absent", "Deleting"}
    BY <2>1 DEF Written, Listed, TypeOK, Request, Body
  <2>3. Pending' \subseteq Pending
    BY <1>8 DEF Replace, Pending, TypeOK, Request
  <2>4. /\ \A d \in Node \ {req.cur} : droplets'[d] = droplets[d]
        /\ droplets'[req.cur] = Written(req.cur) /\ req'.op = req.op
    BY <1>8, <2>1 DEF Replace, TypeOK, Request
  <2> QED BY <2>1, <2>2, <2>3, <2>4, <1>7
<1>9. CASE Create
  <2>1. PICK n \in Node : n = req.node
    BY <1>9 DEF Create, AfterUpdates, RequestShape
  <2>2. Pending' \subseteq Pending
    BY <1>9 DEF Create, Pending, TypeOK, Request
  <2>3. /\ \A d \in Node \ {n} : droplets'[d] = droplets[d]
        /\ droplets'[n].state = "Init" /\ req'.op = req.op
    BY <1>9, <2>1 DEF Create, TypeOK, Request
  <2> QED BY <2>1, <2>2, <2>3, <1>7
<1>10. ASSUME NEW d \in Node, StartProvision(d) \/ FinishProvision(d)
       PROVE  NothingDeleted'
  <2>1. UNCHANGED req
    BY <1>10 DEF StartProvision, FinishProvision
  <2>2. Pending' = Pending
    BY <2>1 DEF Pending
  <2>3. /\ \A e \in Node \ {d} : droplets'[e] = droplets[e]
        /\ droplets'[d] = droplets[d] \/ droplets'[d] = Patched(d)
    BY <1>10 DEF StartProvision, FinishProvision, TypeOK
  <2>4. /\ Patched(d).state # "Deleting"
        /\ Patched(d).state = "Absent" <=> droplets[d].state = "Absent"
    BY DEF Patched
  <2>5. Listed' = Listed /\ \A e \in Node : droplets'[e].state # "Deleting"
    BY <2>3, <2>4 DEF Listed
  <2> QED BY <2>1, <2>2, <2>5
<1> QED
  BY <1>1, <1>3, <1>4, <1>5, <1>6, <1>8, <1>9, <1>10
     DEF Next, ManagerStep, OperatorStep

(***************************************************************************)
(* What the writes of the settled specification do to the droplets.        *)
(***************************************************************************)
LEMMA ReplaceMoves ==
  ASSUME TypeOK, RequestShape, Sharing, Replace
  PROVE  /\ req.phase = "replace" /\ req.cur \in Pending /\ req.cur \in Node
         /\ req'.phase = "push" /\ req'.op = req.op /\ req'.node = req.node
         /\ req'.cur = req.cur /\ req'.body = req.body /\ req'.new = req.new
         /\ Pending' = req.todo
         /\ UNCHANGED <<changed, handler, db, plane>>
         /\ droplets[req.cur].state = "Provisioned"
         /\ droplets'[req.cur] = [state |-> "Provisioned", ip |-> req.body[req.cur].ip]
         /\ \A d \in Node \ {req.cur} : droplets'[d] = droplets[d]
         /\ \A d \in Node : Live(d)' <=> Live(d)
         /\ Listed' = Listed
         /\ req.op = "post" => req.body[req.cur].ip \subseteq droplets[req.cur].ip
         /\ req.op = "delete" => droplets[req.cur].ip \subseteq req.body[req.cur].ip
         /\ kept' = kept /\ lost' = lost \ req.body[req.cur].ip
<1>1. /\ req.phase = "replace" /\ req.cur \in Pending /\ req.cur \in Node
      /\ req' = [req EXCEPT !.phase = "push"]
      /\ UNCHANGED <<changed, handler, db, plane>>
      /\ droplets' = [droplets EXCEPT ![req.cur] = Written(req.cur)]
      /\ kept' = kept /\ lost' = lost \ req.body[req.cur].ip
  BY DEF Replace, RequestShape, Pending, oper
<1>2. /\ req'.phase = "push" /\ req'.op = req.op /\ req'.node = req.node
      /\ req'.cur = req.cur /\ req'.body = req.body /\ req'.new = req.new
      /\ req'.todo = req.todo
  BY <1>1 DEF TypeOK, Request
<1>3. Pending' = req.todo
  BY <1>2 DEF Pending
<1>4. /\ droplets[req.cur].state = "Provisioned"
      /\ Written(req.cur) = [state |-> "Provisioned", ip |-> req.body[req.cur].ip]
  BY <1>1 DEF Sharing, PendingCurrent, Written
<1>5. /\ droplets'[req.cur] = [state |-> "Provisioned", ip |-> req.body[req.cur].ip]
      /\ \A d \in Node \ {req.cur} : droplets'[d] = droplets[d]
  BY <1>1, <1>4 DEF TypeOK
<1>6. \A d \in Node : Live(d)' <=> Live(d)
  BY <1>4, <1>5 DEF Live
<1>7. Listed' = Listed
  BY <1>4, <1>5 DEF Listed
<1>8. req.op = "post" => req.body[req.cur].ip \subseteq droplets[req.cur].ip
  BY <1>1, <1>4 DEF Sharing, NewUnowned, Moving, Live
<1>9. req.op = "delete" => droplets[req.cur].ip \subseteq req.body[req.cur].ip
  BY <1>1 DEF Sharing, Receiving
<1> QED BY <1>1, <1>2, <1>3, <1>4, <1>5, <1>6, <1>7, <1>8, <1>9

LEMMA OperatorMoves ==
  ASSUME TypeOK, Sharing, NEW d \in Node, OperatorStep(d)
  PROVE  /\ UNCHANGED <<req, db, plane, history>> /\ Pending' = Pending
         /\ \A e \in Node : /\ Live(e)' <=> Live(e)
                            /\ Live(e) => droplets'[e].ip = droplets[e].ip
         /\ Listed' \subseteq Listed
<1>1. UNCHANGED <<req, db, plane, history>>
  BY DEF OperatorStep, StartProvision, FinishProvision, Finalize
<1>2. Pending' = Pending
  BY <1>1 DEF Pending
<1>3. CASE StartProvision(d)
  BY <1>1, <1>2, <1>3 DEF StartProvision, kube, Live, Listed
<1>4. CASE FinishProvision(d) \/ Finalize(d)
  <2>1. /\ \A e \in Node \ {d} : droplets'[e] = droplets[e]
        /\ \/ droplets[d].state = "Init" /\ droplets'[d].state = "Provisioned"
              /\ droplets'[d].ip = droplets[d].ip
           \/ droplets[d].state = "Deleting" /\ droplets'[d].state = "Absent"
    BY <1>4 DEF FinishProvision, Finalize, Patched, Absent, Sharing, HandlerCurrent, TypeOK
  <2> QED BY <1>1, <1>2, <2>1 DEF Live, Listed
<1> QED BY <1>3, <1>4 DEF OperatorStep

LEMMA CreateMoves ==
  ASSUME TypeOK, RequestShape, Create
  PROVE  /\ req.node \in Node /\ req.op = "post" /\ Pending = {} /\ Pending' = {}
         /\ req.phase \in Moving \ {"gwAdd", "replace", "push"}
         /\ droplets[req.node].state = "Absent"
         /\ droplets'[req.node] = [state |-> "Init", ip |-> req.new]
         /\ \A d \in Node \ {req.node} : droplets'[d] = droplets[d]
         /\ Listed' = Listed \cup {req.node}
         /\ UNCHANGED <<oper, db, plane>>
         /\ req'.phase = "pushNew" /\ req'.op = "post" /\ req'.node = req.node
         /\ req'.new = req.new
         /\ kept' = kept /\ lost' = lost \ req.new
<1>1. /\ req.node \in Node /\ req.op = "post" /\ Pending = {} /\ req.todo = {}
      /\ req.phase \in Moving \ {"gwAdd", "replace", "push"}
      /\ droplets[req.node].state = "Absent"
  BY DEF Create, AfterUpdates, RequestShape, Moving, Pending, TypeOK, Request
<1>2. /\ droplets'[req.node] = [state |-> "Init", ip |-> req.new]
      /\ \A d \in Node \ {req.node} : droplets'[d] = droplets[d]
      /\ UNCHANGED <<oper, db, plane>>
      /\ kept' = kept /\ lost' = lost \ req.new
  BY <1>1 DEF Create, TypeOK
<1>3. Listed' = Listed \cup {req.node}
  BY <1>1, <1>2 DEF Listed
<1>4. /\ req'.phase = "pushNew" /\ req'.op = "post" /\ req'.node = req.node
      /\ req'.new = req.new /\ Pending' = {}
  BY <1>1 DEF Create, Pending, TypeOK, Request
<1> QED BY <1>1, <1>2, <1>3, <1>4

LEMMA RemoveMoves ==
  ASSUME TypeOK, RequestShape, Sharing, Remove
  PROVE  /\ req.node \in Node /\ req.op = "delete" /\ req.phase = "remove"
         /\ droplets'[req.node].state = "Deleting"
         /\ \A d \in Node \ {req.node} : droplets'[d] = droplets[d]
         /\ Listed' = Listed
         /\ UNCHANGED <<oper, db, plane, history>>
         /\ req'.phase = "pick" /\ req'.op = "delete" /\ req'.node = req.node
         /\ req'.body = req.body /\ Pending' = Pending
<1>1. /\ req.phase = "remove" /\ req.op = "delete" /\ req.node \in Node
      /\ droplets[req.node].state = "Provisioned"
  BY DEF Remove, RequestShape, Sharing, Receiving
<1>2. /\ droplets'[req.node].state = "Deleting"
      /\ \A d \in Node \ {req.node} : droplets'[d] = droplets[d]
      /\ UNCHANGED <<oper, db, plane, history>>
  BY <1>1 DEF Remove, TypeOK
<1>3. Listed' = Listed
  BY <1>1, <1>2 DEF Listed
<1>4. /\ req'.phase = "pick" /\ req'.op = "delete" /\ req'.node = req.node
      /\ req'.body = req.body /\ Pending' = Pending
  BY <1>1 DEF Remove, Pending, TypeOK, Request
<1> QED BY <1>1, <1>2, <1>3, <1>4

\* A refused write changes neither the droplets nor what the daemons are told.
LEMMA RefusedMoves ==
  ASSUME TypeOK, RequestShape, ReplaceRefused \/ RemoveRefused \/ CreateRefused
  PROVE  /\ UNCHANGED <<kube, oper, db, memory, plane, requests, crashes>>
         /\ req'.op = req.op /\ req'.node = req.node /\ req'.cur = req.cur
         /\ req'.body = req.body /\ req'.new = req.new /\ req'.todo = req.todo
         /\ Pending' = req.todo
         /\ \/ /\ ReplaceRefused /\ req.phase = "replace" /\ req'.phase = "pick"
               /\ req.cur \in Node /\ Pending = req.todo \cup {req.cur}
               /\ kept' = kept \cup (droplets[req.cur].ip \ req.body[req.cur].ip)
               /\ lost' = lost \cup (req.body[req.cur].ip \ droplets[req.cur].ip)
               /\ UNCHANGED stranded
            \/ /\ RemoveRefused /\ req.phase = "remove" /\ req'.phase = "pick"
               /\ req.op = "delete" /\ req.node \in Node /\ Pending = req.todo
               /\ UNCHANGED lost /\ stranded' = stranded \cup {req.node}
            \/ /\ CreateRefused /\ req.phase \in {"create", "pick"} /\ req'.phase = "commit"
               /\ req.op = "post" /\ req.node \in Node
               /\ req.todo = {} /\ Pending = {} /\ Pending' = {}
               /\ UNCHANGED <<kept, stranded>> /\ lost' = lost \cup req.new
<1>1. /\ UNCHANGED <<kube, oper, db, memory, plane, requests, crashes>>
      /\ \E p \in {"pick", "commit"} : req' = [req EXCEPT !.phase = p]
  BY DEF ReplaceRefused, RemoveRefused, CreateRefused
<1>2. /\ req'.op = req.op /\ req'.node = req.node /\ req'.cur = req.cur
      /\ req'.body = req.body /\ req'.new = req.new /\ req'.todo = req.todo
      /\ req'.phase \in {"pick", "commit"}
  BY <1>1 DEF TypeOK, Request
<1>3. Pending' = req.todo
  BY <1>2 DEF Pending
<1>4. CASE ReplaceRefused
  BY <1>1, <1>2, <1>3, <1>4 DEF ReplaceRefused, RequestShape, Pending, TypeOK, Request
<1>5. CASE RemoveRefused
  BY <1>1, <1>2, <1>3, <1>5 DEF RemoveRefused, RequestShape, Pending, TypeOK, Request
<1>6. CASE CreateRefused
  BY <1>1, <1>2, <1>3, <1>6 DEF CreateRefused, AfterUpdates, RequestShape, Pending,
                                TypeOK, Request
<1> QED BY <1>4, <1>5, <1>6

\* A POST begins without touching anything but the request, the program of its
\* node and what the manager remembers.
LEMMA PostBegins ==
  ASSUME NEW n \in Node, PostFirst(n) \/ PostTooFew(n) \/ PostTakes(n)
  PROVE  /\ req.phase = "idle" /\ req'.op = "post" /\ req'.node = n
         /\ req'.phase \in {"pick", "create", "commit"}
         /\ Resubmit \/ n \notin nodeRows
         /\ Settled => Quiet
         /\ UNCHANGED <<droplets, db, entrances, untold, kept, lost>>
<1>1. PICK todo, body, new, phase :
        phase \in {"pick", "create", "commit"} /\ BeginPost(n, todo, body, new, phase)
  BY DEF PostFirst, PostTooFew, PostTakes
<1> QED BY <1>1 DEF BeginPost

(***************************************************************************)
(* Gw rows, when nodes are POSTed once and nothing crashes.                *)
(***************************************************************************)

\* A node has its row before any other request sees its droplet.
RowFirst ==
  \A n \in Listed :
     n \in nodeRows \/ (n = req.node /\ req.phase \in {"pushNew", "commit"})

\* The node being POSTed has no row yet.
RowNew == req.phase # "idle" /\ req.op = "post" => req.node \notin nodeRows

\* The rows of a giver are rewritten before its droplet is.
RowsCurrent ==
  /\ \A n \in Node \ nodeRows : gws[n] = {}
  /\ req.phase = "gwAdd" => gws[req.cur] = {}
  /\ req.phase = "replace" /\ req.op = "post" => gws[req.cur] \subseteq req.body[req.cur].ip

\* The droplet just created has the IPs its row is going to name.
NewCreated ==
  req.phase \in {"pushNew", "commit"} /\ Live(req.node) => droplets[req.node].ip = req.new

\* What GwRowsBacked says of the time before a crash.
Backed == \A n \in Node : Live(n) => gws[n] \subseteq droplets[n].ip

RowsInv == RowFirst /\ RowNew /\ RowsCurrent /\ NewCreated /\ Backed

\* Crashes are counted: when there was none yet, there was none before.
LEMMA CrashesCount ==
  ASSUME TypeOK, [Next]_vars
  PROVE  crashes' = 0 => crashes = 0
<1>1. CASE UNCHANGED crashes
  BY <1>1
<1>2. CASE ManagerCrash \/ RequestFails \/ OperatorCrash
  <2>1. crashes \in Nat /\ crashes' = crashes + 1
    BY <1>2 DEF ManagerCrash, RequestFails, OperatorCrash, TypeOK
  <2> QED BY <2>1
<1>3. UNCHANGED crashes \/ ManagerCrash \/ RequestFails \/ OperatorCrash
  BY DEF Next, vars, history, PostFirst, PostTooFew, PostTakes, BeginPost, PostNoZgc,
         BeginDelete, PostZgc, ManagerStep, GwDelete, AbortNoRow, PickReceiver, GwAdd,
         Replace, ReplaceRefused, Push, Create, CreateRefused, PushNew, Commit, Remove,
         RemoveRefused, Unload, OperatorStep, StartProvision, FinishProvision, Finalize
<1> QED BY <1>1, <1>2, <1>3

\* Without a crash nothing a request meets stops it: it goes on whatever is
\* refused.
LEMMA Unhindered ==
  ASSUME TypeOK, RequestShape, Sharing, RowFirst, crashes' = 0
  PROVE  /\ ~ManagerCrash /\ ~RequestFails /\ ~OperatorCrash
         /\ \A d \in Node : ~AbortNoRow(d)
<1>1. ~ManagerCrash /\ ~RequestFails /\ ~OperatorCrash
  <2>1. crashes \in Nat
    BY DEF TypeOK
  <2> QED BY <2>1 DEF ManagerCrash, RequestFails, OperatorCrash
<1>2. \A d \in Node : ~AbortNoRow(d)
  BY DEF AbortNoRow, RowFirst, Sharing, PendingCurrent, Pending, Listed
<1> QED BY <1>1, <1>2

LEMMA RowFirstInit == Init => RowFirst
BY DEF Init, RowFirst, Listed, Absent

LEMMA RowFirstStep ==
  ASSUME TypeOK, RequestShape, Sharing, RowFirst, Settled, crashes' = 0, [Next]_vars
  PROVE  RowFirst'
<1> USE DEF RowFirst, oper, db, plane
<1>1. ASSUME UNCHANGED nodeRows, Listed' \subseteq Listed,
             req.phase \in {"pushNew", "commit"} =>
               req'.phase \in {"pushNew", "commit"} /\ req'.node = req.node
      PROVE  RowFirst'
  BY <1>1
<1>2. UNCHANGED droplets => Listed' = Listed
  BY DEF Listed
<1>3. CASE \E n \in Node : PostFirst(n) \/ PostTooFew(n) \/ PostTakes(n)
  BY <1>1, <1>2, <1>3, PostBegins
<1>4. CASE \E n \in Node : BeginDelete(n) \/ PostNoZgc(n)
  BY <1>1, <1>2, <1>4 DEF BeginDelete, PostNoZgc, kube
<1>5. CASE PostZgc \/ Unload \/ UNCHANGED vars
  BY <1>1, <1>2, <1>5 DEF PostZgc, Unload, vars, kube
<1>6. CASE \E d \in Node : GwDelete(d) \/ PickReceiver(d)
  BY <1>1, <1>2, <1>6 DEF GwDelete, PickReceiver, kube
<1>7. CASE GwAdd \/ Push \/ PushNew
  <2>1. /\ UNCHANGED nodeRows /\ UNCHANGED droplets /\ req'.node = req.node
        /\ req.phase = "pushNew" => req'.phase = "commit"
        /\ req.phase # "commit"
    BY <1>7 DEF GwAdd, Push, PushNew, kube, TypeOK, Request
  <2> QED BY <1>1, <1>2, <2>1
<1>8. CASE Replace
  BY <1>1, <1>8, ReplaceMoves
<1>9. CASE Create
  <2>1. /\ Listed' = Listed \cup {req.node} /\ UNCHANGED nodeRows
        /\ req.phase \notin {"pushNew", "commit"}
        /\ req'.phase = "pushNew" /\ req'.node = req.node
    BY <1>9, CreateMoves DEF Moving
  <2> QED BY <2>1
<1>10. CASE ReplaceRefused \/ RemoveRefused \/ CreateRefused
  <2>1. UNCHANGED <<nodeRows, droplets>> /\ req.phase \notin {"pushNew", "commit"}
    BY <1>10, RefusedMoves DEF kube
  <2> QED BY <1>1, <1>2, <2>1
<1>11. CASE Commit
  <2>1. /\ UNCHANGED droplets /\ req.phase = "commit" /\ nodeRows' = nodeRows \cup {req.node}
    BY <1>11 DEF Commit, kube
  <2> QED BY <1>2, <2>1
<1>12. CASE Remove
  BY <1>1, <1>12, RemoveMoves
<1>13. CASE \E d \in Node : OperatorStep(d)
  BY <1>1, <1>13, OperatorMoves
<1> QED
  BY <1>3, <1>4, <1>5, <1>6, <1>7, <1>8, <1>9, <1>10, <1>11, <1>12, <1>13,
     Unhindered DEF Next, ManagerStep

LEMMA RowsInit == Init => RowsInv
BY DEF Init, RowsInv, RowFirst, RowNew, RowsCurrent, NewCreated, Backed, Listed,
       Live, Absent, NoRequest

LEMMA RowsStep ==
  ASSUME TypeOK, RequestShape, Sharing, RowsInv,
         Settled, ~Resubmit, crashes' = 0, [Next]_vars
  PROVE  RowsInv'
<1> USE DEF RowsInv, RowFirst, RowNew, RowsCurrent, NewCreated, Backed, oper, db, plane
<1>0. Listed \subseteq Node /\ \A d \in Node : Live(d) => d \in Listed
  BY DEF Listed, Live
<1>1. ASSUME NEW n \in Node, PostFirst(n) \/ PostTooFew(n) \/ PostTakes(n)
      PROVE  RowsInv'
  <2>1. /\ req.phase = "idle" /\ req'.op = "post" /\ req'.node = n /\ n \notin nodeRows
        /\ req'.phase \in {"pick", "create", "commit"}
        /\ UNCHANGED <<droplets, nodeRows, gws>>
    BY <1>1, PostBegins
  <2>2. ~Live(n)
    BY <2>1, <1>0
  <2> QED BY <2>1, <2>2 DEF Listed, Live
<1>2. ASSUME NEW n \in Node, BeginDelete(n)
      PROVE  RowsInv'
  <2>1. /\ req.phase = "idle" /\ req'.op = "delete" /\ req'.phase = "remove"
        /\ UNCHANGED <<droplets, nodeRows, gws>>
    BY <1>2 DEF BeginDelete, NoRequest
  <2> QED BY <2>1 DEF Listed, Live
<1>3. ASSUME UNCHANGED <<droplets, nodeRows, gws>>,
             \/ req' = NoRequest /\ req.phase \notin {"pushNew", "commit"}
             \/ /\ req'.op = req.op /\ req'.node = req.node
                /\ req'.cur = req.cur /\ req'.body = req.body /\ req'.new = req.new
                /\ req'.phase # "idle" => req.phase # "idle"
                /\ req'.phase \in {"pushNew", "commit"} <=> req.phase \in {"pushNew", "commit"}
                /\ req'.phase = "gwAdd" => req.phase = "gwAdd"
                /\ req'.phase = "replace" => req.phase = "replace"
             \/ req'.op = "delete" /\ req.op = "delete"
                /\ req'.phase = "replace" /\ req.phase = "pick"
      PROVE  RowsInv'
  <2>1. CASE req' = NoRequest
    BY <1>3, <2>1 DEF NoRequest, Listed, Live
  <2>2. CASE req' # NoRequest
    BY <1>3, <2>2 DEF Listed, Live
  <2> QED BY <2>1, <2>2
<1>4. CASE (\E n \in Node : PostNoZgc(n)) \/ PostZgc \/ UNCHANGED vars
  BY <1>4, <1>3 DEF PostNoZgc, PostZgc, vars, kube
<1>5. CASE Unload
  BY <1>5, <1>3 DEF Unload, kube
<1>6. CASE Push \/ PushNew
  <2>1. /\ UNCHANGED <<droplets, nodeRows, gws>>
        /\ req'.op = req.op /\ req'.node = req.node /\ req'.cur = req.cur
        /\ req'.body = req.body /\ req'.new = req.new
    BY <1>6 DEF Push, PushNew, kube, TypeOK, Request
  <2>2. \/ req.phase = "push" /\ req'.phase = "pick"
        \/ req.phase = "pushNew" /\ req'.phase = "commit"
    BY <1>6 DEF Push, PushNew, TypeOK, Request
  <2> QED BY <2>1, <2>2, <1>3
<1>7. ASSUME NEW d \in Node, PickReceiver(d)
      PROVE  RowsInv'
  <2>1. /\ UNCHANGED <<droplets, nodeRows, gws>> /\ req.phase = "pick"
        /\ req'.op = "delete" /\ req.op = "delete" /\ req'.phase = "replace"
    BY <1>7 DEF PickReceiver, kube, TypeOK, Request
  <2> QED BY <2>1, <1>3
<1>8. ASSUME NEW d \in Node, GwDelete(d)
      PROVE  RowsInv'
  <2>1. /\ UNCHANGED <<droplets, nodeRows>>
        /\ \A n \in Node \ {d} : gws'[n] = gws[n]
        /\ gws'[d] = {}
        /\ req'.phase = "gwAdd" /\ req.phase = "pick" /\ req.op = "post"
        /\ req'.cur = d /\ req'.node = req.node /\ req'.op = "post"
    BY <1>8 DEF GwDelete, kube, TypeOK, Request
  <2> QED BY <2>1 DEF Listed, Live
<1>9. CASE GwAdd
  <2>1. /\ UNCHANGED <<droplets, nodeRows>> /\ req.cur \in Node /\ req.cur \in Pending
        /\ \A n \in Node \ {req.cur} : gws'[n] = gws[n]
        /\ gws'[req.cur] = req.body[req.cur].ip
        /\ req'.phase = "replace" /\ req.phase = "gwAdd" /\ req.op = "post"
        /\ req'.cur = req.cur /\ req'.node = req.node /\ req'.op = "post"
        /\ req'.body = req.body
    BY <1>9 DEF GwAdd, kube, TypeOK, Request, RequestShape, Pending
  <2>2. droplets[req.cur].state = "Provisioned"
    BY <2>1 DEF Sharing, PendingCurrent
  <2>3. req.body[req.cur].ip \subseteq droplets[req.cur].ip /\ req.cur \in nodeRows
    BY <2>1, <2>2 DEF Sharing, NewUnowned, Moving, Live, Listed
  <2> QED BY <2>1, <2>3 DEF Listed, Live
<1>10. CASE Replace
  <2>1. /\ req.phase = "replace" /\ req.cur \in Node /\ req'.phase = "push"
        /\ req'.op = req.op /\ req'.node = req.node
        /\ UNCHANGED <<nodeRows, gws>>
        /\ Live(req.cur)
        /\ droplets'[req.cur].ip = req.body[req.cur].ip
        /\ \A d \in Node \ {req.cur} : droplets'[d] = droplets[d]
        /\ \A d \in Node : Live(d)' <=> Live(d)
        /\ Listed' = Listed
        /\ req.op = "delete" => droplets[req.cur].ip \subseteq req.body[req.cur].ip
    BY <1>10, ReplaceMoves DEF Live
  <2>2. gws[req.cur] \subseteq req.body[req.cur].ip
    BY <2>1 DEF TypeOK, Request
  <2> QED BY <2>1, <2>2
<1>11. CASE Create
  <2>1. /\ req.node \in Node /\ req.op = "post" /\ req.phase # "idle"
        /\ droplets'[req.node] = [state |-> "Init", ip |-> req.new]
        /\ \A d \in Node \ {req.node} : droplets'[d] = droplets[d]
        /\ Listed' = Listed \cup {req.node}
        /\ req.phase \notin {"pushNew", "commit"}
        /\ UNCHANGED <<nodeRows, gws>>
        /\ req'.phase = "pushNew" /\ req'.op = "post" /\ req'.node = req.node
        /\ req'.new = req.new
    BY <1>11, CreateMoves DEF Moving
  <2>2. gws[req.node] = {}
    BY <2>1
  <2>3. \A d \in Node \ {req.node} : Live(d)' <=> Live(d)
    BY <2>1 DEF Live
  <2> QED BY <2>1, <2>2, <2>3
<1>12. CASE Commit
  <2>1. /\ UNCHANGED droplets /\ req' = NoRequest /\ req.phase = "commit"
        /\ req.op = "post" /\ req.node \in Node
    BY <1>12 DEF Commit, kube, RequestShape
  <2>2. /\ nodeRows' = nodeRows \cup {req.node}
        /\ \A n \in Node \ {req.node} : gws'[n] = gws[n]
        /\ gws'[req.node] = req.new
    BY <1>12, <2>1 DEF Commit, TypeOK
  <2> QED BY <2>1, <2>2 DEF NoRequest, Listed, Live
<1>13. CASE Remove
  <2>1. /\ req.node \in Node /\ req.op = "delete" /\ req.phase = "remove"
        /\ droplets'[req.node].state = "Deleting"
        /\ \A d \in Node \ {req.node} : droplets'[d] = droplets[d]
        /\ Listed' = Listed /\ UNCHANGED <<nodeRows, gws>>
        /\ req'.phase = "pick" /\ req'.op = "delete"
    BY <1>13, RemoveMoves
  <2>2. \A d \in Node : Live(d)' => d # req.node /\ Live(d)
    BY <2>1 DEF Live
  <2> QED BY <2>1, <2>2
<1>14. ASSUME NEW d \in Node, OperatorStep(d)
       PROVE  RowsInv'
  <2>1. /\ UNCHANGED <<req, nodeRows, gws>>
        /\ \A e \in Node : /\ Live(e)' <=> Live(e)
                           /\ Live(e) => droplets'[e].ip = droplets[e].ip
        /\ Listed' \subseteq Listed
    BY <1>14, OperatorMoves
  <2>2. req.phase # "idle" => req.node \in Node
    BY DEF RequestShape
  <2> QED BY <2>1, <2>2
<1>15. CASE ReplaceRefused \/ RemoveRefused
  <2>1. /\ UNCHANGED <<droplets, nodeRows, gws>> /\ req'.phase = "pick"
        /\ req'.op = req.op /\ req'.node = req.node /\ req'.cur = req.cur
        /\ req'.body = req.body /\ req'.new = req.new
        /\ req.phase \in {"replace", "remove"}
    <3>1. req.phase \in {"replace", "remove"}
      BY <1>15 DEF ReplaceRefused, RemoveRefused
    <3> QED BY <3>1, <1>15, RefusedMoves DEF kube
  <2> QED BY <2>1, <1>3
<1>16. CASE CreateRefused
  <2>1. /\ UNCHANGED <<droplets, nodeRows, gws>> /\ req'.phase = "commit"
        /\ req'.op = "post" /\ req.op = "post" /\ req'.node = req.node
        /\ req.phase \in {"create", "pick"} /\ req.node \in Node
    <3>1. req.phase \in {"create", "pick"}
      BY <1>16 DEF CreateRefused, AfterUpdates
    <3> QED BY <3>1, <1>16, RefusedMoves DEF kube
  <2>2. req.node \notin Listed
    BY <2>1
  <2>3. ~Live(req.node)
    BY <2>1, <2>2, <1>0
  <2>4. Listed' = Listed /\ \A d \in Node : Live(d)' <=> Live(d)
    BY <2>1 DEF Listed, Live
  <2>5. ~Live(req.node)'
    BY <2>1, <2>3 DEF Live
  <2> QED BY <2>1, <2>2, <2>4, <2>5
<1> QED
  BY <1>1, <1>2, <1>4, <1>5, <1>6, <1>7, <1>8, <1>9, <1>10, <1>11, <1>12, <1>13,
     <1>14, <1>15, <1>16, Unhindered DEF Next, ManagerStep

LEMMA RowsKept ==
  ASSUME Settled, ~Resubmit
  PROVE  SettledInv /\ (crashes = 0 => RowsInv) /\ [Next]_vars
           => (crashes = 0 => RowsInv)'
<1> SUFFICES ASSUME SettledInv, crashes = 0 => RowsInv, [Next]_vars, crashes' = 0
             PROVE  RowsInv'
  OBVIOUS
<1>1. RowsInv
  BY CrashesCount DEF SettledInv
<1> QED BY <1>1, RowsStep DEF SettledInv

\* With nodes POSTed once and requests that start settled, until something
\* crashes, the Gw rows never name an IP that the droplet of their node does not
\* have, whether the giver's rows, its droplet or its daemon have been told yet.
THEOREM RowsBacked ==
  ASSUME Settled, ~Resubmit
  PROVE  Spec => []GwRowsBacked
<1>1. SettledInv /\ (crashes = 0 => RowsInv) /\ [Next]_vars
        => (crashes = 0 => RowsInv)'
  BY RowsKept
<1>2. (crashes = 0 => RowsInv) => GwRowsBacked
  BY DEF RowsInv, Backed, GwRowsBacked
<1> QED BY RowsInit, SettledSafe, <1>1, <1>2, PTL DEF Spec

(***************************************************************************)
(* No IP of the range is lost, until something crashes.                    *)
(***************************************************************************)

\* What a droplet will have once the request has written it.
Planned(d) == IF d \in Pending THEN req.body[d].ip ELSE droplets[d].ip

\* The droplets that outlast the request.
Staying(d) == Live(d) /\ ~(req.op = "delete" /\ d = req.node)

\* The IPs a POST has taken and not yet given.
Spare == IF req.op = "post" /\ req.phase \in Moving THEN req.new ELSE {}

Covering ==
  Listed # {} \/ req.phase # "idle" =>
    \A i \in IP \ lost :
      i \in Spare \/ \E d \in Node : Staying(d) /\ i \in Planned(d)

LEMMA CoveringInit == Init => Covering
BY DEF Init, Covering, Listed, Absent, NoRequest

LEMMA PostCovers ==
  ASSUME TypeOK, RequestShape, Covering, Settled, NEW n \in Node,
         PostFirst(n) \/ PostTooFew(n) \/ PostTakes(n)
  PROVE  Covering'
<1>1. /\ req.phase = "idle" /\ req'.op = "post" /\ UNCHANGED <<droplets, lost>> /\ Quiet
  BY PostBegins
<1>2. CASE PostFirst(n)
  <2>1. req'.phase = "create" /\ req'.new = IP
    BY <1>2 DEF PostFirst, BeginPost
  <2>2. Spare' = IP
    BY <1>1, <2>1 DEF Spare, Moving
  <2> QED BY <2>2 DEF Covering
<1>3. Listed # {} => \A i \in IP \ lost : \E d \in Node : Live(d) /\ i \in droplets[d].ip
  BY <1>1 DEF Covering, Spare, Moving, Staying, Planned, Pending, RequestShape
<1>4. \A d \in Node : Staying(d)' <=> Live(d)
  BY <1>1 DEF Staying, Live
<1>5. CASE PostTooFew(n)
  <2>1. Pending' = {}
    BY <1>5 DEF PostTooFew, BeginPost, Pending
  <2>2. \A d \in Node : Planned(d)' = droplets[d].ip
    BY <1>1, <2>1 DEF Planned
  <2>3. Listed # {}
    BY <1>5 DEF PostTooFew
  <2> QED BY <1>1, <1>3, <1>4, <2>2, <2>3 DEF Covering
<1>6. CASE PostTakes(n)
  <2>1. PICK left \in Leavings :
          BeginPost(n, Givers, Relisted(Givers, left),
                    UNION {droplets[d].ip \ left[d] : d \in Givers}, "pick")
    BY <1>6 DEF PostTakes
  <2>2. Givers \subseteq Node /\ Listed # {}
    BY <1>6 DEF Givers, Listed, PostTakes
  <2> DEFINE new == UNION {droplets[d].ip \ left[d] : d \in Givers}
             body == Relisted(Givers, left)
  <2>3. \A d \in Givers : body[d].ip = left[d]
    BY <2>2 DEF Relisted
  <2>4. \A d \in Givers, i \in IP : i \in droplets[d].ip => i \in new \/ i \in left[d]
    OBVIOUS
  <2> HIDE DEF new, body
  <2>5. /\ req'.phase = "pick" /\ req'.todo = Givers /\ req'.new = new /\ req'.body = body
    BY <2>1 DEF BeginPost, new, body
  <2>6. Spare' = new /\ Pending' = Givers
    BY <1>1, <2>5 DEF Spare, Moving, Pending
  <2>7. \A d \in Node : Planned(d)' = IF d \in Givers THEN left[d] ELSE droplets[d].ip
    BY <1>1, <2>3, <2>5, <2>6 DEF Planned
  <2> QED BY <1>1, <1>3, <1>4, <2>2, <2>4, <2>6, <2>7 DEF Covering
<1> QED BY <1>2, <1>5, <1>6

LEMMA DeleteCovers ==
  ASSUME TypeOK, RequestShape, Covering, Settled, NEW n \in Node, BeginDelete(n)
  PROVE  Covering'
<1>1. /\ req.phase = "idle" /\ UNCHANGED <<droplets, lost>> /\ Quiet /\ n \in Listed
  BY DEF BeginDelete
<1>2. PICK deal \in Deals(n, Listed \ {n}) :
        LET receivers == {d \in Listed \ {n} : deal[d] # {}} IN
        req' = [NoRequest EXCEPT
                  !.phase = "remove", !.op = "delete", !.node = n,
                  !.todo = receivers,
                  !.body = Relisted(receivers,
                             [d \in receivers |-> droplets[d].ip \cup deal[d]])]
  BY DEF BeginDelete
<1> DEFINE receivers == {d \in Listed \ {n} : deal[d] # {}}
           body == Relisted(receivers, [d \in receivers |-> droplets[d].ip \cup deal[d]])
<1>3. receivers \subseteq Listed \ {n} /\ Listed \subseteq Node
  BY DEF Listed
<1>4. \A i \in droplets[n].ip : \E d \in Listed \ {n} : i \in deal[d]
  BY DEF Deals, DealsOf
<1>5. \A i \in droplets[n].ip : \E d \in receivers : i \in deal[d]
  BY <1>4
<1>6. \A d \in receivers : body[d].ip = droplets[d].ip \cup deal[d]
  BY <1>3 DEF Relisted
<1> HIDE DEF receivers, body
<1>7. req' = [phase |-> "remove", op |-> "delete", node |-> n, todo |-> receivers,
              cur |-> None, body |-> body, new |-> {}]
  BY <1>2 DEF receivers, body, NoRequest
<1>8. Pending' = receivers
  BY <1>7 DEF Pending
<1>9. \A d \in Node : Planned(d)' =
        IF d \in receivers THEN droplets[d].ip \cup deal[d] ELSE droplets[d].ip
  BY <1>1, <1>6, <1>7, <1>8 DEF Planned
<1>10. \A d \in Node : Staying(d)' <=> d \in Listed \ {n}
  BY <1>1, <1>7 DEF Staying, Live, Quiet, Listed
<1>11. \A i \in IP \ lost : \E d \in Listed : i \in droplets[d].ip
  BY <1>1 DEF Covering, Spare, Moving, Staying, Planned, Pending, RequestShape,
              Live, Listed
<1>12. \A i \in IP \ lost : \E d \in Node : Staying(d)' /\ i \in Planned(d)'
  <2> TAKE i \in IP \ lost
  <2>1. PICK d \in Listed : i \in droplets[d].ip
    BY <1>11
  <2>2. CASE d = n
    BY <1>3, <1>5, <1>9, <1>10, <2>1, <2>2
  <2>3. CASE d # n
    BY <1>3, <1>9, <1>10, <2>1, <2>3
  <2> QED BY <2>2, <2>3
<1> QED BY <1>1, <1>12 DEF Covering

LEMMA CoveringStep ==
  ASSUME TypeOK, RequestShape, Sharing, RowFirst, Covering,
         Settled, crashes' = 0, [Next]_vars
  PROVE  Covering'
<1> USE DEF Covering, oper, db, plane
<1>1. ASSUME NEW n \in Node, PostFirst(n) \/ PostTooFew(n) \/ PostTakes(n)
      PROVE  Covering'
  BY <1>1, PostCovers
<1>2. ASSUME NEW n \in Node, BeginDelete(n)
      PROVE  Covering'
  BY <1>2, DeleteCovers
<1>3. ASSUME \A d \in Node : Live(d) => Live(d)' /\ droplets'[d].ip = droplets[d].ip,
             Listed' # {} => Listed # {}, lost' = lost,
             req'.op = req.op, req'.node = req.node,
             req'.body = req.body, req'.new = req.new, Pending' = Pending,
             req'.phase # "idle" => req.phase # "idle",
             req.phase \in Moving => req'.phase \in Moving
      PROVE  Covering'
  <2>1. \A d \in Node : Staying(d) => Staying(d)' /\ Planned(d)' = Planned(d)
    BY <1>3 DEF Staying, Planned
  <2>2. Spare \subseteq Spare'
    BY <1>3 DEF Spare
  <2> QED BY <1>3, <2>1, <2>2
<1>4. ASSUME UNCHANGED <<droplets, lost>>, req' = NoRequest, req.phase # "idle",
             Pending = {}, req.phase \notin Moving \/ req.op = "delete"
      PROVE  Covering'
  <2>1. Spare = {} /\ Pending' = {}
    BY <1>4 DEF Spare, Pending, NoRequest
  <2>2. \A d \in Node : Staying(d) => Staying(d)' /\ Planned(d)' = Planned(d)
    BY <1>4, <2>1 DEF Staying, Live, Planned, NoRequest
  <2> QED BY <1>4, <2>1, <2>2
<1>5. CASE (\E n \in Node : PostNoZgc(n)) \/ PostZgc \/ UNCHANGED vars
  <2>1. UNCHANGED <<droplets, lost, req>>
    BY <1>5 DEF PostNoZgc, PostZgc, vars, kube, history
  <2>2. Pending' = Pending /\ Listed' = Listed /\ \A d \in Node : Live(d)' <=> Live(d)
    BY <2>1 DEF Pending, Listed, Live
  <2> QED BY <2>1, <2>2, <1>3
<1>6. ASSUME UNCHANGED <<droplets, lost>>, req'.op = req.op, req'.node = req.node,
             req'.body = req.body, req'.new = req.new, Pending' = Pending,
             req.phase # "idle", req.phase \in Moving => req'.phase \in Moving
      PROVE  Covering'
  <2>1. Listed' = Listed /\ \A d \in Node : Live(d)' <=> Live(d)
    BY <1>6 DEF Listed, Live
  <2> QED BY <1>6, <2>1, <1>3
<1>7. ASSUME NEW d \in Node, GwDelete(d) \/ PickReceiver(d)
      PROVE  Covering'
  <2>1. /\ UNCHANGED <<droplets, lost>>
        /\ req'.op = req.op /\ req'.node = req.node /\ req'.body = req.body
        /\ req'.new = req.new /\ req.phase = "pick"
        /\ req'.phase \in {"gwAdd", "replace"}
        /\ req'.cur = d /\ req'.todo = req.todo \ {d} /\ d \in req.todo
    BY <1>7 DEF GwDelete, PickReceiver, kube, history, TypeOK, Request
  <2>2. Pending' = Pending
    BY <2>1 DEF Pending
  <2> QED BY <2>1, <2>2, <1>6 DEF Moving
<1>8. CASE GwAdd \/ Push \/ PushNew
  <2>1. PICK p \in {"replace", "pick", "commit"} :
          /\ UNCHANGED <<droplets, lost>> /\ req' = [req EXCEPT !.phase = p]
          /\ CASE p = "replace" -> req.phase = "gwAdd"
               [] p = "pick" -> req.phase = "push"
               [] p = "commit" -> req.phase = "pushNew"
    BY <1>8 DEF GwAdd, Push, PushNew, kube, history
  <2>2. /\ req'.phase = p /\ req'.op = req.op /\ req'.node = req.node
        /\ req'.body = req.body /\ req'.new = req.new /\ req'.todo = req.todo
        /\ req'.cur = req.cur
    BY <2>1 DEF TypeOK, Request
  <2>3. Pending' = Pending
    BY <2>1, <2>2 DEF Pending
  <2> QED BY <2>1, <2>2, <2>3, <1>6 DEF Moving
<1>9. CASE Replace
  <2>1. /\ req.phase = "replace" /\ req.cur \in Pending /\ req.cur \in Node
        /\ req'.phase = "push" /\ req'.op = req.op /\ req'.node = req.node
        /\ req'.body = req.body /\ req'.new = req.new /\ Pending' = req.todo
        /\ droplets'[req.cur].ip = req.body[req.cur].ip
        /\ \A d \in Node \ {req.cur} : droplets'[d] = droplets[d]
        /\ \A d \in Node : Live(d)' <=> Live(d)
        /\ droplets[req.cur].state = "Provisioned"
        /\ lost' = lost \ req.body[req.cur].ip
    BY <1>9, ReplaceMoves
  <2>2. Pending = req.todo \cup {req.cur}
    BY <2>1 DEF Pending
  <2>3. \A d \in Node : Staying(d) => Staying(d)' /\ Planned(d)' = Planned(d)
    BY <2>1, <2>2 DEF Staying, Planned
  <2>4. Spare' = Spare
    BY <2>1 DEF Spare, Moving
  <2>5. PICK c \in Node : c = req.cur
    BY <2>1
  <2>6. Staying(c)' /\ Planned(c)' = req.body[c].ip
    <3>1. req.op = "delete" => c # req.node
      BY <2>1, <2>5 DEF Sharing, Receiving
    <3>2. Planned(c) = req.body[c].ip /\ Staying(c)
      BY <2>1, <2>5, <3>1 DEF Planned, Staying, Live
    <3> QED BY <2>3, <3>2
  <2> QED BY <2>1, <2>3, <2>4, <2>5, <2>6
<1>10. CASE Create
  <2>1. /\ req.node \in Node /\ req.op = "post" /\ Pending = {} /\ Pending' = {}
        /\ req.phase \in Moving /\ req.phase # "idle"
        /\ droplets[req.node].state = "Absent"
        /\ droplets'[req.node] = [state |-> "Init", ip |-> req.new]
        /\ \A d \in Node \ {req.node} : droplets'[d] = droplets[d]
        /\ req'.op = "post" /\ lost' = lost \ req.new
    BY <1>10, CreateMoves DEF Moving
  <2>2. \A d \in Node : Staying(d) => Staying(d)' /\ Planned(d)' = Planned(d)
    BY <2>1 DEF Staying, Live, Planned
  <2>3. PICK m \in Node : m = req.node
    BY <2>1
  <2>4. Staying(m)' /\ Planned(m)' = req.new
    BY <2>1, <2>3 DEF Staying, Live, Planned
  <2>5. Spare = req.new
    BY <2>1 DEF Spare
  <2> QED BY <2>1, <2>2, <2>4, <2>5
<1>11. CASE Commit
  BY <1>11, <1>4 DEF Commit, kube, history, Pending, Moving, RequestShape
<1>12. CASE Unload
  BY <1>12, <1>4 DEF Unload, kube, history, Pending
<1>13. CASE Remove
  <2>1. /\ req.node \in Node /\ req.op = "delete" /\ req.phase = "remove"
        /\ \A d \in Node \ {req.node} : droplets'[d] = droplets[d]
        /\ req'.op = "delete" /\ req'.node = req.node /\ req'.phase = "pick"
        /\ req'.body = req.body /\ Pending' = Pending /\ lost' = lost
    BY <1>13, RemoveMoves DEF history
  <2>2. \A d \in Node : Staying(d) => Staying(d)' /\ Planned(d)' = Planned(d)
    BY <2>1 DEF Staying, Live, Planned
  <2> QED BY <2>1, <2>2 DEF Spare
<1>14. ASSUME NEW d \in Node, OperatorStep(d)
       PROVE  Covering'
  <2>1. /\ UNCHANGED <<req, lost>> /\ Pending' = Pending
        /\ \A e \in Node : /\ Live(e)' <=> Live(e)
                           /\ Live(e) => droplets'[e].ip = droplets[e].ip
        /\ Listed' \subseteq Listed
    BY <1>14, OperatorMoves DEF history
  <2> QED BY <2>1, <1>3
<1>15. CASE ReplaceRefused \/ RemoveRefused \/ CreateRefused
  <2>0. /\ UNCHANGED droplets /\ req.phase # "idle" /\ Pending' = req.todo
        /\ req'.op = req.op /\ req'.node = req.node
        /\ req'.body = req.body /\ req'.new = req.new
    BY <1>15, RefusedMoves DEF kube
  <2>1. \A d \in Node : Staying(d) => Staying(d)'
    BY <2>0 DEF Staying, Live
  <2>2. CASE ReplaceRefused
    <3>1. /\ req.phase = "replace" /\ req'.phase = "pick"
          /\ Pending = req.todo \cup {req.cur} /\ req.cur \in Node
          /\ lost' = lost \cup (req.body[req.cur].ip \ droplets[req.cur].ip)
      BY <2>2, RefusedMoves DEF ReplaceRefused, RemoveRefused, CreateRefused, AfterUpdates
    <3>2. Spare' = Spare
      BY <2>0, <3>1 DEF Spare, Moving
    <3>3. \A d \in Node : Planned(d) \subseteq Planned(d)' \cup lost'
      BY <2>0, <3>1 DEF Planned
    <3> QED BY <2>0, <2>1, <3>1, <3>2, <3>3
  <2>3. CASE RemoveRefused \/ CreateRefused
    <3>1. /\ Pending' = Pending /\ lost \subseteq lost'
          /\ RemoveRefused => req.op = "delete"
          /\ CreateRefused => lost' = lost \cup req.new
      BY <2>3, RefusedMoves DEF ReplaceRefused, RemoveRefused, CreateRefused, AfterUpdates
    <3>2. Spare \subseteq lost'
      BY <2>3, <3>1 DEF Spare
    <3>3. \A d \in Node : Planned(d)' = Planned(d)
      BY <2>0, <3>1 DEF Planned
    <3> QED BY <2>0, <2>1, <3>1, <3>2, <3>3
  <2> QED BY <1>15, <2>2, <2>3
<1> QED
  BY <1>1, <1>2, <1>5, <1>7, <1>8, <1>9, <1>10, <1>11, <1>12, <1>13, <1>14, <1>15,
     Unhindered DEF Next, ManagerStep

\* With requests that start settled, until something crashes, between requests
\* every IP of the range, which POST /vpcs hands out as gateways, belongs to a
\* droplet in service, those apart that a refused call did not hand out.
THEOREM NothingLost == ASSUME Settled PROVE Spec => []RangeCovered
<1> DEFINE Kept == crashes = 0 => RowFirst /\ Covering
<1>1. SettledInv /\ Kept /\ [Next]_vars => Kept'
  <2> SUFFICES ASSUME SettledInv, Kept, [Next]_vars, crashes' = 0
               PROVE  RowFirst' /\ Covering'
    OBVIOUS
  <2>1. RowFirst /\ Covering
    BY CrashesCount DEF SettledInv
  <2> QED BY <2>1, RowFirstStep, CoveringStep DEF SettledInv
<1>2. SettledInv /\ Kept => RangeCovered
  <2> SUFFICES ASSUME SettledInv, Covering, req.phase = "idle", Listed # {}
               PROVE  IP \ lost \subseteq UNION {droplets[d].ip : d \in {e \in Node : Live(e)}}
    BY DEF RangeCovered
  <2>1. Spare = {} /\ Pending = {}
    BY DEF SettledInv, RequestShape, Spare, Moving, Pending
  <2>2. \A i \in IP \ lost : \E d \in Node : Live(d) /\ i \in droplets[d].ip
    BY <2>1 DEF Covering, Staying, Planned
  <2> QED BY <2>2
<1>3. Init => Kept
  BY RowFirstInit, CoveringInit
<1> QED BY SettledSafe, <1>1, <1>2, <1>3, PTL DEF Spec

(***************************************************************************)
(* Entrances.                                                              *)
(***************************************************************************)

\* A daemon that is sent a list has that list or is untold.
LEMMA ConfigureTells ==
  ASSUME TypeOK, NEW d \in Node, NEW ips, Configure(d, ips)
  PROVE  /\ \A e \in Node \ {d} : /\ entrances'[e] = entrances[e]
                                  /\ e \in untold' <=> e \in untold
         /\ d \notin untold' => entrances'[d] = ips
BY DEF Configure, TypeOK

\* The daemon of a giver or receiver is told what its droplet now has.
LEMMA PushMoves ==
  ASSUME TypeOK, RequestShape, Push
  PROVE  /\ req.phase = "push" /\ req.cur \in Node /\ req.body[req.cur].ip \in SUBSET IP
         /\ Configure(req.cur, req.body[req.cur].ip)
         /\ req'.phase = "pick" /\ req'.op = req.op /\ req'.node = req.node
         /\ req'.new = req.new /\ Pending' = Pending
         /\ UNCHANGED <<kube, oper, db, memory, loaded, history>>
<1>1. /\ req.phase = "push" /\ req.cur \in Node /\ req.body[req.cur].ip \in SUBSET IP
      /\ Configure(req.cur, req.body[req.cur].ip)
      /\ UNCHANGED <<kube, oper, db, memory, loaded, history>>
  BY DEF Push, RequestShape, TypeOK, Request, Body
<1>2. /\ req'.phase = "pick" /\ req'.op = req.op /\ req'.node = req.node
      /\ req'.new = req.new /\ req'.todo = req.todo
  BY DEF Push, TypeOK, Request
<1>3. Pending' = Pending
  BY <1>1, <1>2 DEF Pending
<1> QED BY <1>1, <1>2, <1>3

\* And the daemon of the new node what was created for it.
LEMMA PushNewMoves ==
  ASSUME TypeOK, RequestShape, PushNew
  PROVE  /\ req.phase = "pushNew" /\ req.node \in Node /\ req.new \in SUBSET IP
         /\ req.op = "post" /\ Configure(req.node, req.new)
         /\ req'.phase = "commit" /\ req'.op = req.op /\ req'.node = req.node
         /\ req'.new = req.new /\ Pending' = Pending
         /\ UNCHANGED <<kube, oper, db, memory, loaded, history>>
<1>1. /\ req.phase = "pushNew" /\ req.node \in Node /\ req.new \in SUBSET IP
      /\ req.op = "post" /\ Configure(req.node, req.new)
      /\ UNCHANGED <<kube, oper, db, memory, loaded, history>>
  BY DEF PushNew, RequestShape, TypeOK, Request
<1>2. /\ req'.phase = "commit" /\ req'.op = req.op /\ req'.node = req.node
      /\ req'.new = req.new /\ req'.todo = req.todo
  BY DEF PushNew, TypeOK, Request
<1>3. Pending' = Pending
  BY <1>1, <1>2 DEF Pending
<1> QED BY <1>1, <1>2, <1>3

\* The daemon of this droplet is the next the manager calls.
NextTold(d) == \/ req.phase = "push" /\ d = req.cur
               \/ req.phase = "pushNew" /\ d = req.node

\* The list the manager is about to send is the one the droplet has.
ListCurrent ==
  /\ req.phase = "push" /\ Live(req.cur) => droplets[req.cur].ip = req.body[req.cur].ip
  /\ req.phase = "pushNew" /\ Live(req.node) => droplets[req.node].ip = req.new

TellInv ==
  /\ ListCurrent
  /\ \A d \in Node \ untold : Live(d) /\ ~NextTold(d) => entrances[d] = droplets[d].ip

LEMMA TellInit == Init => TellInv
BY DEF Init, TellInv, ListCurrent, Live, Absent, NoRequest

LEMMA TellStep ==
  ASSUME TypeOK, RequestShape, Sharing, RowFirst, TellInv,
         Settled, crashes' = 0, [Next]_vars
  PROVE  TellInv'
<1> USE DEF TellInv, ListCurrent, oper, db, plane
<1>1. ASSUME \A d \in Node : Live(d)' => Live(d) /\ droplets'[d].ip = droplets[d].ip,
             UNCHANGED <<entrances, untold>>,
             req'.phase \notin {"push", "pushNew"},
             req.phase \notin {"push", "pushNew"}
      PROVE  TellInv'
  BY <1>1 DEF NextTold
<1>2. ASSUME UNCHANGED <<droplets, entrances, untold, req>>
      PROVE  TellInv'
  BY <1>2 DEF Live, NextTold
<1>3. ASSUME NEW n \in Node, PostFirst(n) \/ PostTooFew(n) \/ PostTakes(n)
      PROVE  TellInv'
  <2>1. /\ req.phase = "idle" /\ req'.phase \in {"pick", "create", "commit"}
        /\ UNCHANGED <<droplets, entrances, untold>>
    BY <1>3, PostBegins
  <2> QED BY <2>1, <1>1 DEF Live
<1>4. ASSUME NEW n \in Node, BeginDelete(n)
      PROVE  TellInv'
  <2>1. /\ req.phase = "idle" /\ req'.phase = "remove"
        /\ UNCHANGED <<droplets, entrances, untold>>
    BY <1>4 DEF BeginDelete, NoRequest
  <2> QED BY <2>1, <1>1 DEF Live
<1>5. CASE (\E n \in Node : PostNoZgc(n)) \/ PostZgc \/ UNCHANGED vars
  BY <1>5, <1>2 DEF PostNoZgc, PostZgc, vars, kube
<1>6. CASE (\E d \in Node : GwDelete(d) \/ PickReceiver(d)) \/ GwAdd
  <2>1. /\ UNCHANGED <<droplets, entrances, untold>>
        /\ req.phase \in {"pick", "gwAdd"} /\ req'.phase \in {"gwAdd", "replace"}
    BY <1>6 DEF GwDelete, PickReceiver, GwAdd, kube, TypeOK, Request
  <2> QED BY <2>1, <1>1 DEF Live
<1>7. CASE ReplaceRefused \/ RemoveRefused \/ CreateRefused
  <2>1. /\ UNCHANGED <<droplets, entrances, untold>>
        /\ req.phase \in {"replace", "remove", "create", "pick"}
        /\ req'.phase \in {"pick", "commit"}
    BY <1>7, RefusedMoves DEF kube
  <2> QED BY <2>1, <1>1 DEF Live
<1>8. CASE Commit \/ Unload
  <2>1. /\ UNCHANGED <<droplets, entrances, untold>> /\ req' = NoRequest
        /\ req.phase \in {"pick", "commit"}
    BY <1>8 DEF Commit, Unload, kube
  <2> QED BY <2>1, <1>1 DEF Live, NoRequest
<1>9. CASE Replace
  <2>1. /\ req.phase = "replace" /\ req.cur \in Node /\ req'.phase = "push"
        /\ req'.cur = req.cur /\ req'.body = req.body
        /\ UNCHANGED <<entrances, untold>>
        /\ droplets'[req.cur].ip = req.body[req.cur].ip
        /\ \A d \in Node \ {req.cur} : droplets'[d] = droplets[d]
        /\ \A d \in Node : Live(d)' <=> Live(d)
    BY <1>9, ReplaceMoves
  <2>2. \A d \in Node : ~NextTold(d)' => d # req.cur /\ ~NextTold(d)
    BY <2>1 DEF NextTold
  <2> QED BY <2>1, <2>2
<1>10. CASE Push
  <2>1. /\ req.phase = "push" /\ req.cur \in Node
        /\ Configure(req.cur, req.body[req.cur].ip)
        /\ req'.phase = "pick" /\ UNCHANGED droplets
    BY <1>10, PushMoves DEF kube
  <2>2. \A d \in Node : /\ Live(d)' <=> Live(d)
                        /\ NextTold(d) <=> d = req.cur
    BY <2>1 DEF Live, NextTold
  <2> QED BY <2>1, <2>2, ConfigureTells
<1>11. CASE PushNew
  <2>1. /\ req.phase = "pushNew" /\ req.node \in Node
        /\ Configure(req.node, req.new)
        /\ req'.phase = "commit" /\ UNCHANGED droplets
    BY <1>11, PushNewMoves DEF kube
  <2>2. \A d \in Node : /\ Live(d)' <=> Live(d)
                        /\ NextTold(d) <=> d = req.node
    BY <2>1 DEF Live, NextTold
  <2> QED BY <2>1, <2>2, ConfigureTells
<1>12. CASE Create
  <2>1. /\ req.node \in Node /\ req.phase \notin {"push", "pushNew"}
        /\ droplets'[req.node] = [state |-> "Init", ip |-> req.new]
        /\ \A d \in Node \ {req.node} : droplets'[d] = droplets[d]
        /\ UNCHANGED <<entrances, untold>>
        /\ req'.phase = "pushNew" /\ req'.node = req.node /\ req'.new = req.new
    BY <1>12, CreateMoves DEF Moving
  <2>2. \A d \in Node : /\ NextTold(d)' <=> d = req.node
                        /\ ~NextTold(d)
    BY <2>1 DEF NextTold
  <2>3. \A d \in Node \ {req.node} : Live(d)' <=> Live(d)
    BY <2>1 DEF Live
  <2> QED BY <2>1, <2>2, <2>3
<1>13. CASE Remove
  <2>1. /\ req.node \in Node /\ req.phase = "remove"
        /\ droplets'[req.node].state = "Deleting"
        /\ \A d \in Node \ {req.node} : droplets'[d] = droplets[d]
        /\ UNCHANGED <<entrances, untold>>
        /\ req'.phase = "pick"
    BY <1>13, RemoveMoves
  <2>2. \A d \in Node : Live(d)' => Live(d) /\ droplets'[d].ip = droplets[d].ip
    BY <2>1 DEF Live
  <2> QED BY <2>1, <2>2, <1>1
<1>14. ASSUME NEW d \in Node, OperatorStep(d)
       PROVE  TellInv'
  <2>1. /\ UNCHANGED <<req, entrances, untold>>
        /\ \A e \in Node : /\ Live(e)' <=> Live(e)
                           /\ Live(e) => droplets'[e].ip = droplets[e].ip
    BY <1>14, OperatorMoves
  <2>2. \A e \in Node : NextTold(e)' <=> NextTold(e)
    BY <2>1 DEF NextTold
  <2>3. /\ req.phase = "push" => req.cur \in Node
        /\ req.phase = "pushNew" => req.node \in Node
    BY DEF RequestShape
  <2>4. ListCurrent'
    BY <2>1, <2>3
  <2> QED BY <2>1, <2>2, <2>4
<1> QED
  BY <1>3, <1>4, <1>5, <1>6, <1>7, <1>8, <1>9, <1>10, <1>11, <1>12, <1>13, <1>14,
     Unhindered DEF Next, ManagerStep

\* With requests that start settled, until something crashes, between requests
\* the daemon of every node in service answers for exactly the IPs of its
\* droplet, unless it did not take the last list it was sent.
THEOREM DaemonsMatch == ASSUME Settled PROVE Spec => []EntrancesMatch
<1> DEFINE Kept == crashes = 0 => RowFirst /\ TellInv
<1>1. SettledInv /\ Kept /\ [Next]_vars => Kept'
  <2> SUFFICES ASSUME SettledInv, Kept, [Next]_vars, crashes' = 0
               PROVE  RowFirst' /\ TellInv'
    OBVIOUS
  <2>1. RowFirst /\ TellInv
    BY CrashesCount DEF SettledInv
  <2> QED BY <2>1, RowFirstStep, TellStep DEF SettledInv
<1>2. Kept => EntrancesMatch
  BY DEF TellInv, EntrancesMatch, NextTold
<1>3. Init => Kept
  BY RowFirstInit, TellInit
<1> QED BY SettledSafe, <1>1, <1>2, <1>3, PTL DEF Spec

(***************************************************************************)
(* One entrance for each IP, crashes notwithstanding.                      *)
(***************************************************************************)

\* Only the daemon of a droplet that is there was ever told of IPs.
Configured == \A d \in Node : entrances[d] # {} => d \in Listed

\* A daemon of which nothing is stale but by the manager's own doing.
Told(d) == Live(d) /\ d \notin untold

\* No such daemon answers for an IP of another's entrances, or of another
\* droplet, that was not kept by one that was to give it up.
Exclusive ==
  \A d, e \in Node : d # e /\ Told(d) =>
    /\ Told(e) => entrances[d] \cap entrances[e] \subseteq kept
    /\ Live(e) => entrances[d] \cap droplets[e].ip \subseteq kept

\* The IPs a POST has taken are answered for by the givers not yet told, each
\* for its own.
TakenUntold ==
  req.phase \in Moving => \A d \in Node : Told(d) =>
    \/ d \in Pending /\ entrances[d] \cap req.new \subseteq kept \cup droplets[d].ip
    \/ NextTold(d)
    \/ entrances[d] \cap req.new \subseteq kept

\* The droplets a request is telling daemons about are there.
ToldListed ==
  /\ req.phase = "push" => req.cur \in Listed /\ droplets[req.cur].ip = req.body[req.cur].ip
  /\ req.phase = "pushNew" => req.node \in Listed /\ droplets[req.node].ip = req.new

EntranceInv == Configured /\ Exclusive /\ TakenUntold /\ ToldListed

LEMMA EntranceInit == Init => EntranceInv
BY DEF Init, EntranceInv, Configured, Exclusive, Told, Live, Absent, TakenUntold,
       ToldListed, NoRequest, Moving

LEMMA PostEntrance ==
  ASSUME TypeOK, RequestShape, EntranceInv, NothingDeleted, Settled, NEW n \in Node,
         PostFirst(n) \/ PostTooFew(n) \/ PostTakes(n)
  PROVE  EntranceInv'
<1> USE DEF EntranceInv
<1>1. /\ req'.phase \in {"pick", "create", "commit"}
      /\ UNCHANGED <<droplets, entrances, untold, kept>>
  BY PostBegins
<1>2. \A d \in Node : Told(d)' <=> Told(d)
  BY <1>1 DEF Told, Live
<1>3. Configured' /\ Exclusive' /\ ToldListed'
  BY <1>1, <1>2 DEF Configured, Exclusive, ToldListed, Listed, Live
<1>4. CASE PostFirst(n) \/ PostTooFew(n)
  <2>1. req'.phase \in Moving => Listed = {}
    BY <1>4 DEF PostFirst, PostTooFew, BeginPost, Moving
  <2> QED BY <1>1, <1>2, <1>3, <2>1 DEF TakenUntold, Told, Live, Listed
<1>5. CASE PostTakes(n)
  <2>1. PICK left \in Leavings :
          BeginPost(n, Givers, Relisted(Givers, left),
                    UNION {droplets[d].ip \ left[d] : d \in Givers}, "pick")
    BY <1>5 DEF PostTakes
  <2> DEFINE new == UNION {droplets[d].ip \ left[d] : d \in Givers}
  <2>2. Pending' = Givers /\ req'.new = new
    BY <2>1 DEF BeginPost, Pending
  <2>3. Givers \subseteq Node /\ \A d \in Givers : Live(d)
    BY DEF Givers, Listed, Live, NothingDeleted, TypeOK, Droplet
  <2>4. \A d \in Node : Told(d) =>
          entrances[d] \cap new \subseteq IF d \in Givers THEN kept \cup droplets[d].ip ELSE kept
    <3> SUFFICES ASSUME NEW d \in Node, Told(d), NEW e \in Givers,
                        NEW i \in entrances[d], i \in droplets[e].ip
                 PROVE  i \in IF d \in Givers THEN kept \cup droplets[d].ip ELSE kept
      OBVIOUS
    <3> QED BY <2>3 DEF Exclusive
  <2> HIDE DEF new
  <2>5. TakenUntold'
    BY <1>1, <1>2, <2>2, <2>4 DEF TakenUntold
  <2> QED BY <1>3, <2>5
<1> QED BY <1>4, <1>5

\* A daemon that is sent what its droplet has is right from then on, or untold.
LEMMA TellsOwn ==
  ASSUME TypeOK, OneOwner, EntranceInv, NEW c \in Node, NEW ips,
         Live(c), droplets[c].ip = ips, Configure(c, ips), UNCHANGED <<droplets, kept>>
  PROVE  /\ Configured' /\ Exclusive'
         /\ \A d \in Node \ {c} : Told(d)' => Told(d) /\ entrances'[d] = entrances[d]
         /\ Told(c)' => entrances'[c] = ips
<1> USE DEF EntranceInv
<1>1. /\ \A d \in Node \ {c} : /\ entrances'[d] = entrances[d]
                               /\ Told(d)' <=> Told(d)
      /\ Told(c)' => entrances'[c] = ips
      /\ \A d \in Node : Live(d)' <=> Live(d)
  BY ConfigureTells DEF Told, Live
<1>2. Configured'
  BY <1>1 DEF Configured, Listed, Live
<1>3. \A e \in Node \ {c} : Live(e) => droplets[c].ip \cap droplets[e].ip \subseteq kept
  BY DEF OneOwner
<1>4. Exclusive'
  BY <1>1, <1>3 DEF Exclusive, Told
<1> QED BY <1>1, <1>2, <1>4

LEMMA EntranceStep ==
  ASSUME TypeOK, RequestShape, Sharing, NothingDeleted, NothingDeleted', EntranceInv,
         Settled, "delete" \notin Ops, [Next]_vars
  PROVE  EntranceInv'
<1> USE DEF EntranceInv, oper, db, plane
<1>0. /\ Listed \subseteq Node /\ Pending \subseteq Node
      /\ \A d \in Node : d \in Listed <=> Live(d)
  BY DEF Listed, Pending, RequestShape, TypeOK, Request, Droplet, Live, NothingDeleted
<1>1. ASSUME NEW n \in Node, PostFirst(n) \/ PostTooFew(n) \/ PostTakes(n)
      PROVE  EntranceInv'
  BY <1>1, PostEntrance
<1>2. /\ ~Remove /\ ~RemoveRefused /\ ~Unload
      /\ \A d \in Node : ~(PickReceiver(d) \/ Finalize(d) \/ BeginDelete(d))
  BY DEF Remove, RemoveRefused, Unload, PickReceiver, Finalize, BeginDelete,
         NothingDeleted, RequestShape
<1>3. ASSUME UNCHANGED <<droplets, entrances, untold, kept>>,
             \/ req' = NoRequest
             \/ req'.phase = "commit"
             \/ /\ req.phase \in Moving \ {"push"} /\ req'.phase \in Moving \ {"push"}
                /\ req'.new = req.new /\ Pending' = Pending
      PROVE  EntranceInv'
  <2>0. \A d \in Node : (Told(d)' <=> Told(d)) /\ (Live(d)' <=> Live(d))
    BY <1>3 DEF Told, Live
  <2>1. Configured' /\ Exclusive'
    BY <1>3, <2>0 DEF Configured, Exclusive, Listed
  <2>2. ToldListed'
    BY <1>3 DEF ToldListed, NoRequest, Moving
  <2>3. TakenUntold'
    BY <1>3, <2>0 DEF TakenUntold, NoRequest, Moving, NextTold
  <2> QED BY <2>1, <2>2, <2>3
<1>4. CASE (\E n \in Node : PostNoZgc(n)) \/ PostZgc \/ OperatorCrash \/ UNCHANGED vars
  <2>1. UNCHANGED <<droplets, entrances, untold, kept, req>>
    BY <1>4 DEF PostNoZgc, PostZgc, OperatorCrash, vars, kube, history
  <2> QED BY <2>1 DEF Configured, Exclusive, TakenUntold, ToldListed, Listed, Live,
                      Told, Pending, NextTold
<1>5. CASE (\E d \in Node : AbortNoRow(d)) \/ Commit \/ ManagerCrash \/ RequestFails
  BY <1>5, <1>3 DEF AbortNoRow, Commit, ManagerCrash, RequestFails, kube, history
<1>6. ASSUME NEW d \in Node, GwDelete(d)
      PROVE  EntranceInv'
  <2>1. /\ UNCHANGED <<droplets, entrances, untold, kept>>
        /\ req'.new = req.new /\ req.phase = "pick" /\ req'.phase = "gwAdd"
        /\ req'.cur = d /\ req'.todo = req.todo \ {d} /\ d \in req.todo
    BY <1>6 DEF GwDelete, kube, history, TypeOK, Request
  <2>2. Pending' = Pending
    BY <2>1 DEF Pending
  <2> QED BY <2>1, <2>2, <1>3 DEF Moving
<1>7. CASE GwAdd
  <2>1. /\ UNCHANGED <<droplets, entrances, untold, kept>>
        /\ req'.new = req.new /\ req.phase = "gwAdd" /\ req'.phase = "replace"
        /\ req'.cur = req.cur /\ req'.todo = req.todo
    BY <1>7 DEF GwAdd, kube, history, TypeOK, Request
  <2>2. Pending' = Pending
    BY <2>1 DEF Pending
  <2> QED BY <2>1, <2>2, <1>3 DEF Moving
<1>8. CASE CreateRefused
  BY <1>8, <1>3 DEF CreateRefused, kube, TypeOK, Request
<1>9. CASE ReplaceRefused
  <2>1. /\ UNCHANGED <<droplets, entrances, untold>>
        /\ req.phase = "replace" /\ req'.phase = "pick" /\ req.cur \in Node
        /\ Pending = req.todo \cup {req.cur} /\ Pending' = req.todo
        /\ req'.new = req.new
        /\ kept' = kept \cup (droplets[req.cur].ip \ req.body[req.cur].ip)
    BY <1>2, <1>9, RefusedMoves
       DEF ReplaceRefused, CreateRefused, AfterUpdates, kube
  <2>2. \A d \in Node : /\ Told(d)' <=> Told(d)
                        /\ Live(d)' <=> Live(d)
                        /\ ~NextTold(d)
    BY <2>1 DEF Told, Live, NextTold
  <2>3. Configured' /\ ToldListed'
    BY <2>1 DEF Configured, ToldListed, Listed
  <2>4. Exclusive'
    BY <2>1, <2>2 DEF Exclusive
  <2>5. Told(req.cur) => entrances[req.cur] \cap req.new \subseteq kept'
    <3>1. Live(req.cur) => req.body[req.cur].ip \cap req.new \subseteq kept
      BY <2>1 DEF Sharing, NewUnowned, Moving, NothingDeleted
    <3>2. Told(req.cur) => entrances[req.cur] \cap req.new \subseteq kept \cup droplets[req.cur].ip
      BY <2>1, <2>2 DEF TakenUntold, Moving
    <3> QED BY <2>1, <3>1, <3>2 DEF Told
  <2>6. TakenUntold'
    <3> SUFFICES ASSUME NEW d \in Node, Told(d)
                 PROVE  \/ /\ d \in Pending'
                           /\ entrances[d] \cap req.new \subseteq kept' \cup droplets[d].ip
                        \/ entrances[d] \cap req.new \subseteq kept'
      BY <2>1, <2>2 DEF TakenUntold
    <3>1. CASE d = req.cur
      BY <2>5, <3>1
    <3>2. CASE d # req.cur
      BY <2>1, <2>2, <3>2 DEF TakenUntold, Moving
    <3> QED BY <3>1, <3>2
  <2> QED BY <2>3, <2>4, <2>6
<1>10. CASE Replace
  <2>1. /\ req.phase = "replace" /\ req.cur \in Node /\ req.cur \in Pending
        /\ req'.phase = "push" /\ req'.cur = req.cur /\ req'.body = req.body
        /\ req'.new = req.new /\ Pending' = req.todo
        /\ UNCHANGED <<entrances, untold, kept>>
        /\ droplets[req.cur].state = "Provisioned"
        /\ droplets'[req.cur].ip = req.body[req.cur].ip
        /\ \A d \in Node \ {req.cur} : droplets'[d] = droplets[d]
        /\ \A d \in Node : Live(d)' <=> Live(d)
        /\ Listed' = Listed
        /\ req.body[req.cur].ip \subseteq droplets[req.cur].ip
    BY <1>10, ReplaceMoves DEF NothingDeleted
  <2>2. \A d \in Node : Told(d)' <=> Told(d)
    BY <2>1 DEF Told
  <2>3. Configured' /\ Exclusive'
    BY <2>1, <2>2 DEF Configured, Exclusive
  <2>4. TakenUntold'
    BY <2>1, <2>2 DEF TakenUntold, Moving, Pending, NextTold
  <2>5. ToldListed'
    BY <2>1 DEF ToldListed, Listed
  <2> QED BY <2>3, <2>4, <2>5
<1>11. CASE Push
  <2>1. /\ req.phase = "push" /\ req.cur \in Node
        /\ Configure(req.cur, req.body[req.cur].ip)
        /\ req'.phase = "pick" /\ req'.new = req.new /\ Pending' = Pending
        /\ UNCHANGED <<droplets, kept>>
    BY <1>11, PushMoves DEF kube, history
  <2>2. PICK c \in Node : /\ c = req.cur /\ Live(c)
                          /\ droplets[c].ip = req.body[c].ip
    BY <1>0, <2>1 DEF ToldListed
  <2>3. /\ Configured' /\ Exclusive'
        /\ \A d \in Node \ {c} : Told(d)' => Told(d) /\ entrances'[d] = entrances[d]
        /\ Told(c)' => entrances'[c] = droplets[c].ip
    BY <2>1, <2>2, TellsOwn DEF Sharing
  <2>4. c \in Pending \/ droplets[c].ip \cap req.new \subseteq kept
    BY <2>1, <2>2 DEF Sharing, NewUnowned, Moving, NothingDeleted
  <2>5. TakenUntold'
    <3> SUFFICES ASSUME NEW d \in Node, Told(d)'
                 PROVE  \/ /\ d \in Pending
                           /\ entrances'[d] \cap req.new \subseteq kept \cup droplets[d].ip
                        \/ entrances'[d] \cap req.new \subseteq kept
      BY <2>1 DEF TakenUntold
    <3>1. CASE d = c
      BY <2>3, <2>4, <3>1
    <3>2. CASE d # c
      BY <2>1, <2>2, <2>3, <3>2 DEF TakenUntold, Moving, NextTold
    <3> QED BY <3>1, <3>2
  <2>6. ToldListed'
    BY <2>1 DEF ToldListed
  <2> QED BY <2>3, <2>5, <2>6
<1>12. CASE PushNew
  <2>1. /\ req.phase = "pushNew" /\ req.node \in Node
        /\ Configure(req.node, req.new)
        /\ req'.phase = "commit"
        /\ UNCHANGED <<droplets, kept>>
    BY <1>12, PushNewMoves DEF kube, history
  <2>2. Live(req.node) /\ droplets[req.node].ip = req.new
    BY <1>0, <2>1 DEF ToldListed
  <2>3. Configured' /\ Exclusive'
    BY <2>1, <2>2, TellsOwn DEF Sharing
  <2>4. TakenUntold' /\ ToldListed'
    BY <2>1 DEF TakenUntold, ToldListed, Moving
  <2> QED BY <2>3, <2>4
<1>13. CASE Create
  <2>1. /\ req.node \in Node /\ Pending = {} /\ req.phase \in Moving
        /\ req.phase # "push"
        /\ droplets[req.node].state = "Absent"
        /\ droplets'[req.node] = [state |-> "Init", ip |-> req.new]
        /\ \A d \in Node \ {req.node} : droplets'[d] = droplets[d]
        /\ Listed' = Listed \cup {req.node}
        /\ UNCHANGED <<entrances, untold, kept>>
        /\ req'.phase = "pushNew" /\ req'.node = req.node /\ req'.new = req.new
    BY <1>13, CreateMoves
  <2>2. \A d \in Node : Told(d) => entrances[d] \cap req.new \subseteq kept
    BY <2>1 DEF TakenUntold, NextTold, Moving
  <2>3. entrances[req.node] = {}
    BY <2>1 DEF Configured, Listed
  <2>4. \A d \in Node \ {req.node} : (Told(d)' <=> Told(d)) /\ (Live(d)' <=> Live(d))
    BY <2>1 DEF Told, Live
  <2>5. Configured'
    BY <2>1 DEF Configured
  <2>6. Exclusive'
    BY <2>1, <2>2, <2>3, <2>4 DEF Exclusive
  <2>7. TakenUntold' /\ ToldListed'
    BY <2>1 DEF TakenUntold, ToldListed, Moving
  <2> QED BY <2>5, <2>6, <2>7
<1>14. ASSUME NEW d \in Node, OperatorStep(d)
       PROVE  EntranceInv'
  <2>1. /\ UNCHANGED <<req, entrances, untold, kept>> /\ Pending' = Pending
        /\ \A e \in Node : /\ Live(e)' <=> Live(e)
                           /\ Live(e) => droplets'[e].ip = droplets[e].ip
    BY <1>14, OperatorMoves DEF history
  <2>2. \A e \in Node : /\ e \in Listed => e \in Listed'
                        /\ Told(e)' <=> Told(e)
    BY <1>0, <2>1 DEF Live, Listed, Told
  <2>3. Configured' /\ Exclusive' /\ ToldListed'
    BY <1>0, <2>1, <2>2 DEF Configured, Exclusive, ToldListed
  <2>4. TakenUntold'
    BY <2>1, <2>2 DEF TakenUntold, NextTold, Told
  <2> QED BY <2>3, <2>4
<1> QED
  BY <1>1, <1>2, <1>4, <1>5, <1>6, <1>7, <1>8, <1>9, <1>10, <1>11, <1>12, <1>13,
     <1>14 DEF Next, ManagerStep

\* When nodes are only POSTed and requests start settled, no IP is an entrance
\* of two nodes in service, unless a daemon did not take the last list it was
\* sent or a refused call left a droplet with the IP, resubmissions and crashes
\* of either process notwithstanding: the giver is told before the new node is,
\* and an IP whose request died is with nobody.
THEOREM OneAnswers ==
  ASSUME Settled, "delete" \notin Ops
  PROVE  Spec => []OneEntrance
<1>1. TypeOK /\ RequestShape /\ NothingDeleted /\ [Next]_vars
        => (TypeOK /\ RequestShape /\ NothingDeleted)'
  BY TypeStep, NothingDeletedStep
<1>2. SettledInv /\ NothingDeleted /\ NothingDeleted' /\ EntranceInv /\ [Next]_vars
        => EntranceInv'
  BY EntranceStep DEF SettledInv
<1>3. EntranceInv => OneEntrance
  BY DEF EntranceInv, Exclusive, Told, OneEntrance
<1> QED BY TypeInit, NothingDeletedInit, EntranceInit, SettledSafe, <1>1, <1>2, <1>3, PTL DEF Spec

(***************************************************************************)
(* Sums over droplets.                                                     *)
(***************************************************************************)

\* A set of naturals has a smallest member.
LEMMA SmallestMember ==
  ASSUME NEW T \in SUBSET Nat, T # {}
  PROVE  \E m \in T : \A k \in T : m <= k
<1>1. PICK m \in T : \A k \in T : ~(<<k, m>> \in OpToRel(<, Nat))
  BY NatLessThanWellFounded, WFMin
<1>2. \A k \in T : ~(k < m)
  BY <1>1 DEF OpToRel
<1> QED BY <1>2

\* Two functions on the subsets of a finite set, each computed from a smaller
\* subset in the same way, agree: by a smallest subset on which they would not.
LEMMA FoldsAgree ==
  ASSUME NEW S, IsFiniteSet(S), NEW f, NEW h, f[{}] = h[{}],
         \A s \in SUBSET S : s # {} =>
           \E x \in s : f[s \ {x}] = h[s \ {x}] => f[s] = h[s]
  PROVE  f[S] = h[S]
<1> DEFINE Differ == {s \in SUBSET S : f[s] # h[s]}
<1>1. SUFFICES ASSUME Differ # {} PROVE FALSE
  OBVIOUS
<1>2. Differ \subseteq FiniteSubsetsOf(S)
  BY FS_Subset DEF FiniteSubsetsOf
<1>3. PICK s \in Differ : \A u \in Differ : ~(<<u, s>> \in StrictSubsetOrdering(S))
  <2>1. IsWellFoundedOn(StrictSubsetOrdering(S), FiniteSubsetsOf(S))
    BY FS_StrictSubsetOrderingWellFounded
  <2> HIDE DEF Differ
  <2> QED BY <1>1, <1>2, <2>1, WFMin
<1>4. PICK x \in s : f[s \ {x}] = h[s \ {x}] => f[s] = h[s]
  BY <1>3
<1>5. f[s \ {x}] = h[s \ {x}]
  <2>1. s \ {x} \in SUBSET S /\ s \in SUBSET S /\ s \ {x} # s
    BY <1>3, <1>4
  <2>2. <<s \ {x}, s>> \in StrictSubsetOrdering(S)
    BY <2>1 DEF StrictSubsetOrdering
  <2> QED BY <1>3, <2>1, <2>2
<1> QED BY <1>3, <1>4, <1>5

\* The IPs of the droplets in S, each with its droplet.
Pairs(S) == {p \in S \X IP : p[2] \in droplets[p[1]].ip}

LEMMA DropletFinite ==
  ASSUME TypeOK, NEW d \in Node
  PROVE  /\ droplets[d].ip \subseteq IP /\ IsFiniteSet(droplets[d].ip)
         /\ Count(d) \in Nat /\ Count(d) <= Cardinality(IP)
         /\ Count(d) = 0 <=> droplets[d].ip = {}
<1>1. droplets[d].ip \subseteq IP /\ IsFiniteSet(IP)
  BY IpAssumption DEF TypeOK, Droplet
<1>2. /\ IsFiniteSet(droplets[d].ip)
      /\ Cardinality(droplets[d].ip) <= Cardinality(IP)
  BY <1>1, FS_Subset
<1>3. Cardinality(droplets[d].ip) \in Nat
  BY <1>2, FS_CardinalityType
<1>4. Cardinality(droplets[d].ip) = 0 <=> droplets[d].ip = {}
  BY <1>2, FS_EmptySet
<1> QED BY <1>1, <1>2, <1>3, <1>4 DEF Count

\* Adding one droplet to a set of droplets adds as many pairs as it has IPs.
LEMMA PairsGrow ==
  ASSUME TypeOK, NEW s \in SUBSET Node, NEW x \in s
  PROVE  Cardinality(Pairs(s)) = Count(x) + Cardinality(Pairs(s \ {x}))
<1>1. IsFiniteSet(s) /\ IsFiniteSet({x}) /\ IsFiniteSet(s \ {x})
  BY NodeAssumption, FS_Subset, FS_Singleton, FS_RemoveElement
<1> DEFINE mine == {x} \X droplets[x].ip
           others == Pairs(s \ {x})
<1>2. /\ IsFiniteSet(mine)
      /\ Cardinality(mine) = Cardinality({x}) * Cardinality(droplets[x].ip)
  BY <1>1, DropletFinite, FS_Product
<1>3. Cardinality(mine) = Count(x)
  <2>1. Cardinality({x}) = 1
    BY FS_Singleton
  <2>2. Cardinality(droplets[x].ip) = Count(x) /\ Count(x) \in Nat
    BY DropletFinite DEF Count
  <2> HIDE DEF mine
  <2> QED BY <1>2, <2>1, <2>2
<1>4. IsFiniteSet(others)
  <2>1. others \in SUBSET ((s \ {x}) \X IP)
    BY DEF Pairs
  <2>2. IsFiniteSet((s \ {x}) \X IP)
    BY <1>1, IpAssumption, FS_Product
  <2> HIDE DEF others
  <2> QED BY <2>1, <2>2, FS_Subset
<1>5. Pairs(s) = mine \cup others /\ mine \cap others = {}
  BY DropletFinite DEF Pairs
<1> HIDE DEF mine, others
<1>6. Cardinality(mine \cup others) =
        Cardinality(mine) + Cardinality(others) - Cardinality(mine \cap others)
  BY <1>2, <1>4, FS_Union
<1>7. /\ Cardinality(mine \cap others) = 0
      /\ Cardinality(others) \in Nat /\ Count(x) \in Nat
  BY <1>4, <1>5, FS_EmptySet, FS_CardinalityType, DropletFinite
<1>8. Cardinality(Pairs(s)) = Count(x) + Cardinality(others)
  BY <1>3, <1>5, <1>6, <1>7
<1> QED BY <1>8 DEF others

\* The sum of the counts, as the fold computes it.
LEMMA CountSum ==
  ASSUME NEW h, h[{}] = 0,
         \A s \in SUBSET Listed : s # {} =>
           \A x \in s : h[s] = Count(x) + h[s \ {x}],
         DOMAIN h = SUBSET Listed, h = [s \in SUBSET Listed |-> h[s]]
  PROVE  MapThenSumSet(Count, Listed) = h[Listed]
<1>1. IsFiniteSet(Listed)
  BY NodeAssumption, FS_Subset DEF Listed
<1> DEFINE P(f) == f = [s \in SUBSET Listed |->
                IF s = {} THEN 0
                ELSE Count(CHOOSE x \in s : TRUE) + f[s \ {CHOOSE x \in s : TRUE}]]
           g == CHOOSE f : P(f)
<1>2. P(h)
  <2>1. \A s \in SUBSET Listed : h[s] =
          IF s = {} THEN 0
          ELSE Count(CHOOSE x \in s : TRUE) + h[s \ {CHOOSE x \in s : TRUE}]
    OBVIOUS
  <2> QED BY <2>1
<1>3. P(g)
  <2> HIDE DEF P
  <2> QED BY <1>2
<1>4. MapThenSumSet(Count, Listed) = g[Listed]
  BY DEF MapThenSumSet, MapThenFoldSet
<1> HIDE DEF g
<1>5. g[{}] = h[{}]
  BY <1>3
<1>6. \A s \in SUBSET Listed : s # {} =>
        \E x \in s : g[s \ {x}] = h[s \ {x}] => g[s] = h[s]
  <2> SUFFICES ASSUME NEW s \in SUBSET Listed, s # {}
               PROVE  \E x \in s : g[s \ {x}] = h[s \ {x}] => g[s] = h[s]
    OBVIOUS
  <2> DEFINE x == CHOOSE y \in s : TRUE
  <2>1. x \in s
    OBVIOUS
  <2>2. g[s] = Count(x) + g[s \ {x}]
    BY <1>3
  <2>3. h[s] = Count(x) + h[s \ {x}]
    BY <2>1
  <2> HIDE DEF x
  <2> QED BY <2>1, <2>2, <2>3
<1>7. g[Listed] = h[Listed]
  BY <1>1, <1>5, <1>6, FoldsAgree
<1> QED BY <1>4, <1>7

LEMMA ListedFinite ==
  /\ Listed \subseteq Node /\ IsFiniteSet(Listed)
  /\ Cardinality(Listed) \in Nat
  /\ Cardinality(Listed) = 0 <=> Listed = {}
<1>1. Listed \subseteq Node
  BY DEF Listed
<1>2. IsFiniteSet(Listed)
  BY <1>1, NodeAssumption, FS_Subset
<1> QED BY <1>1, <1>2, FS_CardinalityType, FS_EmptySet

\* The droplets have as many IPs together as there are pairs.
LEMMA SumIsNat ==
  ASSUME TypeOK
  PROVE  MapThenSumSet(Count, Listed) \in Nat
<1> DEFINE h == [s \in SUBSET Listed |-> Cardinality(Pairs(s))]
<1>1. h[{}] = 0
  <2>1. Pairs({}) = {}
    BY DEF Pairs
  <2> QED BY <2>1, FS_EmptySet
<1>2. \A s \in SUBSET Listed : s # {} => \A x \in s : h[s] = Count(x) + h[s \ {x}]
  <2> SUFFICES ASSUME NEW s \in SUBSET Listed, NEW x \in s
               PROVE  h[s] = Count(x) + h[s \ {x}]
    OBVIOUS
  <2>1. s \in SUBSET Node /\ s \ {x} \in SUBSET Listed
    BY ListedFinite
  <2>2. Cardinality(Pairs(s)) = Count(x) + Cardinality(Pairs(s \ {x}))
    BY <2>1, PairsGrow
  <2> QED BY <2>1, <2>2
<1>3. DOMAIN h = SUBSET Listed /\ h = [s \in SUBSET Listed |-> h[s]]
  OBVIOUS
<1>4. h[Listed] \in Nat
  <2>1. IsFiniteSet(Listed \X IP)
    BY ListedFinite, IpAssumption, FS_Product
  <2>2. Pairs(Listed) \in SUBSET (Listed \X IP)
    BY DEF Pairs
  <2>3. IsFiniteSet(Pairs(Listed))
    BY <2>1, <2>2, FS_Subset
  <2> QED BY <2>3, FS_CardinalityType
<1> HIDE DEF h
<1>5. MapThenSumSet(Count, Listed) = h[Listed]
  BY <1>1, <1>2, <1>3, CountSum
<1> QED BY <1>4, <1>5

\* Droplets of one IP each have as many IPs as they are.
LEMMA SumOfOnes ==
  ASSUME TypeOK, \A d \in Listed : Count(d) = 1
  PROVE  MapThenSumSet(Count, Listed) = Cardinality(Listed)
<1> DEFINE h == [s \in SUBSET Listed |-> Cardinality(s)]
<1>1. h[{}] = 0
  BY FS_EmptySet
<1>2. \A s \in SUBSET Listed : s # {} => \A x \in s : h[s] = Count(x) + h[s \ {x}]
  <2> SUFFICES ASSUME NEW s \in SUBSET Listed, NEW x \in s
               PROVE  h[s] = Count(x) + h[s \ {x}]
    OBVIOUS
  <2>1. IsFiniteSet(s) /\ s \ {x} \in SUBSET Listed
    BY ListedFinite, FS_Subset
  <2>2. Cardinality(s \ {x}) = Cardinality(s) - 1 /\ Cardinality(s) \in Nat
    BY <2>1, FS_RemoveElement, FS_CardinalityType
  <2>3. Cardinality(s) = 1 + Cardinality(s \ {x})
    BY <2>2
  <2> QED BY <2>1, <2>3
<1>3. DOMAIN h = SUBSET Listed /\ h = [s \in SUBSET Listed |-> h[s]]
  OBVIOUS
<1>4. h[Listed] = Cardinality(Listed)
  OBVIOUS
<1> HIDE DEF h
<1>5. MapThenSumSet(Count, Listed) = h[Listed]
  BY <1>1, <1>2, <1>3, CountSum
<1> QED BY <1>4, <1>5

\* A share of at least one IP comes from some droplet that has two.
LEMMA SomeGiver ==
  ASSUME TypeOK, EveryDropletHasIp, Share > 0
  PROVE  Givers # {} /\ Share \in Nat
<1>1. Cardinality(Listed) \in Nat /\ MapThenSumSet(Count, Listed) \in Nat
  BY ListedFinite, SumIsNat
<1>2. Share \in Nat
  BY <1>1 DEF Share
<1>3. ASSUME Givers = {} PROVE FALSE
  <2>1. \A d \in Listed : Count(d) = 1
    BY <1>3, DropletFinite, ListedFinite DEF Givers, EveryDropletHasIp
  <2>2. Share = Cardinality(Listed) \div (Cardinality(Listed) + 1)
    BY <2>1, SumOfOnes DEF Share
  <2>3. \A k \in Nat : k \div (k + 1) = 0
    OBVIOUS
  <2> QED BY <1>1, <2>2, <2>3
<1> QED BY <1>2, <1>3

\* Before the first pass nothing is taken.
LEMMA TakenNothing ==
  ASSUME TypeOK
  PROVE  Taken(0) = 0
<1>1. IsFiniteSet(Givers)
  BY ListedFinite, FS_Subset DEF Givers
<1>2. \A d \in Givers : Popped(d, 0) = 0
  BY DropletFinite DEF Givers, Listed, Popped
<1> DEFINE P(f) == f = [s \in SUBSET Givers |->
                IF s = {} THEN 0
                ELSE Popped(CHOOSE x \in s : TRUE, 0) + f[s \ {CHOOSE x \in s : TRUE}]]
           g == CHOOSE f : P(f)
           h == [s \in SUBSET Givers |-> 0]
<1>3. \A s \in SUBSET Givers : s # {} => Popped(CHOOSE x \in s : TRUE, 0) = 0
  BY <1>2
<1>4. P(h)
  BY <1>3
<1>5. P(g)
  <2> HIDE DEF P
  <2> QED BY <1>4
<1>6. Taken(0) = g[Givers]
  BY DEF Taken, MapThenSumSet, MapThenFoldSet
<1> HIDE DEF g
<1>7. g[{}] = h[{}]
  BY <1>5
<1>8. \A s \in SUBSET Givers : s # {} =>
        \E x \in s : g[s \ {x}] = h[s \ {x}] => g[s] = h[s]
  <2> SUFFICES ASSUME NEW s \in SUBSET Givers, s # {}
               PROVE  \E x \in s : g[s \ {x}] = h[s \ {x}] => g[s] = h[s]
    OBVIOUS
  <2> DEFINE x == CHOOSE y \in s : TRUE
  <2>1. x \in s
    OBVIOUS
  <2>2. g[s] = Popped(x, 0) + g[s \ {x}]
    BY <1>5
  <2>3. Popped(x, 0) = 0
    BY <1>3
  <2>4. h[s] = 0 /\ h[s \ {x}] = 0
    OBVIOUS
  <2> HIDE DEF x, h
  <2>5. g[s \ {x}] = h[s \ {x}] => g[s] = h[s]
    BY <2>2, <2>3, <2>4
  <2> QED BY <2>1, <2>5
<1>9. h[Givers] = 0
  OBVIOUS
<1> HIDE DEF h
<1>10. g[Givers] = h[Givers]
  BY <1>1, <1>7, <1>8, FoldsAgree
<1> QED BY <1>6, <1>9, <1>10

\* Passes that take the same from every giver take the same.
LEMMA TakenSame ==
  ASSUME NEW p, NEW q, \A d \in Givers : Popped(d, p) = Popped(d, q)
  PROVE  Taken(p) = Taken(q)
<1> DEFINE P(f, r) == f = [s \in SUBSET Givers |->
             IF s = {} THEN 0
             ELSE Popped(CHOOSE x \in s : TRUE, r) + f[s \ {CHOOSE x \in s : TRUE}]]
<1>1. \A f : P(f, p) <=> P(f, q)
  <2> SUFFICES ASSUME NEW s \in SUBSET Givers, s # {}
               PROVE  Popped(CHOOSE x \in s : TRUE, p) = Popped(CHOOSE x \in s : TRUE, q)
    OBVIOUS
  <2> QED OBVIOUS
<1>2. (CHOOSE f : P(f, p)) = (CHOOSE f : P(f, q))
  BY <1>1
<1>3. Taken(p) = (CHOOSE f : P(f, p))[Givers] /\ Taken(q) = (CHOOSE f : P(f, q))[Givers]
  BY DEF Taken, MapThenSumSet, MapThenFoldSet
<1> HIDE DEF P
<1> QED BY <1>2, <1>3

\* The passes end: once there are more than any droplet has IPs, one more takes
\* nothing.
LEMMA PassesEnd ==
  ASSUME TypeOK
  PROVE  Passes \in Nat /\ Enough(Passes)
<1> DEFINE N == Cardinality(IP) + 1
           T == {p \in 0 .. N : Enough(p)}
<1>1. Cardinality(IP) \in Nat /\ N \in Nat /\ N - 1 = Cardinality(IP) /\ N > 0
  BY IpAssumption, FS_CardinalityType
<1>2. \A d \in Givers : Popped(d, N) = Popped(d, N - 1)
  <2> TAKE d \in Givers
  <2>1. Count(d) \in Nat /\ Count(d) <= Cardinality(IP)
    BY DropletFinite, ListedFinite DEF Givers
  <2> QED BY <1>1, <2>1 DEF Popped
<1>3. Enough(N)
  BY <1>1, <1>2, TakenSame DEF Enough
<1>4. T \in SUBSET Nat /\ N \in T
  BY <1>1, <1>3
<1> HIDE DEF T
<1>5. PICK m \in T : \A k \in T : m <= k
  BY <1>4, SmallestMember
<1> USE DEF T
<1>6. m \in 0 .. N /\ Enough(m)
  BY <1>5
<1>7. \A q \in 0 .. m - 1 : ~Enough(q)
  <2> SUFFICES ASSUME NEW q \in 0 .. m - 1, Enough(q) PROVE FALSE
    OBVIOUS
  <2>1. q \in T
    BY <1>1, <1>6
  <2> HIDE DEF T
  <2> QED BY <1>1, <1>5, <1>6, <2>1
<1> DEFINE First(p) == Enough(p) /\ \A q \in 0 .. p - 1 : ~Enough(q)
<1>8. First(m)
  BY <1>6, <1>7
<1>9. Passes = CHOOSE p \in 0 .. N : First(p)
  BY DEF Passes
<1> HIDE DEF First, N
<1>10. Passes \in 0 .. N /\ First(Passes)
  BY <1>6, <1>8, <1>9
<1> QED BY <1>1, <1>10 DEF First

\* A POST leaves every giver at least one IP, and takes at least one.
LEMMA TakesAndLeaves ==
  ASSUME TypeOK, EveryDropletHasIp, Share > 0, NEW left \in Leavings
  PROVE  /\ \A d \in Givers : left[d] # {}
         /\ UNION {droplets[d].ip \ left[d] : d \in Givers} # {}
<1>1. Givers # {} /\ Share \in Nat
  BY SomeGiver
<1>2. Passes \in Nat /\ Enough(Passes)
  BY PassesEnd
<1>3. Passes # 0
  BY <1>1, <1>2, TakenNothing DEF Enough
<1>4. \A d \in Givers : left[d] # {} /\ droplets[d].ip \ left[d] # {}
  <2> TAKE d \in Givers
  <2>1. d \in Node /\ Count(d) > 1
    BY ListedFinite DEF Givers
  <2>2. IsFiniteSet(droplets[d].ip) /\ Count(d) \in Nat
    BY <2>1, DropletFinite
  <2>3. Popped(d, Passes) \in Nat /\ Popped(d, Passes) > 0 /\ Popped(d, Passes) < Count(d)
    BY <1>2, <1>3, <2>1, <2>2 DEF Popped
  <2>4. left[d] \subseteq droplets[d].ip /\ Cardinality(left[d]) = Count(d) - Popped(d, Passes)
    BY DEF Leavings
  <2>5. Cardinality(left[d]) # 0 /\ Cardinality(left[d]) # Count(d)
    BY <2>2, <2>3, <2>4
  <2>6. left[d] # {}
    BY <2>5, FS_EmptySet
  <2>7. left[d] # droplets[d].ip
    BY <2>5 DEF Count
  <2> QED BY <2>4, <2>6, <2>7
<1> QED BY <1>1, <1>4

\* Whatever is about to be written to a droplet names an IP.
WritesHaveIp ==
  /\ \A d \in Node : handler[d].running => handler[d].ip # {}
  /\ \A d \in Pending : req.body[d].ip # {}
  /\ req.op = "post" /\ req.phase \in Moving => req.new # {}

HasIpInv == EveryDropletHasIp /\ WritesHaveIp

LEMMA HasIpInit == Init => HasIpInv
BY DEF Init, HasIpInv, EveryDropletHasIp, WritesHaveIp, Listed, Absent, NoRequest,
       Pending, Moving

LEMMA PostHasIp ==
  ASSUME TypeOK, HasIpInv, NEW n \in Node,
         PostFirst(n) \/ PostTooFew(n) \/ PostTakes(n)
  PROVE  HasIpInv'
<1> USE DEF HasIpInv
<1>1. UNCHANGED <<droplets, handler>>
  BY DEF PostFirst, PostTooFew, PostTakes, BeginPost, oper
<1>2. EveryDropletHasIp'
  BY <1>1 DEF EveryDropletHasIp, Listed
<1>3. CASE PostFirst(n) \/ PostTooFew(n)
  <2>1. Pending' = {} /\ (req'.phase \in Moving => req'.new = IP)
    BY <1>3 DEF PostFirst, PostTooFew, BeginPost, Pending, Moving
  <2> QED BY <1>1, <1>2, <2>1, IpAssumption DEF WritesHaveIp
<1>4. CASE PostTakes(n)
  <2>1. PICK left \in Leavings :
          BeginPost(n, Givers, Relisted(Givers, left),
                    UNION {droplets[d].ip \ left[d] : d \in Givers}, "pick")
    BY <1>4 DEF PostTakes
  <2>2. /\ \A d \in Givers : left[d] # {}
        /\ UNION {droplets[d].ip \ left[d] : d \in Givers} # {}
    BY <1>4, TakesAndLeaves DEF PostTakes
  <2>3. Pending' = Givers /\ req'.body = Relisted(Givers, left)
        /\ req'.new = UNION {droplets[d].ip \ left[d] : d \in Givers}
    BY <2>1 DEF BeginPost, Pending
  <2>4. \A d \in Givers : req'.body[d].ip = left[d]
    BY <2>3, ListedFinite DEF Relisted, Givers
  <2> QED BY <1>1, <1>2, <2>2, <2>3, <2>4 DEF WritesHaveIp
<1> QED BY <1>3, <1>4

LEMMA DeleteHasIp ==
  ASSUME TypeOK, HasIpInv, NEW n \in Node, BeginDelete(n)
  PROVE  HasIpInv'
<1> USE DEF HasIpInv
<1>1. UNCHANGED <<droplets, handler>>
  BY DEF BeginDelete, oper
<1>2. PICK deal \in Deals(n, Listed \ {n}) :
        LET receivers == {d \in Listed \ {n} : deal[d] # {}} IN
        req' = [NoRequest EXCEPT
                  !.phase = "remove", !.op = "delete", !.node = n,
                  !.todo = receivers,
                  !.body = Relisted(receivers,
                             [d \in receivers |-> droplets[d].ip \cup deal[d]])]
  BY DEF BeginDelete
<1> DEFINE receivers == {d \in Listed \ {n} : deal[d] # {}}
           body == Relisted(receivers, [d \in receivers |-> droplets[d].ip \cup deal[d]])
<1>3. \A d \in receivers : body[d].ip # {}
  BY ListedFinite DEF Relisted
<1> HIDE DEF receivers, body
<1>4. req' = [phase |-> "remove", op |-> "delete", node |-> n, todo |-> receivers,
              cur |-> None, body |-> body, new |-> {}]
  BY <1>2 DEF receivers, body, NoRequest
<1>5. Pending' = receivers
  BY <1>4 DEF Pending
<1> QED BY <1>1, <1>3, <1>4, <1>5 DEF EveryDropletHasIp, WritesHaveIp, Listed

LEMMA HasIpStep ==
  ASSUME TypeOK, RequestShape, HasIpInv, [Next]_vars
  PROVE  HasIpInv'
<1> USE DEF HasIpInv, kube, oper, db, memory, plane, history
<1>0. Pending \subseteq Node
  BY DEF Pending, RequestShape, TypeOK, Request
<1>1. ASSUME NEW n \in Node, PostFirst(n) \/ PostTooFew(n) \/ PostTakes(n)
      PROVE  HasIpInv'
  BY <1>1, PostHasIp
<1>2. ASSUME NEW n \in Node, BeginDelete(n)
      PROVE  HasIpInv'
  BY <1>2, DeleteHasIp
<1>3. ASSUME \/ req' = NoRequest
             \/ /\ req'.op = req.op /\ req'.body = req.body /\ req'.new = req.new
                /\ Pending' \subseteq Pending
                /\ req'.op = "post" /\ req'.phase \in Moving => req.phase \in Moving,
             \A d \in Node : handler'[d].running => handler'[d].ip # {}
      PROVE  WritesHaveIp'
  <2>1. CASE req' = NoRequest
    BY <1>3, <2>1 DEF WritesHaveIp, NoRequest, Pending, Moving
  <2>2. CASE req' # NoRequest
    BY <1>3, <2>2 DEF WritesHaveIp
  <2> QED BY <2>1, <2>2
<1>4. ASSUME NEW c \in Node, \A d \in Node \ {c} : droplets'[d] = droplets[d],
             droplets'[c].state # "Absent" => droplets'[c].ip # {}
      PROVE  EveryDropletHasIp'
  BY <1>4 DEF EveryDropletHasIp, Listed
<1>5. UNCHANGED droplets => EveryDropletHasIp'
  BY DEF EveryDropletHasIp, Listed
<1>6. CASE Replace
  <2>1. /\ req.cur \in Pending /\ req.cur \in Node
        /\ droplets' = [droplets EXCEPT ![req.cur] = Written(req.cur)]
        /\ UNCHANGED handler
    BY <1>0, <1>6 DEF Replace, Pending
  <2>2. Pending' \subseteq Pending
    BY <1>6 DEF Replace, Pending, TypeOK, Request
  <2>3. /\ req'.op = req.op /\ req'.body = req.body /\ req'.new = req.new
        /\ req.phase \in Moving
    BY <1>6 DEF Replace, TypeOK, Request, Moving
  <2>4. WritesHaveIp'
    BY <1>3, <2>1, <2>2, <2>3 DEF WritesHaveIp
  <2>5. Written(req.cur).ip # {}
    BY <2>1 DEF Written, WritesHaveIp
  <2>6. EveryDropletHasIp'
    BY <1>4, <2>1, <2>5 DEF TypeOK
  <2> QED BY <2>4, <2>6
<1>7. CASE Create
  <2>1. /\ req.node \in Node /\ req.op = "post" /\ req.phase \in Moving
        /\ droplets'[req.node] = [state |-> "Init", ip |-> req.new]
        /\ \A d \in Node \ {req.node} : droplets'[d] = droplets[d]
        /\ UNCHANGED handler /\ Pending' = {}
        /\ req'.phase = "pushNew"
    BY <1>7, CreateMoves
  <2>2. WritesHaveIp'
    BY <2>1 DEF WritesHaveIp, Moving
  <2>3. EveryDropletHasIp'
    BY <1>4, <2>1 DEF WritesHaveIp
  <2> QED BY <2>2, <2>3
<1>8. CASE Remove
  <2>1. /\ req.node \in Node /\ UNCHANGED handler
        /\ \A d \in Node \ {req.node} : droplets'[d] = droplets[d]
        /\ droplets'[req.node].ip = droplets[req.node].ip
        /\ droplets'[req.node].state # "Absent" => droplets[req.node].state # "Absent"
    BY <1>8 DEF Remove, RequestShape, TypeOK, Droplet
  <2>2. EveryDropletHasIp'
    BY <1>4, <2>1 DEF EveryDropletHasIp, Listed
  <2>3. /\ req'.op = "delete" /\ req'.op = req.op
        /\ req'.body = req.body /\ req'.new = req.new
    BY <1>8 DEF Remove, RequestShape, TypeOK, Request
  <2>4. Pending' \subseteq Pending
    BY <1>8 DEF Remove, Pending, TypeOK, Request
  <2> QED BY <1>3, <2>1, <2>2, <2>3, <2>4 DEF WritesHaveIp
<1>9. ASSUME NEW d \in Node, FinishProvision(d) \/ Finalize(d)
      PROVE  HasIpInv'
  <2>1. UNCHANGED req /\ \A e \in Node : handler'[e].running => handler'[e] = handler[e]
    BY <1>9 DEF FinishProvision, Finalize, TypeOK
  <2>2. Pending' = Pending
    BY <2>1 DEF Pending
  <2>3. Patched(d).state # "Absent" => Patched(d).ip = handler[d].ip
    BY DEF Patched
  <2>4. /\ \A e \in Node \ {d} : droplets'[e] = droplets[e]
        /\ droplets'[d].state # "Absent" => droplets'[d].ip # {}
    BY <1>9, <2>3 DEF FinishProvision, Finalize, Absent, TypeOK, WritesHaveIp
  <2>5. EveryDropletHasIp'
    BY <1>4, <2>4
  <2>6. WritesHaveIp'
    BY <1>3, <2>1, <2>2 DEF WritesHaveIp
  <2> QED BY <2>5, <2>6
<1>10. CASE (\E n \in Node : PostNoZgc(n)) \/ PostZgc \/ UNCHANGED vars
  <2>1. UNCHANGED <<droplets, req, handler>>
    BY <1>10 DEF PostNoZgc, PostZgc, vars
  <2>2. Pending' = Pending
    BY <2>1 DEF Pending
  <2> QED BY <1>3, <1>5, <2>1, <2>2 DEF WritesHaveIp
<1>11. CASE \/ \E d \in Node : AbortNoRow(d)
            \/ Commit \/ Unload \/ ManagerCrash \/ RequestFails
  <2>1. req' = NoRequest /\ UNCHANGED <<droplets, handler>>
    BY <1>11 DEF AbortNoRow, Commit, Unload, ManagerCrash, RequestFails
  <2> QED BY <1>3, <1>5, <2>1 DEF WritesHaveIp
<1>12. ASSUME NEW d \in Node, GwDelete(d) \/ PickReceiver(d)
       PROVE  HasIpInv'
  <2>a. /\ UNCHANGED <<droplets, handler>>
        /\ req.phase = "pick" /\ d \in req.todo
        /\ \E ph \in {"gwAdd", "replace"} :
             req' = [req EXCEPT !.phase = ph, !.cur = d, !.todo = @ \ {d}]
    BY <1>12 DEF GwDelete, PickReceiver
  <2>b. req \in Request
    BY DEF TypeOK
  <2>1. /\ UNCHANGED <<droplets, handler>>
        /\ req'.op = req.op /\ req'.body = req.body /\ req'.new = req.new
        /\ req.phase = "pick"
    BY <2>a, <2>b DEF Request
  <2>2. Pending' \subseteq Pending
    BY <2>a, <2>b DEF Pending, Request
  <2> QED BY <1>3, <1>5, <2>1, <2>2 DEF WritesHaveIp, Moving
<1>13. CASE GwAdd \/ ReplaceRefused \/ Push \/ CreateRefused \/ PushNew \/ RemoveRefused
  <2>1. PICK p \in {"replace", "pick", "commit"} :
          /\ req' = [req EXCEPT !.phase = p] /\ UNCHANGED <<droplets, handler>>
          /\ p \in Moving => req.phase \in Moving \/ req.op = "delete"
          /\ p = "replace" => req.phase = "gwAdd"
    BY <1>13 DEF GwAdd, ReplaceRefused, Push, CreateRefused, PushNew, RemoveRefused,
                 RequestShape, Moving
  <2>2. /\ req'.phase = p /\ req'.op = req.op /\ req'.body = req.body
        /\ req'.new = req.new /\ req'.todo = req.todo /\ req'.cur = req.cur
    BY <2>1 DEF TypeOK, Request
  <2>3. Pending' \subseteq Pending
    BY <2>1, <2>2 DEF Pending
  <2> QED BY <1>3, <1>5, <2>1, <2>2, <2>3 DEF WritesHaveIp
<1>14. ASSUME NEW d \in Node, StartProvision(d)
       PROVE  HasIpInv'
  <2>1. \A e \in Node : handler'[e].running => handler'[e].ip # {}
    BY <1>14 DEF StartProvision, TypeOK, WritesHaveIp, EveryDropletHasIp, Listed
  <2>2. UNCHANGED <<droplets, req>>
    BY <1>14 DEF StartProvision
  <2>3. Pending' = Pending
    BY <2>2 DEF Pending
  <2> QED BY <1>3, <1>5, <2>1, <2>2, <2>3
<1>15. CASE OperatorCrash
  <2>1. UNCHANGED <<droplets, req>> /\ \A e \in Node : ~handler'[e].running
    BY <1>15 DEF OperatorCrash
  <2>2. Pending' = Pending
    BY <2>1 DEF Pending
  <2> QED BY <1>3, <1>5, <2>1, <2>2
<1> QED
  BY <1>1, <1>2, <1>6, <1>7, <1>8, <1>9, <1>10, <1>11, <1>12, <1>13, <1>14, <1>15
     DEF Next, ManagerStep, OperatorStep

\* No droplet is ever without an IP: however requests race the operator, are
\* refused, resubmitted or cut short, a POST leaves every giver one IP and
\* creates no droplet without one.
THEOREM NoneEmptied == Spec => []EveryDropletHasIp
<1>1. TypeOK /\ RequestShape /\ HasIpInv /\ [Next]_vars
        => (TypeOK /\ RequestShape /\ HasIpInv)'
  BY TypeStep, HasIpStep
<1>2. HasIpInv => EveryDropletHasIp
  BY DEF HasIpInv
<1> QED BY TypeInit, HasIpInit, <1>1, <1>2, PTL DEF Spec

(***************************************************************************)
(* The nodes the manager knows, for GatewayNodes.                          *)
(***************************************************************************)

\* Every step but the end of the worker.
NextUnkilled ==
  \/ \E n \in Node : PostFirst(n) \/ PostTooFew(n) \/ PostTakes(n)
                    \/ PostNoZgc(n) \/ BeginDelete(n)
  \/ PostZgc
  \/ ManagerStep
  \/ \E d \in Node : OperatorStep(d)
  \/ RequestFails
  \/ OperatorCrash
  \/ UNCHANGED vars

\* The droplets in service are those of nodes the manager knows: a POST has
\* entered its node, and a DELETE that will take its node out has taken the
\* droplet out of service, unless the API server did not have it so.
ServedKnown ==
  /\ \A d \in Node : Live(d) => d \in node_ips \cup stranded
  /\ req.phase # "idle" /\ req.op = "post" => req.node \in node_ips
  /\ req.phase \notin {"idle", "remove"} /\ req.op = "delete" =>
       ~ Live(req.node) \/ req.node \in stranded

LEMMA ServedInit == Init => ServedKnown
BY DEF Init, ServedKnown, Live, Absent, NoRequest

LEMMA ServedStep ==
  ASSUME TypeOK, RequestShape, RacingInv, ServedKnown, NextUnkilled
  PROVE  ServedKnown'
<1> USE DEF kube, oper, db, memory, plane, history
<1>1. ASSUME NEW n \in Node, PostFirst(n) \/ PostTooFew(n) \/ PostTakes(n)
      PROVE  ServedKnown'
  <2>1. /\ UNCHANGED droplets /\ node_ips' = node_ips \cup {n}
        /\ stranded' = stranded \ {n} /\ req'.op = "post" /\ req'.node = n
    BY <1>1 DEF PostFirst, PostTooFew, PostTakes, BeginPost
  <2> QED BY <2>1 DEF ServedKnown, Live
<1>2. ASSUME NEW n \in Node, PostNoZgc(n)
      PROVE  ServedKnown'
  <2>1. /\ UNCHANGED <<droplets, req>> /\ req.phase = "idle"
        /\ node_ips' = node_ips \cup {n} /\ stranded' = stranded \ {n}
    BY <1>2 DEF PostNoZgc
  <2> QED BY <2>1 DEF ServedKnown, Live
<1>3. ASSUME NEW n \in Node, BeginDelete(n)
      PROVE  ServedKnown'
  <2>1. /\ UNCHANGED <<droplets, node_ips, stranded>>
        /\ req'.phase = "remove" /\ req'.op = "delete"
    BY <1>3 DEF BeginDelete, NoRequest
  <2> QED BY <2>1 DEF ServedKnown, Live
<1>4. CASE PostZgc \/ OperatorCrash \/ UNCHANGED vars
  <2>1. UNCHANGED <<droplets, node_ips, stranded, req>>
    BY <1>4 DEF PostZgc, OperatorCrash, vars
  <2> QED BY <2>1 DEF ServedKnown, Live
<1>5. ASSUME UNCHANGED <<droplets, node_ips, stranded>>,
             \/ req' = NoRequest
             \/ /\ req.phase \notin {"idle", "remove"}
                /\ req'.op = req.op /\ req'.node = req.node
      PROVE  ServedKnown'
  BY <1>5 DEF ServedKnown, Live, NoRequest
<1>6. ASSUME NEW d \in Node, GwDelete(d) \/ AbortNoRow(d) \/ PickReceiver(d)
      PROVE  ServedKnown'
  <2>1. /\ UNCHANGED <<droplets, node_ips, stranded>> /\ req.phase = "pick"
        /\ \/ req' = NoRequest
           \/ \E ph \in Phase, t \in SUBSET Node :
                req' = [req EXCEPT !.phase = ph, !.cur = d, !.todo = t]
    <3>1. req.todo \ {d} \in SUBSET Node
      BY DEF TypeOK, Request
    <3> QED BY <1>6, <3>1 DEF GwDelete, AbortNoRow, PickReceiver, Phase
  <2>2. req' = NoRequest \/ (req'.op = req.op /\ req'.node = req.node)
    BY <2>1 DEF TypeOK, Request
  <2> QED BY <1>5, <2>1, <2>2
<1>7. CASE GwAdd \/ ReplaceRefused \/ Push \/ CreateRefused \/ PushNew \/ Commit
  <2>1. /\ UNCHANGED <<droplets, node_ips, stranded>>
        /\ req.phase \notin {"idle", "remove"}
        /\ req' = NoRequest \/ \E ph \in Phase : req' = [req EXCEPT !.phase = ph]
    BY <1>7 DEF GwAdd, ReplaceRefused, Push, CreateRefused, AfterUpdates, PushNew,
                Commit, Phase
  <2>2. req' = NoRequest \/ (req'.op = req.op /\ req'.node = req.node)
    BY <2>1 DEF TypeOK, Request
  <2> QED BY <1>5, <2>1, <2>2
<1>8. CASE Replace
  <2>1. /\ UNCHANGED <<node_ips, stranded>> /\ req.phase = "replace"
        /\ req'.op = req.op /\ req'.node = req.node /\ req'.phase = "push"
    BY <1>8 DEF Replace, TypeOK, Request
  <2>2. \A d \in Node : Live(d)' <=> Live(d)
    BY <1>8, ReplaceKeepsStatus DEF Live
  <2>3. req.node \in Node
    BY <2>1 DEF RequestShape
  <2> QED BY <2>1, <2>2, <2>3 DEF ServedKnown, Live
<1>9. CASE Create
  <2>1. UNCHANGED <<node_ips, stranded>> /\ req.phase # "idle"
    BY <1>9 DEF Create, AfterUpdates
  <2> QED BY <1>9, <2>1, CreateMoves DEF ServedKnown, Live
<1>10. CASE Remove
  <2>1. /\ UNCHANGED <<node_ips, stranded>> /\ req.node \in Node
        /\ \A d \in Node \ {req.node} : droplets'[d] = droplets[d]
        /\ droplets'[req.node].state \in {"Absent", "Deleting"}
    BY <1>10 DEF Remove, RequestShape, TypeOK, Droplet
  <2>2. req'.op = "delete" /\ req'.node = req.node
    BY <1>10 DEF Remove, RequestShape, TypeOK, Request
  <2> QED BY <2>1, <2>2 DEF ServedKnown, Live
<1>11. CASE Unload
  <2>1. /\ UNCHANGED <<droplets, stranded>> /\ node_ips' = node_ips \ {req.node}
        /\ req' = NoRequest
        /\ req.op = "delete" /\ req.phase = "pick"
    BY <1>11 DEF Unload
  <2> QED BY <2>1 DEF ServedKnown, Live, NoRequest
<1>12. ASSUME NEW d \in Node, OperatorStep(d)
       PROVE  ServedKnown'
  <2>1. UNCHANGED <<node_ips, stranded, req>>
    BY <1>12 DEF OperatorStep, StartProvision, FinishProvision, Finalize
  <2>2. Live(d)' => Live(d)
    <3>1. CASE StartProvision(d)
      BY <3>1 DEF StartProvision, Live
    <3>2. CASE FinishProvision(d)
      <4>1. droplets'[d] = Patched(d) /\ droplets[d] \in Droplet
        BY <3>2 DEF FinishProvision, TypeOK
      <4> QED BY <4>1 DEF Patched, Live, Droplet
    <3>3. CASE Finalize(d)
      <4>1. droplets'[d] = Absent
        BY <3>3 DEF Finalize, TypeOK
      <4> QED BY <4>1 DEF Absent, Live
    <3> QED BY <1>12, <3>1, <3>2, <3>3 DEF OperatorStep
  <2>3. \A e \in Node \ {d} : droplets'[e] = droplets[e]
    BY <1>12 DEF OperatorStep, StartProvision, FinishProvision, Finalize, TypeOK
  <2>4. req.phase # "idle" => req.node \in Node
    BY DEF RequestShape
  <2> QED BY <2>1, <2>2, <2>3, <2>4 DEF ServedKnown, Live
<1>13. CASE RemoveRefused
  <2>1. /\ UNCHANGED <<droplets, node_ips>> /\ stranded' = stranded \cup {req.node}
        /\ req'.op = "delete" /\ req'.node = req.node /\ req.node \in Node
    BY <1>13, RefusedMoves DEF RemoveRefused, ReplaceRefused, CreateRefused,
                               AfterUpdates, kube, memory
  <2> QED BY <2>1 DEF ServedKnown, Live
<1>14. CASE RequestFails
  BY <1>14, <1>5 DEF RequestFails
<1> QED
  BY <1>1, <1>2, <1>3, <1>4, <1>6, <1>7, <1>8, <1>9, <1>10, <1>11, <1>12, <1>13, <1>14
     DEF NextUnkilled, ManagerStep
=============================================================================
