------------------------- MODULE ZgcDropletsProofs -------------------------
(***************************************************************************)
(* Theorems about ZgcDroplets, for any nodes, any range of IPs and any     *)
(* number of requests and crashes.                                         *)
(***************************************************************************)
EXTENDS ZgcDroplets, TLAPS

(***************************************************************************)
(* Type correctness, whether or not requests start settled.                *)
(***************************************************************************)

\* What a request computes from the droplets it listed is well typed.
LEMMA RelistedType ==
  ASSUME TypeOK, NEW S \in SUBSET Node, NEW ips, \A d \in S : ips[d] \subseteq IP
  PROVE  Relisted(S, ips) \in [Node -> Body]
BY DEF Relisted, NoBody, Body, TypeOK

LEMMA NoRequestType == NoRequest \in Request
BY DEF NoRequest, NoBody, Body, Request, Phase

LEMMA PostTypes ==
  ASSUME TypeOK, RequestShape, NEW n \in Node,
         PostFirst(n) \/ PostTooFew(n) \/ PostTakes(n)
  PROVE  TypeOK' /\ RequestShape'
<1>1. Givers \subseteq Node
  BY DEF Givers, Listed
<1>2. PICK todo \in SUBSET Node, body \in [Node -> Body], new \in SUBSET IP,
           phase \in {"pick", "create", "commit"} :
        BeginPost(n, todo, body, new, phase) /\ (phase # "pick" => todo = {})
  <2>0. NoBody \in [Node -> Body]
    BY DEF NoBody, Body
  <2>1. CASE PostFirst(n)
    BY <2>1, <2>0 DEF PostFirst
  <2>2. CASE PostTooFew(n)
    BY <2>2, <2>0 DEF PostTooFew
  <2>3. CASE PostTakes(n)
    <3>1. PICK left \in Leavings :
            BeginPost(n, Givers, Relisted(Givers, left),
                      UNION {droplets[d].ip \ left[d] : d \in Givers}, "pick")
      BY <2>3 DEF PostTakes
    <3>2. \A d \in Givers : droplets[d].ip \subseteq IP
      BY <1>1 DEF TypeOK, Droplet
    <3>3. \A d \in Givers : left[d] \subseteq IP
      BY <3>2 DEF Leavings
    <3>4. Relisted(Givers, left) \in [Node -> Body]
      BY <3>3, <1>1, RelistedType
    <3> QED BY <3>1, <3>2, <3>4, <1>1
  <2> QED BY <2>1, <2>2, <2>3
<1>3. TypeOK'
  BY <1>2 DEF BeginPost, TypeOK, Request, Phase, oper, db
<1>4. RequestShape'
  BY <1>2 DEF BeginPost, RequestShape
<1> QED BY <1>3, <1>4

LEMMA DeleteTypes ==
  ASSUME TypeOK, RequestShape, NEW n \in Node, BeginDelete(n)
  PROVE  TypeOK' /\ RequestShape'
<1>1. PICK deal \in Deals(n, Listed \ {n}) :
        LET receivers == {d \in Listed \ {n} : deal[d] # {}} IN
        req' = [NoRequest EXCEPT
                  !.phase = "remove", !.op = "delete", !.node = n,
                  !.todo = receivers,
                  !.body = Relisted(receivers,
                             [d \in receivers |-> droplets[d].ip \cup deal[d]])]
  BY DEF BeginDelete
<1> DEFINE receivers == {d \in Listed \ {n} : deal[d] # {}}
           body == Relisted(receivers, [d \in receivers |-> droplets[d].ip \cup deal[d]])
<1>2. receivers \subseteq Node
  BY DEF Listed
<1>3. deal \in [Listed \ {n} -> SUBSET droplets[n].ip]
  BY DEF Deals, DealsOf
<1>4. \A d \in receivers :
        [e \in receivers |-> droplets[e].ip \cup deal[e]][d] \subseteq IP
  BY <1>2, <1>3 DEF TypeOK, Droplet
<1>5. body \in [Node -> Body]
  BY <1>2, <1>4, RelistedType
<1> HIDE DEF receivers, body
<1>6. req' = [phase |-> "remove", op |-> "delete", node |-> n, todo |-> receivers,
              cur |-> None, body |-> body, new |-> {}]
  BY <1>1 DEF receivers, body, NoRequest
<1>7. TypeOK'
  <2>1. req' \in Request
    BY <1>2, <1>5, <1>6 DEF Request, Phase
  <2>2. /\ UNCHANGED <<droplets, oper, db, memory, plane, kept, lost, stranded, crashes>>
        /\ changed' = {} /\ requests' = requests + 1
    BY DEF BeginDelete
  <2> QED BY <2>1, <2>2 DEF TypeOK, oper, db, memory, plane
<1>8. RequestShape'
  BY <1>6 DEF RequestShape
<1> QED BY <1>7, <1>8

LEMMA TypeStep ==
  ASSUME TypeOK, RequestShape, [Next]_vars
  PROVE  TypeOK' /\ RequestShape'
<1> USE DEF kube, oper, db, memory, plane, history
<1>1. ASSUME NEW n \in Node, PostFirst(n) \/ PostTooFew(n) \/ PostTakes(n)
      PROVE  TypeOK' /\ RequestShape'
  BY <1>1, PostTypes
<1>2. ASSUME NEW n \in Node, BeginDelete(n)
      PROVE  TypeOK' /\ RequestShape'
  BY <1>2, DeleteTypes
<1>3. ASSUME NEW n \in Node, PostNoZgc(n)
      PROVE  TypeOK' /\ RequestShape'
  BY <1>3 DEF PostNoZgc, TypeOK, RequestShape
<1>4. CASE PostZgc
  BY <1>4 DEF PostZgc, TypeOK, RequestShape
<1>5. ASSUME NEW d \in Node, GwDelete(d) \/ PickReceiver(d)
      PROVE  TypeOK' /\ RequestShape'
  <2>0. /\ d \in Node /\ req \in Request
        /\ \E ph \in {"gwAdd", "replace"} :
             req' = [req EXCEPT !.phase = ph, !.cur = d, !.todo = @ \ {d}]
        /\ UNCHANGED <<kube, oper, nodeRows, memory, plane, history>>
        /\ gws' = gws \/ gws' = [gws EXCEPT ![d] = {}]
    BY <1>5 DEF GwDelete, PickReceiver, TypeOK
  <2>a. req' \in Request
    BY <2>0 DEF Request, Phase
  <2>1. TypeOK'
    BY <2>0, <2>a DEF TypeOK
  <2>2. RequestShape'
    BY <1>5 DEF GwDelete, PickReceiver, TypeOK, RequestShape, Request
  <2> QED BY <2>1, <2>2
<1>6. CASE (\E d \in Node : AbortNoRow(d)) \/ Unload
  <2>1. TypeOK'
    BY <1>6, NoRequestType DEF AbortNoRow, Unload, TypeOK
  <2>2. RequestShape'
    BY <1>6 DEF AbortNoRow, Unload, RequestShape, NoRequest
  <2> QED BY <2>1, <2>2
<1>7. CASE GwAdd
  <2>1. req.cur \in Node /\ req.body[req.cur].ip \subseteq IP
    BY <1>7 DEF GwAdd, RequestShape, TypeOK, Request, Body
  <2> QED BY <1>7, <2>1 DEF GwAdd, TypeOK, RequestShape, Request, Phase
<1>8. CASE Replace \/ ReplaceRefused
  <2>1. /\ req.cur \in Node /\ Written(req.cur) \in Droplet
        /\ req.body[req.cur].ip \subseteq IP /\ droplets[req.cur].ip \subseteq IP
    BY <1>8 DEF Replace, ReplaceRefused, RequestShape, TypeOK, Request, Body,
                Droplet, Written
  <2>2. kept' \subseteq IP /\ lost' \subseteq IP
    BY <1>8, <2>1 DEF Replace, ReplaceRefused, TypeOK
  <2>3. TypeOK'
    BY <1>8, <2>1, <2>2 DEF Replace, ReplaceRefused, TypeOK, Request, Phase
  <2>4. RequestShape'
    BY <1>8, <2>1 DEF Replace, ReplaceRefused, TypeOK, RequestShape, Request
  <2> QED BY <2>3, <2>4
<1>9. CASE Push \/ PushNew
  <2>1. PICK d \in Node, ips \in SUBSET IP : Configure(d, ips)
    BY <1>9 DEF Push, PushNew, RequestShape, TypeOK, Request, Body
  <2>2. entrances' \in [Node -> SUBSET IP] /\ untold' \subseteq Node
    BY <2>1 DEF Configure, TypeOK
  <2>3. TypeOK'
    BY <1>9, <2>2 DEF Push, PushNew, TypeOK, Request, Phase
  <2>4. RequestShape'
    BY <1>9 DEF Push, PushNew, TypeOK, RequestShape, Request
  <2> QED BY <2>3, <2>4
<1>10. CASE Create \/ CreateRefused
  <2>1. req.node \in Node /\ req.new \subseteq IP /\ req.todo = {} /\ req.op = "post"
    BY <1>10 DEF Create, CreateRefused, AfterUpdates, RequestShape, TypeOK, Request
  <2>2. TypeOK'
    <3>1. CASE Create
      <4>1. [state |-> "Init", ip |-> req.new] \in Droplet
        BY <2>1 DEF Droplet
      <4>2. droplets' \in [Node -> Droplet] /\ changed' \subseteq Node
        BY <3>1, <4>1, <2>1 DEF Create, TypeOK
      <4> QED BY <3>1, <4>2 DEF Create, TypeOK, Request, Phase
    <3>2. CASE CreateRefused
      BY <3>2 DEF CreateRefused, TypeOK, Request, Phase
    <3> QED BY <1>10, <3>1, <3>2
  <2>3. RequestShape'
    BY <1>10, <2>1 DEF Create, CreateRefused, TypeOK, RequestShape, Request
  <2> QED BY <2>2, <2>3
<1>11. CASE Commit
  <2>1. req.node \in Node /\ req.new \subseteq IP
    BY <1>11 DEF Commit, RequestShape, TypeOK, Request
  <2>2. TypeOK'
    BY <1>11, <2>1, NoRequestType DEF Commit, TypeOK
  <2>3. RequestShape'
    BY <1>11 DEF Commit, RequestShape, NoRequest
  <2> QED BY <2>2, <2>3
<1>12. CASE Remove \/ RemoveRefused
  <2>1. req.node \in Node
    BY <1>12 DEF Remove, RemoveRefused, RequestShape
  <2>2. TypeOK'
    <3>1. droplets' \in [Node -> Droplet]
      BY <1>12, <2>1 DEF Remove, RemoveRefused, TypeOK, Droplet
    <3>2. kept' \subseteq IP
      <4>1. droplets[req.node].ip \subseteq IP
        BY <2>1 DEF TypeOK, Droplet
      <4> QED BY <1>12, <4>1 DEF Remove, RemoveRefused, TypeOK
    <3> QED BY <1>12, <2>1, <3>1, <3>2 DEF Remove, RemoveRefused, TypeOK, Request, Phase
  <2>3. RequestShape'
    BY <1>12, <2>1 DEF Remove, RemoveRefused, TypeOK, RequestShape, Request
  <2> QED BY <2>2, <2>3
<1>13. ASSUME NEW d \in Node, StartProvision(d)
       PROVE  TypeOK' /\ RequestShape'
  BY <1>13 DEF StartProvision, TypeOK, RequestShape, Droplet
<1>14. ASSUME NEW d \in Node, FinishProvision(d)
       PROVE  TypeOK' /\ RequestShape'
  <2>1. Patched(d) \in Droplet
    BY DEF Patched, TypeOK, Droplet
  <2> QED BY <1>14, <2>1 DEF FinishProvision, TypeOK, RequestShape
<1>15. ASSUME NEW d \in Node, Finalize(d)
       PROVE  TypeOK' /\ RequestShape'
  BY <1>15 DEF Finalize, TypeOK, RequestShape, Droplet, Absent
<1>16. CASE ManagerCrash
  <2>1. TypeOK'
    <3>1. activeZgc' \in BOOLEAN
      BY <1>16 DEF ManagerCrash
    <3>2. req' \in Request
      BY <1>16, NoRequestType DEF ManagerCrash
    <3>3. crashes' \in Nat /\ requests' \in Nat /\ node_ips' \subseteq Node
      BY <1>16 DEF ManagerCrash, TypeOK
    <3> QED BY <1>16, <3>1, <3>2, <3>3 DEF ManagerCrash, TypeOK
  <2>2. RequestShape'
    BY <1>16 DEF ManagerCrash, RequestShape, NoRequest
  <2> QED BY <2>1, <2>2
<1>17. CASE OperatorCrash
  BY <1>17 DEF OperatorCrash, TypeOK, RequestShape
<1>18. CASE RequestFails
  <2>1. TypeOK'
    <3>1. req' \in Request /\ crashes' \in Nat
      BY <1>18, NoRequestType DEF RequestFails, TypeOK
    <3> QED BY <1>18, <3>1 DEF RequestFails, TypeOK
  <2>2. RequestShape'
    BY <1>18 DEF RequestFails, RequestShape, NoRequest
  <2> QED BY <2>1, <2>2
<1>19. CASE UNCHANGED vars
  BY <1>19 DEF vars, TypeOK, RequestShape
<1> QED
  BY <1>1, <1>2, <1>3, <1>4, <1>5, <1>6, <1>7, <1>8, <1>9, <1>10, <1>11, <1>12,
     <1>13, <1>14, <1>15, <1>16, <1>17, <1>18, <1>19
     DEF Next, ManagerStep, OperatorStep

LEMMA TypeInit == Init => TypeOK /\ RequestShape
BY NoRequestType DEF Init, TypeOK, RequestShape, Droplet, Absent, NoRequest

\* Every reachable state is well typed: in particular no request ever writes a
\* droplet, a row or an entrance list out of a body that names other IPs than
\* those of the range, or acts for a node it does not have.
THEOREM TypeCorrect == Spec => []TypeOK
<1>1. TypeOK /\ RequestShape /\ [Next]_vars => (TypeOK /\ RequestShape)'
  BY TypeStep
<1> QED BY TypeInit, <1>1, PTL DEF Spec

(***************************************************************************)
(* No gateway IP has two owners, when requests start settled.              *)
(***************************************************************************)
LEMMA SharingInit == Init => Sharing
BY DEF Init, Sharing, OneOwner, HandlerCurrent, PendingCurrent, NewUnowned,
       Receiving, Live, Absent, NoRequest, Pending

\* Without a request the invariant speaks of the droplets and handlers only.
LEMMA EndRequest ==
  ASSUME Sharing, req' = NoRequest, UNCHANGED <<droplets, changed, handler, kept>>
  PROVE  Sharing'
<1> USE DEF Sharing
<1>1. Pending' = {}
  BY DEF Pending, NoRequest
<1>2. OneOwner' /\ HandlerCurrent' /\ PendingCurrent'
  BY <1>1 DEF OneOwner, Live, HandlerCurrent, PendingCurrent
<1>3. NewUnowned' /\ Receiving'
  BY DEF NewUnowned, Receiving, NoRequest, Moving
<1> QED BY <1>2, <1>3

\* A step that leaves the droplets, the handlers and what the request has
\* still to write as they are keeps the invariant.
LEMMA SameView ==
  ASSUME Sharing, UNCHANGED <<droplets, changed, handler, kept>>,
         req'.op = req.op, req'.node = req.node,
         req'.body = req.body, req'.new = req.new, Pending' = Pending,
         req'.phase \in Moving => req.phase \in Moving,
         req'.phase # "idle" => req.phase # "idle",
         req'.phase = "remove" <=> req.phase = "remove"
  PROVE  Sharing'
<1> USE DEF Sharing
<1>1. OneOwner' /\ HandlerCurrent' /\ PendingCurrent'
  BY DEF OneOwner, Live, HandlerCurrent, PendingCurrent
<1>2. NewUnowned'
  BY DEF NewUnowned, Live, Moving
<1>3. Receiving'
  BY DEF Receiving, Live
<1> QED BY <1>1, <1>2, <1>3


\* A POST begins: what the new node gets is with nobody but the givers.
LEMMA PostSharing ==
  ASSUME TypeOK, Sharing, Settled, NEW n \in Node,
         PostFirst(n) \/ PostTooFew(n) \/ PostTakes(n)
  PROVE  Sharing'
<1> USE DEF Sharing
<1>q. /\ \A d \in Node : droplets[d].state \in {"Absent", "Provisioned"}
      /\ UNCHANGED <<droplets, handler, kept>> /\ changed' = {}
  BY DEF PostFirst, PostTooFew, PostTakes, BeginPost, Quiet, oper
<1>o. OneOwner' /\ HandlerCurrent'
  BY <1>q DEF OneOwner, Live, HandlerCurrent
<1>1. CASE PostFirst(n) \/ PostTooFew(n)
  <2>1. PICK phase \in {"create", "commit"}, new \in SUBSET IP :
          /\ req' = [phase |-> phase, op |-> "post", node |-> n, todo |-> {},
                     cur |-> None, body |-> NoBody, new |-> new]
          /\ phase = "create" => Listed = {}
    BY <1>1 DEF PostFirst, PostTooFew, BeginPost
  <2>2. Pending' = {}
    BY <2>1 DEF Pending
  <2>3. PendingCurrent' /\ NewUnowned' /\ Receiving'
    BY <2>1, <2>2, <1>q DEF PendingCurrent, NewUnowned, Receiving, Moving, Live, Listed
  <2> QED BY <2>3, <1>o
<1>2. CASE PostTakes(n)
  <2>1. PICK left \in Leavings :
          BeginPost(n, Givers, Relisted(Givers, left),
                    UNION {droplets[d].ip \ left[d] : d \in Givers}, "pick")
    BY <1>2 DEF PostTakes
  <2>2. \A d \in Givers : left[d] \subseteq droplets[d].ip
    BY DEF Leavings
  <2>3. Givers \subseteq Listed /\ Listed \subseteq Node
    BY DEF Givers, Listed
  <2> DEFINE new == UNION {droplets[d].ip \ left[d] : d \in Givers}
             body == Relisted(Givers, left)
  <2> HIDE DEF new, body
  <2>4. req' = [phase |-> "pick", op |-> "post", node |-> n, todo |-> Givers,
                cur |-> None, body |-> body, new |-> new]
    BY <2>1 DEF BeginPost, new, body
  <2>5. \A d \in Givers : body[d].state = "Provisioned" /\ body[d].ip = left[d]
    BY <2>3, <1>q DEF body, Relisted, Listed
  <2>6. Pending' = Givers
    BY <2>4 DEF Pending
  <2>7. PendingCurrent'
    BY <2>3, <2>4, <2>5, <2>6, <1>q DEF PendingCurrent, Listed
  <2>8. \A d \in Givers : left[d] \cap new \subseteq kept
    <3> SUFFICES ASSUME NEW d \in Givers, NEW e \in Givers,
                        NEW x \in left[d], x \in droplets[e].ip \ left[e]
                 PROVE  x \in kept
      BY DEF new
    <3> QED BY <2>2, <2>3, <1>q DEF OneOwner, Live, Listed
  <2>9. \A d \in Node \ Givers : Live(d) => droplets[d].ip \cap new \subseteq kept
    <3> SUFFICES ASSUME NEW d \in Node \ Givers, Live(d), NEW e \in Givers,
                        NEW x \in droplets[d].ip, x \in droplets[e].ip
                 PROVE  x \in kept
      BY DEF new
    <3> QED BY <2>3, <1>q DEF OneOwner, Live, Listed
  <2>10. NewUnowned'
    <3>1. req'.body = body /\ req'.new = new
      BY <2>4
    <3>2. \A d \in Givers : /\ body[d].ip \subseteq droplets[d].ip
                            /\ body[d].ip \cap new \subseteq kept
      BY <2>2, <2>5, <2>8
    <3> QED BY <3>1, <3>2, <2>6, <2>9, <1>q DEF NewUnowned, Live
  <2>11. Receiving'
    BY <2>4 DEF Receiving
  <2> QED BY <2>7, <2>10, <2>11, <1>o
<1> QED BY <1>1, <1>2

\* A DELETE begins: what the others receive is with the leaving node, and no
\* two of them are dealt the same IP.
LEMMA DeleteSharing ==
  ASSUME TypeOK, Sharing, Settled, NEW n \in Node, BeginDelete(n)
  PROVE  Sharing'
<1> USE DEF Sharing
<1>q. /\ \A d \in Node : droplets[d].state \in {"Absent", "Provisioned"}
      /\ UNCHANGED <<droplets, handler, kept>> /\ changed' = {} /\ n \in Listed
  BY DEF BeginDelete, Quiet, oper
<1>o. OneOwner' /\ HandlerCurrent'
  BY <1>q DEF OneOwner, Live, HandlerCurrent
<1>1. PICK deal \in Deals(n, Listed \ {n}) :
        LET receivers == {d \in Listed \ {n} : deal[d] # {}} IN
        req' = [NoRequest EXCEPT
                  !.phase = "remove", !.op = "delete", !.node = n,
                  !.todo = receivers,
                  !.body = Relisted(receivers,
                             [d \in receivers |-> droplets[d].ip \cup deal[d]])]
  BY DEF BeginDelete
<1> DEFINE receivers == {d \in Listed \ {n} : deal[d] # {}}
           body == Relisted(receivers, [d \in receivers |-> droplets[d].ip \cup deal[d]])
<1>2. receivers \subseteq Listed \ {n} /\ Listed \subseteq Node
  BY DEF Listed
<1>3. /\ deal \in [Listed \ {n} -> SUBSET droplets[n].ip]
      /\ \A d, e \in Listed \ {n} : d # e => deal[d] \cap deal[e] = {}
  BY DEF Deals, DealsOf
<1>4. \A d \in receivers : /\ body[d].state = "Provisioned"
                           /\ body[d].ip = droplets[d].ip \cup deal[d]
  BY <1>2, <1>q DEF Relisted, Listed
<1> HIDE DEF receivers, body
<1>5. req' = [phase |-> "remove", op |-> "delete", node |-> n, todo |-> receivers,
              cur |-> None, body |-> body, new |-> {}]
  BY <1>1 DEF receivers, body, NoRequest
<1>6. Pending' = receivers
  BY <1>5 DEF Pending
<1>7. PendingCurrent'
  BY <1>2, <1>4, <1>5, <1>6, <1>q DEF PendingCurrent, Listed
<1>8. NewUnowned'
  BY <1>5 DEF NewUnowned
<1>9. \A d \in receivers, e \in Node : d # e /\ e # n /\ Live(e) =>
        /\ body[d].ip \cap droplets[e].ip \subseteq kept
        /\ e \in receivers => body[d].ip \cap body[e].ip \subseteq kept
  <2> SUFFICES ASSUME NEW d \in receivers, NEW e \in Node, d # e, e # n, Live(e)
               PROVE  /\ body[d].ip \cap droplets[e].ip \subseteq kept
                      /\ e \in receivers => body[d].ip \cap body[e].ip \subseteq kept
    OBVIOUS
  <2>1. d \in Node /\ n \in Node /\ Live(d) /\ Live(n) /\ d # n
    BY <1>2, <1>q DEF Live, Listed
  <2>2. /\ droplets[d].ip \cap droplets[e].ip \subseteq kept
        /\ droplets[n].ip \cap droplets[e].ip \subseteq kept
        /\ droplets[n].ip \cap droplets[d].ip \subseteq kept
    BY <2>1 DEF OneOwner
  <2>3. deal[d] \subseteq droplets[n].ip
    BY <1>2, <1>3
  <2>4. body[d].ip \cap droplets[e].ip \subseteq kept
    BY <2>2, <2>3, <1>4
  <2>5. ASSUME e \in receivers
        PROVE  body[d].ip \cap body[e].ip \subseteq kept
    <3>1. deal[e] \subseteq droplets[n].ip /\ deal[d] \cap deal[e] = {}
      BY <2>5, <1>2, <1>3
    <3> QED BY <3>1, <2>2, <2>3, <2>5, <1>4
  <2> QED BY <2>4, <2>5
<1>10. Receiving'
  <2>1. droplets[n].state = "Provisioned" /\ n \notin receivers
    BY <1>2, <1>q DEF Listed
  <2>2. \A d \in receivers : droplets[d].ip \subseteq body[d].ip
    BY <1>4
  <2>3. req'.body = body /\ req'.node = n /\ req'.phase = "remove"
    BY <1>5
  <2> QED BY <2>1, <2>2, <2>3, <1>6, <1>9, <1>q DEF Receiving, Live
<1> QED BY <1>7, <1>8, <1>10, <1>o


\* A giver or a receiver is rewritten: a giver's droplet only shrinks, and a
\* receiver's grows by IPs that belong to nobody in service.
LEMMA ReplaceSharing ==
  ASSUME TypeOK, RequestShape, Sharing, Replace
  PROVE  Sharing'
<1> USE DEF Sharing
<1> DEFINE c == req.cur
<1>0. Pending \subseteq Node
  BY DEF Pending, RequestShape, TypeOK, Request
<1>1. /\ c \in Pending /\ c \in Node /\ Pending' \subseteq Pending
      /\ req.phase = "replace" /\ req'.phase = "push"
      /\ req'.op = req.op /\ req'.node = req.node
      /\ req'.body = req.body /\ req'.new = req.new
      /\ UNCHANGED <<changed, handler, kept>>
  BY DEF Replace, RequestShape, Pending, TypeOK, Request, oper
<1>2. droplets[c].state = "Provisioned" /\ req.body[c].state = "Provisioned"
  BY <1>1 DEF PendingCurrent
<1>3. /\ droplets' = [droplets EXCEPT ![c] = Written(c)]
      /\ Written(c) = [state |-> "Provisioned", ip |-> req.body[c].ip]
  BY <1>2 DEF Replace, Written
<1>4. /\ droplets'[c].state = "Provisioned" /\ droplets'[c].ip = req.body[c].ip
      /\ \A d \in Node : d # c => droplets'[d] = droplets[d]
  BY <1>1, <1>3 DEF TypeOK
<1>5. \A d \in Node : Live(d)' <=> Live(d)
  BY <1>2, <1>4 DEF Live
<1>6. HandlerCurrent'
  BY <1>1, <1>2, <1>4 DEF HandlerCurrent
<1>7. PendingCurrent'
  BY <1>0, <1>1, <1>4 DEF PendingCurrent
<1> HIDE DEF c
<1>8. CASE req.op = "post"
  <2>1. /\ req.body[c].ip \subseteq droplets[c].ip
        /\ req.body[c].ip \cap req.new \subseteq kept
    BY <1>1, <1>2, <1>8 DEF NewUnowned, Moving, Live
  <2>2. OneOwner'
    BY <1>1, <1>4, <1>5, <2>1 DEF OneOwner
  <2>3. NewUnowned'
    <3>1. \A d \in Node : Live(d) =>
            IF d \in Pending
            THEN req.body[d].ip \subseteq droplets[d].ip /\ req.body[d].ip \cap req.new \subseteq kept
            ELSE droplets[d].ip \cap req.new \subseteq kept
      BY <1>1, <1>8 DEF NewUnowned, Moving
    <3>2. \A d \in Node : Live(d) =>
            IF d \in Pending'
            THEN req.body[d].ip \subseteq droplets'[d].ip /\ req.body[d].ip \cap req.new \subseteq kept
            ELSE droplets'[d].ip \cap req.new \subseteq kept
      <4> TAKE d \in Node
      <4>1. CASE d = c
        BY <4>1, <1>4, <2>1
      <4>2. CASE d # c
        <5>1. d \in Pending' <=> d \in Pending
          BY <4>2, <1>1 DEF Pending, Replace, c, TypeOK, Request
        <5> QED BY <4>2, <5>1, <3>1, <1>4
      <4> QED BY <4>1, <4>2
    <3> QED BY <3>2, <1>1, <1>5 DEF NewUnowned
  <2>4. Receiving'
    BY <1>1, <1>8 DEF Receiving
  <2> QED BY <1>6, <1>7, <2>2, <2>3, <2>4
<1>9. CASE req.op = "delete"
  <2>1. /\ c # req.node
        /\ \/ droplets[req.node].state \in {"Deleting", "Absent"}
           \/ droplets[req.node].ip \subseteq kept
        /\ \A e \in Node : c # e /\ e # req.node /\ Live(e) =>
             req.body[c].ip \cap droplets[e].ip \subseteq kept
    BY <1>1, <1>9 DEF Receiving
  <2>2. OneOwner'
    BY <1>1, <1>4, <1>5, <2>1 DEF OneOwner, Live
  <2>3. NewUnowned'
    BY <1>1, <1>9 DEF NewUnowned
  <2>4. Receiving'
    <3>1. req.node \in Node
      BY <1>1 DEF RequestShape
    <3>2. \/ droplets'[req.node].state \in {"Deleting", "Absent"}
          \/ droplets'[req.node].ip \subseteq kept
      BY <2>1, <1>4, <3>1
    <3>3. \A d \in Pending' : droplets'[d].ip \subseteq req.body[d].ip
      <4>1. \A d \in Pending : droplets[d].ip \subseteq req.body[d].ip
        BY <1>1, <1>9 DEF Receiving
      <4> QED BY <1>0, <1>1, <1>4, <4>1
    <3>4. \A d \in Pending', e \in Node : d # e /\ e # req.node /\ Live(e) =>
            /\ req.body[d].ip \cap droplets'[e].ip \subseteq kept
            /\ e \in Pending' => req.body[d].ip \cap req.body[e].ip \subseteq kept
      <4> SUFFICES ASSUME NEW d \in Pending', NEW e \in Node,
                          d # e, e # req.node, Live(e)
                   PROVE  /\ req.body[d].ip \cap droplets'[e].ip \subseteq kept
                          /\ e \in Pending' => req.body[d].ip \cap req.body[e].ip \subseteq kept
        OBVIOUS
      <4>1. d \in Pending
        BY <1>1
      <4>2. /\ req.body[d].ip \cap droplets[e].ip \subseteq kept
            /\ e \in Pending => req.body[d].ip \cap req.body[e].ip \subseteq kept
        BY <4>1, <1>1, <1>9 DEF Receiving
      <4>3. CASE e = c
        BY <4>2, <4>3, <1>1, <1>4
      <4>4. CASE e # c
        BY <4>2, <4>4, <1>1, <1>4
      <4> QED BY <4>3, <4>4
    <3> QED BY <3>2, <3>3, <3>4, <1>1, <1>5, <2>1 DEF Receiving
  <2> QED BY <1>6, <1>7, <2>2, <2>3, <2>4
<1> QED BY <1>8, <1>9 DEF TypeOK, Request

\* The new droplet is created after the last giver is rewritten.
LEMMA CreateSharing ==
  ASSUME TypeOK, RequestShape, Sharing, Create
  PROVE  Sharing'
<1> USE DEF Sharing
<1> DEFINE n == req.node
<1>1. /\ req.op = "post" /\ req.phase \in Moving /\ n \in Node /\ Pending = {}
      /\ droplets[n].state = "Absent"
  BY DEF Create, AfterUpdates, RequestShape, Moving, Pending, TypeOK, Request
<1>2. /\ droplets' = [droplets EXCEPT ![n] = [state |-> "Init", ip |-> req.new]]
      /\ UNCHANGED <<handler, kept>> /\ req' = [req EXCEPT !.phase = "pushNew"]
  BY DEF Create, oper
<1>3. /\ droplets'[n].state = "Init" /\ droplets'[n].ip = req.new
      /\ \A d \in Node : d # n => droplets'[d] = droplets[d]
  BY <1>1, <1>2 DEF TypeOK
<1>4. /\ Pending' = {} /\ req'.op = "post" /\ req'.phase = "pushNew"
  BY <1>1, <1>2 DEF Pending, TypeOK, Request
<1>5. \A d \in Node : Live(d) => droplets[d].ip \cap req.new \subseteq kept
  BY <1>1 DEF NewUnowned
<1> HIDE DEF n
<1>6. OneOwner'
  BY <1>2, <1>3, <1>5 DEF OneOwner, Live
<1>7. HandlerCurrent'
  BY <1>1, <1>2, <1>3 DEF HandlerCurrent
<1>8. PendingCurrent' /\ NewUnowned' /\ Receiving'
  BY <1>4 DEF PendingCurrent, NewUnowned, Receiving, Moving
<1> QED BY <1>6, <1>7, <1>8

\* The leaving droplet is no longer in service when the first receiver is
\* rewritten.
LEMMA RemoveSharing ==
  ASSUME TypeOK, RequestShape, Sharing, Remove
  PROVE  Sharing'
<1> USE DEF Sharing
<1> DEFINE n == req.node
<1>1. /\ req.phase = "remove" /\ req.op = "delete" /\ n \in Node
      /\ n \notin Pending /\ droplets[n].state = "Provisioned"
  BY DEF Remove, RequestShape, Receiving
<1>2. /\ changed' = changed \cup {n} /\ UNCHANGED <<handler, kept>>
      /\ req' = [req EXCEPT !.phase = "pick"]
  BY DEF Remove, oper, history
<1>3. /\ droplets'[n].state = "Deleting"
      /\ \A d \in Node : d # n => droplets'[d] = droplets[d]
  BY <1>1 DEF Remove, TypeOK
<1>4. /\ Pending' = Pending /\ req'.op = "delete" /\ req'.phase = "pick"
      /\ req'.node = n /\ req'.body = req.body /\ Pending \subseteq Node
  BY <1>1, <1>2 DEF Pending, TypeOK, Request
<1> HIDE DEF n
<1>5. OneOwner'
  BY <1>2, <1>3 DEF OneOwner, Live
<1>6. HandlerCurrent'
  BY <1>1, <1>2, <1>3 DEF HandlerCurrent
<1>7. PendingCurrent'
  BY <1>1, <1>2, <1>3, <1>4 DEF PendingCurrent
<1>8. NewUnowned'
  BY <1>4 DEF NewUnowned
<1>9. Receiving'
  BY <1>1, <1>2, <1>3, <1>4 DEF Receiving, Live, n
<1> QED BY <1>5, <1>6, <1>7, <1>8, <1>9

\* A refused write leaves a droplet with IPs that others will have: they are
\* kept from then on.
LEMMA RefusedSharing ==
  ASSUME TypeOK, RequestShape, Sharing, ReplaceRefused \/ RemoveRefused
  PROVE  Sharing'
<1> USE DEF Sharing
<1>0. Pending \subseteq Node
  BY DEF Pending, RequestShape, TypeOK, Request
<1>1. /\ UNCHANGED <<droplets, changed, handler>> /\ kept \subseteq kept'
      /\ req' = [req EXCEPT !.phase = "pick"]
      /\ req.phase \in {"replace", "remove"}
  BY DEF ReplaceRefused, RemoveRefused, kube, oper
<1>2. /\ req'.op = req.op /\ req'.node = req.node /\ req'.body = req.body
      /\ req'.new = req.new /\ req'.phase = "pick"
  BY <1>1 DEF TypeOK, Request
<1>3. Pending' \subseteq Pending
  BY <1>1 DEF Pending, TypeOK, Request
<1>4. OneOwner' /\ HandlerCurrent' /\ PendingCurrent'
  BY <1>1, <1>2, <1>3 DEF OneOwner, Live, HandlerCurrent, PendingCurrent
<1>5. NewUnowned'
  <2> SUFFICES ASSUME req.op = "post", NEW d \in Node, Live(d)
               PROVE  IF d \in Pending'
                      THEN /\ req.body[d].ip \subseteq droplets[d].ip
                           /\ req.body[d].ip \cap req.new \subseteq kept'
                      ELSE droplets[d].ip \cap req.new \subseteq kept'
    BY <1>1, <1>2 DEF NewUnowned, Live
  <2>1. /\ req.phase = "replace" /\ req.cur \in Pending
        /\ kept' = kept \cup (droplets[req.cur].ip \ req.body[req.cur].ip)
        /\ Pending = Pending' \cup {req.cur}
    BY <1>1 DEF ReplaceRefused, RemoveRefused, RequestShape, Pending, TypeOK, Request
  <2>2. IF d \in Pending
        THEN /\ req.body[d].ip \subseteq droplets[d].ip
             /\ req.body[d].ip \cap req.new \subseteq kept
        ELSE droplets[d].ip \cap req.new \subseteq kept
    BY <2>1 DEF NewUnowned, Moving
  <2>3. CASE d = req.cur
    BY <2>1, <2>2, <2>3
  <2>4. CASE d # req.cur
    BY <2>1, <2>2, <2>4
  <2> QED BY <2>3, <2>4
<1>6. Receiving'
  <2> SUFFICES ASSUME req.op = "delete"
               PROVE  Receiving'
    BY <1>2 DEF Receiving
  <2>1. \/ droplets[req.node].state \in {"Deleting", "Absent"}
        \/ droplets[req.node].ip \subseteq kept'
    <3>1. CASE ReplaceRefused
      BY <3>1, <1>1 DEF ReplaceRefused, Receiving
    <3>2. CASE RemoveRefused
      BY <3>2 DEF RemoveRefused
    <3> QED BY <3>1, <3>2
  <2> QED BY <2>1, <1>1, <1>2, <1>3 DEF Receiving, Live
<1> QED BY <1>4, <1>5, <1>6

\* A handler that finishes writes the IPs the droplet has already, and one
\* that starts copies them.
LEMMA OperatorSharing ==
  ASSUME TypeOK, RequestShape, Sharing, NEW d \in Node, OperatorStep(d)
  PROVE  Sharing'
<1> USE DEF Sharing
<1>0. req' = req /\ kept' = kept /\ Pending' = Pending /\ Pending \subseteq Node
  BY DEF OperatorStep, StartProvision, FinishProvision, Finalize, Pending,
         RequestShape, TypeOK, Request, history
<1>1. CASE StartProvision(d)
  <2>1. UNCHANGED <<droplets, changed>>
    BY <1>1 DEF StartProvision, kube
  <2>2. HandlerCurrent'
    BY <1>1, <2>1 DEF StartProvision, HandlerCurrent, TypeOK
  <2>3. OneOwner' /\ PendingCurrent' /\ NewUnowned' /\ Receiving'
    BY <1>0, <2>1 DEF OneOwner, Live, PendingCurrent, NewUnowned, Receiving
  <2> QED BY <2>2, <2>3
<1>2. CASE FinishProvision(d) \/ Finalize(d)
  <2>1. /\ changed' = changed \cup {d}
        /\ \A e \in Node : e # d => droplets'[e] = droplets[e] /\ handler'[e] = handler[e]
        /\ droplets[d].state \in {"Init", "Deleting"}
        /\ ~handler'[d].running
        /\ \/ droplets[d].state = "Init" /\ droplets'[d].state = "Provisioned"
              /\ droplets'[d].ip = droplets[d].ip
           \/ droplets[d].state = "Deleting" /\ droplets'[d].state = "Absent"
    BY <1>2 DEF FinishProvision, Finalize, Patched, Absent, HandlerCurrent, TypeOK
  <2>2. \A e \in Node : /\ Live(e)' <=> Live(e)
                        /\ Live(e) => droplets'[e].ip = droplets[e].ip
    BY <2>1 DEF Live
  <2>3. d \notin Pending
    BY <2>1 DEF PendingCurrent
  <2>4. OneOwner' /\ NewUnowned'
    BY <1>0, <2>2 DEF OneOwner, NewUnowned
  <2>5. HandlerCurrent' /\ PendingCurrent'
    BY <1>0, <2>1, <2>3 DEF HandlerCurrent, PendingCurrent
  <2>6. Receiving'
    <3>1. req.node \in Node \/ req.phase = "idle"
      BY DEF RequestShape
    <3> QED BY <1>0, <2>1, <2>2, <2>3, <3>1 DEF Receiving
  <2> QED BY <2>4, <2>5, <2>6
<1> QED BY <1>1, <1>2 DEF OperatorStep

\* The inductive step.
LEMMA SharingStep ==
  ASSUME TypeOK, RequestShape, Sharing, Settled, [Next]_vars
  PROVE  Sharing'
<1> USE DEF kube, oper, db, memory, plane, history
<1>1. ASSUME NEW n \in Node, PostFirst(n) \/ PostTooFew(n) \/ PostTakes(n)
      PROVE  Sharing'
  BY <1>1, PostSharing
<1>2. ASSUME NEW n \in Node, BeginDelete(n)
      PROVE  Sharing'
  BY <1>2, DeleteSharing
<1>3. CASE (\E n \in Node : PostNoZgc(n)) \/ PostZgc
  <2>1. UNCHANGED <<droplets, changed, handler, kept, req>>
    BY <1>3 DEF PostNoZgc, PostZgc
  <2>2. Pending' = Pending
    BY <2>1 DEF Pending
  <2> QED BY <2>1, <2>2, SameView
<1>4. ASSUME NEW d \in Node, GwDelete(d) \/ PickReceiver(d)
      PROVE  Sharing'
  <2>1. /\ UNCHANGED <<droplets, changed, handler, kept>>
        /\ req'.op = req.op /\ req'.node = req.node /\ req'.body = req.body
        /\ req'.new = req.new /\ req.phase = "pick"
        /\ req'.phase \in {"gwAdd", "replace"}
        /\ req'.cur = d /\ req'.todo = req.todo \ {d} /\ d \in req.todo
    BY <1>4 DEF GwDelete, PickReceiver, TypeOK, Request
  <2>2. Pending' = Pending
    BY <2>1 DEF Pending
  <2> QED BY <2>1, <2>2, SameView DEF Moving
<1>5. CASE GwAdd
  <2>1. /\ UNCHANGED <<droplets, changed, handler, kept>> /\ req.phase = "gwAdd"
        /\ req' = [req EXCEPT !.phase = "replace"]
    BY <1>5 DEF GwAdd
  <2>2. Pending' = Pending
    BY <2>1 DEF Pending, TypeOK, Request
  <2> QED BY <2>1, <2>2, SameView DEF Moving, TypeOK, Request
<1>6. CASE Replace
  BY <1>6, ReplaceSharing
<1>7. CASE ReplaceRefused \/ RemoveRefused
  BY <1>7, RefusedSharing
<1>8. CASE Push \/ PushNew \/ CreateRefused
  <2>1. PICK p \in {"pick", "commit"} :
          /\ UNCHANGED <<droplets, changed, handler, kept>>
          /\ req' = [req EXCEPT !.phase = p]
          /\ IF p = "pick" THEN req.phase = "push"
             ELSE req.phase \in {"pick", "create", "pushNew"} /\ req.todo = {}
    BY <1>8 DEF Push, PushNew, CreateRefused, AfterUpdates, RequestShape
  <2>2. Pending' = Pending
    BY <2>1 DEF Pending, TypeOK, Request
  <2> QED BY <2>1, <2>2, SameView DEF Moving, TypeOK, Request
<1>9. CASE Create
  BY <1>9, CreateSharing
<1>10. CASE Remove
  BY <1>10, RemoveSharing
<1>11. CASE (\E d \in Node : AbortNoRow(d)) \/ Commit \/ Unload
            \/ ManagerCrash \/ RequestFails
  BY <1>11, EndRequest DEF AbortNoRow, Commit, Unload, ManagerCrash, RequestFails
<1>12. ASSUME NEW d \in Node, OperatorStep(d)
       PROVE  Sharing'
  BY <1>12, OperatorSharing
<1>13. CASE OperatorCrash
  <2>1. UNCHANGED <<droplets, changed, kept, req>> /\ \A d \in Node : ~handler'[d].running
    BY <1>13 DEF OperatorCrash
  <2>2. Pending' = Pending
    BY <2>1 DEF Pending
  <2> QED BY <2>1, <2>2 DEF Sharing, OneOwner, Live, HandlerCurrent,
                            PendingCurrent, NewUnowned, Receiving
<1>14. CASE UNCHANGED vars
  <2>1. UNCHANGED <<droplets, changed, handler, kept, req>>
    BY <1>14 DEF vars
  <2>2. Pending' = Pending
    BY <2>1 DEF Pending
  <2> QED BY <2>1, <2>2, SameView
<1> QED
  BY <1>1, <1>2, <1>3, <1>4, <1>5, <1>6, <1>7, <1>8, <1>9, <1>10, <1>11, <1>12,
     <1>13, <1>14 DEF Next, ManagerStep

\* When requests start settled, the invariant holds throughout.
THEOREM SettledSafe == ASSUME Settled PROVE Spec => []SettledInv
<1>1. SettledInv /\ [Next]_vars => SettledInv'
  BY TypeStep, SharingStep DEF SettledInv
<1>2. Init => SettledInv
  BY TypeInit, SharingInit DEF SettledInv
<1> QED BY <1>1, <1>2, PTL DEF Spec

\* When clients wait for the operator between requests, a gateway IP is in two
\* droplets in service only if a refused call left it with one that was to give
\* it up, whatever POSTs, DELETEs, resubmissions, refusals, lost RPCs and crashes
\* of either process come between.
THEOREM NoIpTwice == ASSUME Settled PROVE Spec => []OneOwner
<1>1. SettledInv => OneOwner
  BY DEF SettledInv, Sharing
<1> QED BY <1>1, SettledSafe, PTL


(***************************************************************************)
(* The droplets in service implement IpOwnership.                          *)
(***************************************************************************)

\* A step that changes what one node holds, and only takes or only gives, is a
\* Release or a Grant: OneOwner afterwards says nobody else held what is given.
LEMMA OneNodeMoves ==
  ASSUME TypeOK, TypeOK', OneOwner', NEW n \in Node,
         \A d \in Node \ {n} : Holding'[d] = Holding[d],
         Holding'[n] \subseteq Holding[n] \/ Holding[n] \subseteq Holding'[n]
  PROVE  Ownership!Next
<1>1. /\ Holding \in [Node -> SUBSET IP] /\ Holding' \in [Node -> SUBSET IP]
      /\ \A d, e \in Node : d # e => Holding'[d] \cap Holding'[e] = {}
  BY DEF Holding, TypeOK, Droplet, OneOwner
<1> HIDE DEF Holding
<1>2. CASE Holding'[n] \subseteq Holding[n]
  <2> DEFINE S == Holding[n] \ Holding'[n]
  <2>1. S \in SUBSET IP
    BY <1>1
  <2>2. Holding' = [Holding EXCEPT ![n] = @ \ S]
    BY <1>1, <1>2
  <2> QED BY <2>1, <2>2 DEF Ownership!Next, Ownership!Release
<1>3. CASE Holding[n] \subseteq Holding'[n]
  <2> DEFINE S == Holding'[n] \ Holding[n]
  <2>1. S \in SUBSET IP
    BY <1>1
  <2>2. Holding' = [Holding EXCEPT ![n] = @ \cup S]
    BY <1>1, <1>3
  <2>3. \A m \in Node : Holding[m] \cap S = {}
    BY <1>1
  <2> QED BY <2>1, <2>2, <2>3 DEF Ownership!Next, Ownership!Grant
<1> QED BY <1>2, <1>3

LEMMA OwnershipStep ==
  ASSUME SettledInv, SettledInv', [Next]_vars
  PROVE  Ownership!Next \/ Holding' = Holding
<1> USE DEF SettledInv, Sharing
<1>1. CASE UNCHANGED <<droplets, kept>>
  BY <1>1 DEF Holding, Live
<1>2. ASSUME NEW n \in Node, kept' = kept,
             \A d \in Node \ {n} : droplets'[d] = droplets[d],
             Live(n)' /\ Live(n) => droplets'[n].ip \subseteq droplets[n].ip
                                 \/ droplets[n].ip \subseteq droplets'[n].ip
      PROVE  Ownership!Next
  <2>1. \A d \in Node \ {n} : Holding'[d] = Holding[d]
    BY <1>2 DEF Holding, Live
  <2>2. Holding'[n] \subseteq Holding[n] \/ Holding[n] \subseteq Holding'[n]
    BY <1>2 DEF Holding
  <2> QED BY <2>1, <2>2, OneNodeMoves
<1>3. CASE Replace
  <2> DEFINE c == req.cur
  <2>1. /\ c \in Pending /\ c \in Node /\ req.phase = "replace"
        /\ droplets'[c] = Written(c)
        /\ \A d \in Node \ {c} : droplets'[d] = droplets[d]
        /\ kept' = kept
    BY <1>3 DEF Replace, RequestShape, Pending, TypeOK
  <2>2. droplets'[c].ip = req.body[c].ip /\ Live(c)
    BY <2>1 DEF Written, PendingCurrent, Live
  <2>3. CASE req.op = "post"
    BY <2>1, <2>2, <2>3, <1>2 DEF NewUnowned, Moving
  <2>4. CASE req.op = "delete"
    BY <2>1, <2>2, <2>4, <1>2 DEF Receiving
  <2> QED BY <2>3, <2>4 DEF TypeOK, Request
<1>4. CASE Create
  BY <1>4, <1>2 DEF Create, AfterUpdates, RequestShape, TypeOK, Live
<1>5. CASE Remove
  <2>1. PICK n \in Node : n = req.node
    BY <1>5 DEF Remove, RequestShape
  <2>2. ~Live(n)' /\ kept' = kept /\ \A d \in Node \ {n} : droplets'[d] = droplets[d]
    BY <1>5, <2>1 DEF Remove, TypeOK, Live, history
  <2> QED BY <2>2, <1>2
<1>6. ASSUME NEW d \in Node, FinishProvision(d)
      PROVE  Ownership!Next
  <2>1. /\ droplets'[d].ip = droplets[d].ip /\ kept' = kept
        /\ \A e \in Node \ {d} : droplets'[e] = droplets[e]
    BY <1>6 DEF FinishProvision, Patched, HandlerCurrent, TypeOK, history
  <2> QED BY <2>1, <1>2
<1>7. ASSUME NEW d \in Node, Finalize(d)
      PROVE  Ownership!Next
  <2>1. /\ ~Live(d)' /\ kept' = kept
        /\ \A e \in Node \ {d} : droplets'[e] = droplets[e]
    BY <1>7 DEF Finalize, TypeOK, Live, Absent, history
  <2>2. Live(d)' /\ Live(d) => \/ droplets'[d].ip \subseteq droplets[d].ip
                              \/ droplets[d].ip \subseteq droplets'[d].ip
    BY <2>1
  <2> QED BY <2>1, <2>2, <1>2
<1>8. ASSUME NEW n \in Node, Live(n), UNCHANGED droplets,
             NEW S \in SUBSET droplets[n].ip, kept' = kept \cup S
      PROVE  Ownership!Next
  <2>1. \A d \in Node \ {n} : Holding'[d] = Holding[d]
    <3> TAKE d \in Node \ {n}
    <3>1. Live(d) => droplets[d].ip \cap S \subseteq kept
      BY <1>8 DEF OneOwner
    <3> QED BY <3>1, <1>8 DEF Holding, Live
  <2>2. Holding'[n] \subseteq Holding[n]
    BY <1>8 DEF Holding, Live
  <2> QED BY <2>1, <2>2, OneNodeMoves
<1>9. CASE ReplaceRefused
  <2>1. /\ req.cur \in Node /\ Live(req.cur) /\ UNCHANGED droplets
        /\ kept' = kept \cup (droplets[req.cur].ip \ req.body[req.cur].ip)
    BY <1>9 DEF ReplaceRefused, RequestShape, Pending, PendingCurrent, Live, kube
  <2> QED BY <2>1, <1>8
<1>10. CASE RemoveRefused
  <2>1. /\ req.node \in Node /\ Live(req.node) /\ UNCHANGED droplets
        /\ kept' = kept \cup droplets[req.node].ip
    BY <1>10 DEF RemoveRefused, RequestShape, Receiving, Live, kube
  <2> QED BY <2>1, <1>8
<1>11. UNCHANGED <<droplets, kept>> \/ Replace \/ Create \/ Remove
       \/ ReplaceRefused \/ RemoveRefused
       \/ (\E d \in Node : FinishProvision(d) \/ Finalize(d))
  BY DEF Next, ManagerStep, OperatorStep, vars, kube, history, PostFirst, PostTooFew,
         PostTakes, BeginPost, PostNoZgc, PostZgc, BeginDelete, GwDelete,
         AbortNoRow, GwAdd, PickReceiver, Push, CreateRefused, PushNew, Commit,
         Unload, StartProvision, ManagerCrash, RequestFails, OperatorCrash
<1> QED BY <1>1, <1>3, <1>4, <1>5, <1>6, <1>7, <1>9, <1>10, <1>11

\* POST, DELETE, the operator and the crashes between them only ever give IPs
\* up or hand out IPs nobody holds, one droplet at a time, when a droplet that a
\* refused call left with IPs it was to give up counts as having given them up.
THEOREM ImplementsOwnership == ASSUME Settled PROVE Spec => OwnershipSpec
<1>1. Init => Ownership!Init
  BY DEF Init, Ownership!Init, Holding, Live, Absent
<1>2. SettledInv /\ SettledInv' /\ [Next]_vars => [Ownership!Next]_Holding
  BY OwnershipStep
<1> QED BY <1>1, <1>2, SettledSafe, PTL DEF Spec, OwnershipSpec, Ownership!Spec


(***************************************************************************)
(* What holds even when requests race the operator.                        *)
(***************************************************************************)

\* The status a request is about to write is the one the droplet still has,
\* unless the droplet has changed since, and then the write is refused.
StatusCurrent ==
  \A d \in Pending \ changed :
    /\ droplets[d].state # "Absent"
    /\ req.body[d].state = IF droplets[d].state = "Init" THEN "Init" ELSE "Provisioned"

\* A handler runs only for a droplet that is there and not provisioned yet.
HandlerDue ==
  \A d \in Node : handler[d].running => droplets[d].state \in {"Init", "Deleting"}

RacingInv == StatusCurrent /\ HandlerDue /\ StoredDropletsExist

LEMMA RacingInit == Init => RacingInv
BY DEF Init, RacingInv, StatusCurrent, HandlerDue, StoredDropletsExist, Pending, NoRequest

\* A replace that is accepted leaves the status as it is.
LEMMA ReplaceKeepsStatus ==
  ASSUME TypeOK, RequestShape, RacingInv, Replace
  PROVE  \A d \in Node : droplets'[d].state = droplets[d].state
<1>1. req.cur \in Node /\ req.cur \in Pending \ changed
  BY DEF Replace, RequestShape, Pending
<1>2. Written(req.cur).state = droplets[req.cur].state
  BY <1>1 DEF Written, RacingInv, StatusCurrent, TypeOK, Droplet
<1> QED BY <1>1, <1>2 DEF Replace, TypeOK

LEMMA BeginRacing ==
  ASSUME TypeOK, RacingInv, NEW n \in Node,
         PostFirst(n) \/ PostTooFew(n) \/ PostTakes(n) \/ BeginDelete(n)
  PROVE  StatusCurrent' /\ UNCHANGED <<droplets, handler, store>>
<1>1. UNCHANGED <<droplets, handler, store>>
  BY DEF PostFirst, PostTooFew, PostTakes, BeginPost, BeginDelete, oper
<1>2. PICK S \in SUBSET Listed : \E ips :
                  Pending' \subseteq S /\ (S # {} => req'.body = Relisted(S, ips))
  <2>1. CASE PostFirst(n) \/ PostTooFew(n)
    BY <2>1 DEF PostFirst, PostTooFew, BeginPost, Pending
  <2>2. CASE PostTakes(n)
    <3>1. PICK left \in Leavings :
            BeginPost(n, Givers, Relisted(Givers, left),
                      UNION {droplets[d].ip \ left[d] : d \in Givers}, "pick")
      BY <2>2 DEF PostTakes
    <3>2. req'.body = Relisted(Givers, left) /\ Pending' = Givers
      BY <3>1 DEF BeginPost, Pending
    <3> QED BY <3>2 DEF Givers
  <2>3. CASE BeginDelete(n)
    <3>1. PICK deal \in Deals(n, Listed \ {n}) :
            LET receivers == {d \in Listed \ {n} : deal[d] # {}} IN
            req' = [NoRequest EXCEPT
                      !.phase = "remove", !.op = "delete", !.node = n,
                      !.todo = receivers,
                      !.body = Relisted(receivers,
                                 [d \in receivers |-> droplets[d].ip \cup deal[d]])]
      BY <2>3 DEF BeginDelete
    <3> QED BY <3>1 DEF Pending, NoRequest
  <2> QED BY <2>1, <2>2, <2>3
<1> QED BY <1>1, <1>2 DEF StatusCurrent, Relisted, Listed

LEMMA RacingStep ==
  ASSUME TypeOK, RequestShape, RacingInv, [Next]_vars
  PROVE  /\ RacingInv'
         /\ \A d \in Node : droplets[d].state = "Provisioned" =>
              droplets'[d].state \in {"Provisioned", "Deleting"}
<1> USE DEF RacingInv, kube, oper, db, memory, plane, history
<1> DEFINE Stays == \A d \in Node : droplets[d].state = "Provisioned" =>
                      droplets'[d].state \in {"Provisioned", "Deleting"}
<1>0. Pending \subseteq Node
  BY DEF Pending, RequestShape, TypeOK, Request
<1>1. ASSUME NEW n \in Node,
             PostFirst(n) \/ PostTooFew(n) \/ PostTakes(n) \/ BeginDelete(n)
      PROVE  RacingInv' /\ Stays
  BY <1>1, BeginRacing DEF HandlerDue, StoredDropletsExist, Listed
<1>2. ASSUME UNCHANGED <<droplets, changed, handler, store>>,
             req' = NoRequest \/ (req'.body = req.body /\ Pending' \subseteq Pending)
      PROVE  RacingInv' /\ Stays
  <2>1. CASE req' = NoRequest
    BY <1>2, <2>1 DEF StatusCurrent, HandlerDue, StoredDropletsExist, Listed,
                      Pending, NoRequest
  <2>2. CASE req'.body = req.body /\ Pending' \subseteq Pending
    BY <1>2, <2>2 DEF StatusCurrent, HandlerDue, StoredDropletsExist, Listed
  <2> QED BY <1>2, <2>1, <2>2
<1>3. CASE (\E n \in Node : PostNoZgc(n)) \/ PostZgc \/ UNCHANGED vars
  BY <1>3, <1>2 DEF PostNoZgc, PostZgc, vars, Pending
<1>4. ASSUME NEW d \in Node, GwDelete(d) \/ PickReceiver(d)
      PROVE  RacingInv' /\ Stays
  <2>0. /\ req \in Request /\ req.phase = "pick" /\ d \in req.todo
        /\ \E ph \in {"gwAdd", "replace"} :
             req' = [req EXCEPT !.phase = ph, !.cur = d, !.todo = @ \ {d}]
    BY <1>4 DEF GwDelete, PickReceiver, TypeOK
  <2>1. Pending' \subseteq Pending /\ req'.body = req.body
    BY <2>0 DEF Pending, Request
  <2> QED BY <1>4, <2>1, <1>2 DEF GwDelete, PickReceiver
<1>5. CASE GwAdd \/ ReplaceRefused \/ Push \/ PushNew \/ CreateRefused \/ RemoveRefused
  <2>1. /\ req'.body = req.body
        /\ UNCHANGED <<droplets, changed, handler, store>>
    BY <1>5 DEF GwAdd, ReplaceRefused, Push, PushNew, CreateRefused, RemoveRefused,
                TypeOK, Request
  <2>2. Pending' \subseteq Pending
    BY <1>5 DEF GwAdd, ReplaceRefused, Push, PushNew, CreateRefused, RemoveRefused,
                Pending, TypeOK, Request
  <2> QED BY <2>1, <2>2, <1>2
<1>6. CASE (\E d \in Node : AbortNoRow(d)) \/ Commit \/ Unload
           \/ ManagerCrash \/ RequestFails
  BY <1>6, <1>2 DEF AbortNoRow, Commit, Unload, ManagerCrash, RequestFails
<1>7. CASE Replace
  <2>1. \A d \in Node : droplets'[d].state = droplets[d].state
    BY <1>7, ReplaceKeepsStatus
  <2>2. /\ UNCHANGED <<changed, handler, store>> /\ req'.body = req.body
        /\ Pending' \subseteq Pending
    BY <1>7 DEF Replace, Pending, TypeOK, Request
  <2> QED BY <1>0, <2>1, <2>2 DEF StatusCurrent, HandlerDue, StoredDropletsExist, Listed
<1>8. ASSUME NEW d \in Node, changed' = changed \cup {d},
             Pending' \subseteq Pending, req'.body = req.body,
             \A e \in Node \ {d} : droplets'[e] = droplets[e],
             \A e \in Node : handler'[e].running =>
                handler[e].running \/ droplets'[e].state = "Init",
             handler'[d].running => droplets'[d].state \in {"Init", "Deleting"},
             store' \subseteq store \cup {d},
             d \in store' => droplets'[d].state # "Absent",
             droplets[d].state = "Provisioned" =>
               droplets'[d].state \in {"Provisioned", "Deleting"}
      PROVE  RacingInv' /\ Stays
  <2>1. StatusCurrent'
    BY <1>0, <1>8 DEF StatusCurrent
  <2>2. HandlerDue' /\ Stays
    BY <1>8 DEF HandlerDue
  <2>3. StoredDropletsExist'
    BY <1>8 DEF StoredDropletsExist, Listed, TypeOK
  <2> QED BY <2>1, <2>2, <2>3
<1>9. CASE Create \/ Remove
  <2>1. PICK d \in Node : d = req.node
    BY <1>9 DEF Create, Remove, AfterUpdates, RequestShape
  <2>2. /\ changed' = changed \cup {d} /\ req'.body = req.body
        /\ UNCHANGED <<handler, store>>
        /\ \A e \in Node \ {d} : droplets'[e] = droplets[e]
    BY <1>9, <2>1 DEF Create, Remove, TypeOK, Request
  <2>3. Pending' \subseteq Pending
    BY <1>9 DEF Create, Remove, Pending, TypeOK, Request
  <2>4. CASE Create
    <3>1. droplets[d].state = "Absent" /\ droplets'[d].state = "Init"
      BY <2>1, <2>4 DEF Create, TypeOK
    <3> QED BY <2>2, <2>3, <3>1, <1>8 DEF HandlerDue
  <2>5. CASE Remove
    <3>1. droplets'[d].state = IF droplets[d].state = "Absent" THEN "Absent" ELSE "Deleting"
      BY <2>1, <2>5 DEF Remove, TypeOK, Droplet
    <3> QED BY <2>2, <2>3, <3>1, <1>8 DEF HandlerDue, StoredDropletsExist, Listed
  <2> QED BY <1>9, <2>4, <2>5
<1>10. ASSUME NEW d \in Node, StartProvision(d)
       PROVE  RacingInv' /\ Stays
  <2>1. UNCHANGED <<droplets, changed, store, req>> /\ droplets[d].state = "Init"
        /\ \A e \in Node \ {d} : handler'[e] = handler[e]
    BY <1>10 DEF StartProvision, TypeOK
  <2> QED BY <2>1 DEF StatusCurrent, HandlerDue, StoredDropletsExist, Listed, Pending
<1>11. ASSUME NEW d \in Node, FinishProvision(d)
       PROVE  RacingInv' /\ Stays
  <2>1. /\ droplets[d].state \in {"Init", "Deleting"} /\ ~handler'[d].running
        /\ changed' = changed \cup {d} /\ store' = store \cup {d} /\ UNCHANGED req
        /\ \A e \in Node \ {d} : droplets'[e] = droplets[e] /\ handler'[e] = handler[e]
    BY <1>11 DEF FinishProvision, HandlerDue, TypeOK
  <2>2. droplets'[d].state # "Absent"
    BY <1>11, <2>1 DEF FinishProvision, Patched, TypeOK
  <2>3. Pending' = Pending
    BY <2>1 DEF Pending
  <2> QED BY <2>1, <2>2, <2>3, <1>8
<1>12. ASSUME NEW d \in Node, Finalize(d)
       PROVE  RacingInv' /\ Stays
  <2>1. /\ droplets[d].state = "Deleting" /\ ~handler[d].running /\ UNCHANGED <<handler, req>>
        /\ changed' = changed \cup {d} /\ store' = store \ {d}
        /\ \A e \in Node \ {d} : droplets'[e] = droplets[e]
    BY <1>12 DEF Finalize, TypeOK
  <2>2. Pending' = Pending
    BY <2>1 DEF Pending
  <2> QED BY <2>1, <2>2, <1>8
<1>13. CASE OperatorCrash
  <2>1. /\ UNCHANGED <<droplets, changed, req>> /\ \A d \in Node : ~handler'[d].running
        /\ \A d \in store' : d \in Node /\ droplets[d].state # "Absent"
    BY <1>13 DEF OperatorCrash
  <2> QED BY <2>1 DEF StatusCurrent, HandlerDue, StoredDropletsExist, Listed, Pending
<1> QED
  BY <1>1, <1>3, <1>4, <1>5, <1>6, <1>7, <1>9, <1>10, <1>11, <1>12, <1>13
     DEF Next, ManagerStep, OperatorStep

\* The operator's store never offers a droplet that is gone, races, losses and
\* crashes notwithstanding.
THEOREM StoreSafe == Spec => []StoredDropletsExist
<1>1. TypeOK /\ RequestShape /\ RacingInv /\ [Next]_vars
        => (TypeOK /\ RequestShape /\ RacingInv)'
  BY TypeStep, RacingStep
<1>2. RacingInv => StoredDropletsExist
  BY DEF RacingInv
<1> QED BY TypeInit, RacingInit, <1>1, <1>2, PTL DEF Spec

\* A provisioned droplet never goes back to Init, although the manager writes
\* back a status it read at the beginning of its request.
THEOREM NeverUnprovisioned == Spec => ProvisionedStays
<1>1. TypeOK /\ RequestShape /\ RacingInv /\ [Next]_vars
        => (TypeOK /\ RequestShape /\ RacingInv)'
  BY TypeStep, RacingStep
<1>2. TypeOK /\ RequestShape /\ RacingInv /\ [Next]_vars
        => [\A d \in Node : droplets[d].state = "Provisioned" =>
              droplets'[d].state \in {"Provisioned", "Deleting"}]_vars
  BY RacingStep
<1> QED BY TypeInit, RacingInit, <1>1, <1>2, PTL DEF Spec, ProvisionedStays

=============================================================================
