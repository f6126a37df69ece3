-------------------------- MODULE EndpointsProofs --------------------------
(***************************************************************************)
(* Theorems about Endpoints, for any nodes, ports and VPCs, any requests,  *)
(* any sizes of batches, maps and sockets, and any numbers of copies,      *)
(* crashes and deaths.                                                     *)
(***************************************************************************)
EXTENDS Endpoints, SequenceTheorems, FiniteSetTheorems, TLAPS

(***************************************************************************)
(* The daemon's loop over a batch.                                         *)
(***************************************************************************)
\* A set of numbers that is not empty has a least one.
LEMMA Least ==
  ASSUME NEW T, T \subseteq Nat, T # {}
  PROVE  \E x \in T : \A y \in T : x <= y
<1>. DEFINE R == OpToRel(<, Nat)
<1>1. IsWellFoundedOn(R, Nat)
  BY NatLessThanWellFounded
<1>2. PICK x \in T : \A y \in T : ~ (<<y, x>> \in R)
  <2>. HIDE DEF R
  <2> QED BY <1>1, WFMin
<1>3. \A y \in T : ~ (y < x)
  BY <1>2 DEF OpToRel
<1> QED BY <1>3

\* An element of eps.
Entry == [port : Port, post : 1 .. MaxPosts]

\* endpoints_map by port.
Table == [Port -> 0 .. MaxPosts]

\* The ports a table has.
Nonzero(t) == {p \in Port : t[p] # 0}

\* The daemon's loop over a batch is what its recursion says: the least place where
\* it is not would not be one.
LEMMA StepsDefined ==
  ASSUME NEW t, NEW chunk \in Seq(Entry)
  PROVE  Steps(t, chunk) =
           [k \in 0 .. Len(chunk) |->
              IF k = 0 THEN [table |-> t, rc |-> "ok"]
                       ELSE Store(Steps(t, chunk)[k - 1], chunk[k])]
<1>. DEFINE Ok(n, f) == f = [k \in 0 .. n |-> IF k = 0 THEN [table |-> t, rc |-> "ok"]
                                              ELSE Store(f[k - 1], chunk[k])]
            Bad == {n \in 0 .. Len(chunk) : \A f : ~ Ok(n, f)}
<1>1. Bad = {}
  <2>. SUFFICES ASSUME Bad # {} PROVE FALSE
    OBVIOUS
  <2>1. PICK n \in Bad : \A m \in Bad : n <= m
    <3>. Bad \subseteq Nat
      OBVIOUS
    <3>. HIDE DEF Bad
    <3> QED BY Least
  <2>2. n # 0
    <3>. DEFINE g == [k \in 0 .. 0 |-> [table |-> t, rc |-> "ok"]]
    <3>1. \A k \in 0 .. 0 : g[k] = IF k = 0 THEN [table |-> t, rc |-> "ok"]
                                             ELSE Store(g[k - 1], chunk[k])
      OBVIOUS
    <3>2. Ok(0, g)
      BY <3>1
    <3> QED BY <3>2
  <2>3. n - 1 \in 0 .. Len(chunk) /\ n - 1 \notin Bad
    <3>1. n \in 0 .. Len(chunk) /\ n - 1 \in Int
      BY <2>1
    <3>2. n - 1 \in 0 .. Len(chunk)
      BY <3>1, <2>2
    <3>. HIDE DEF Bad
    <3> QED BY <2>1, <3>1, <3>2
  <2>4. PICK f : Ok(n - 1, f)
    BY <2>3
  <2>. DEFINE g == [k \in 0 .. n |-> IF k = n THEN Store(f[n - 1], chunk[n]) ELSE f[k]]
  <2>5. \A k \in 0 .. n - 1 : g[k] = f[k]
    BY <2>1
  <2>6. ASSUME NEW k \in 0 .. n
        PROVE  g[k] = IF k = 0 THEN [table |-> t, rc |-> "ok"] ELSE Store(g[k - 1], chunk[k])
    <3>1. CASE k = n
      BY <3>1, <2>2, <2>3, <2>5
    <3>2. CASE k # n
      <4>1. k \in 0 .. n - 1 /\ (k # 0 => k - 1 \in 0 .. n - 1)
        BY <3>2
      <4>2. f[k] = IF k = 0 THEN [table |-> t, rc |-> "ok"] ELSE Store(f[k - 1], chunk[k])
        BY <2>4, <4>1
      <4>. HIDE DEF g
      <4> QED BY <4>1, <4>2, <2>5
    <3> QED BY <3>1, <3>2
  <2>7. Ok(n, g)
    BY <2>6
  <2> QED BY <2>7
<1>2. \E f : Ok(Len(chunk), f)
  BY <1>1
<1>3. Ok(Len(chunk), Steps(t, chunk))
  BY <1>2 DEF Steps
<1> QED BY <1>3

\* new is old after the first k elements of a batch.
Latest(chunk, k, old, new) ==
  \A p \in Port :
    \/ /\ \A i \in 1 .. k : chunk[i].port # p
       /\ new[p] = old[p]
    \/ \E i \in 1 .. k :
         /\ chunk[i].port = p /\ chunk[i].post = new[p]
         /\ \A j \in i + 1 .. k : chunk[j].port # p

\* How far the daemon is.
Accs == [table : Table, rc : {"ok", "error"}]

\* update_endpoint stores an element or ends the batch.
LEMMA StoreActs ==
  ASSUME NEW acc \in Accs, NEW e \in Entry
  PROVE  /\ Store(acc, e) \in Accs
         /\ \/ /\ acc.rc = "ok" /\ Fits(acc.table, e.port)
               /\ Store(acc, e).rc = "ok"
               /\ Store(acc, e).table = [acc.table EXCEPT ![e.port] = e.post]
            \/ /\ acc.rc = "ok" => ~ Fits(acc.table, e.port)
               /\ Store(acc, e).rc = "error"
               /\ Store(acc, e).table = acc.table
<1>. acc = [table |-> acc.table, rc |-> acc.rc] /\ acc.table \in Table
     /\ e.port \in Port /\ e.post \in 0 .. MaxPosts
  BY BoundsAssumption DEF Accs, Entry
<1>1. CASE acc.rc = "ok" /\ Fits(acc.table, e.port)
  BY <1>1 DEF Store, Accs, Table
<1>2. CASE ~ (acc.rc = "ok" /\ Fits(acc.table, e.port))
  BY <1>2 DEF Store, Accs, Table
<1> QED BY <1>1, <1>2

\* An element that fits leaves the map within its size.
LEMMA PutFits ==
  ASSUME NEW t \in Table, Cardinality(Nonzero(t)) <= Capacity,
         NEW e \in Entry, Fits(t, e.port)
  PROVE  Cardinality(Nonzero([t EXCEPT ![e.port] = e.post])) <= Capacity
<1>. DEFINE u == [t EXCEPT ![e.port] = e.post]
<1>1. e.port \in Port /\ e.post # 0
  BY DEF Entry
<1>2. Nonzero(u) = Nonzero(t) \cup {e.port}
  BY <1>1 DEF Nonzero, Table
<1>3. IsFiniteSet(Nonzero(t))
  BY FiniteAssumption, FS_Subset DEF Nonzero
<1>4. CASE t[e.port] # 0
  <2>1. Nonzero(u) = Nonzero(t)
    BY <1>1, <1>2, <1>4 DEF Nonzero
  <2> QED BY <2>1
<1>5. CASE t[e.port] = 0
  <2>1. e.port \notin Nonzero(t) /\ Cardinality(Nonzero(t)) < Capacity
    BY <1>5 DEF Nonzero, Fits
  <2>2. Cardinality(Nonzero(u)) = Cardinality(Nonzero(t)) + 1
    BY <1>2, <1>3, <2>1, FS_AddElement
  <2>3. Cardinality(Nonzero(t)) \in Nat /\ Capacity \in Nat
    BY <1>3, FS_CardinalityType, BoundsAssumption
  <2> QED BY <2>1, <2>2, <2>3
<1> QED BY <1>4, <1>5

\* What the table is after n elements: each port as it was, or as an element of them
\* says; and as the last of them says unless one did not fit.
LEMMA StepsTrack ==
  ASSUME NEW t \in Table, Cardinality(Nonzero(t)) <= Capacity,
         NEW chunk \in Seq(Entry), NEW n \in 0 .. Len(chunk)
  PROVE  LET s == Steps(t, chunk)[n]
         IN  /\ s \in Accs
             /\ Cardinality(Nonzero(s.table)) <= Capacity
             /\ \A p \in Port :
                  s.table[p] = t[p] \/ \E i \in 1 .. n : chunk[i] = [port |-> p, post |-> s.table[p]]
             /\ s.rc = "ok" => Latest(chunk, n, t, s.table)
             /\ (\A i \in DOMAIN chunk : t[chunk[i].port] # 0) => s.rc = "ok"
<1>. DEFINE S(k) == Steps(t, chunk)[k]
            Good(k) ==
              /\ S(k) \in Accs
              /\ Cardinality(Nonzero(S(k).table)) <= Capacity
              /\ \A p \in Port :
                   S(k).table[p] = t[p] \/ \E i \in 1 .. k : chunk[i] = [port |-> p, post |-> S(k).table[p]]
              /\ S(k).rc = "ok" => Latest(chunk, k, t, S(k).table)
              /\ (\A i \in DOMAIN chunk : t[chunk[i].port] # 0) => S(k).rc = "ok"
            Bad == {k \in 0 .. Len(chunk) : ~ Good(k)}
<1>1. Good(0)
  <2>1. S(0) = [table |-> t, rc |-> "ok"]
    BY StepsDefined
  <2>2. Latest(chunk, 0, t, t)
    BY DEF Latest
  <2>. HIDE DEF S
  <2> QED BY <2>1, <2>2 DEF Accs
<1>2. ASSUME NEW k \in 1 .. Len(chunk), Good(k - 1)
      PROVE  Good(k)
  <2>1. S(k) = Store(S(k - 1), chunk[k]) /\ chunk[k] \in Entry
    BY StepsDefined
  <2>. DEFINE s == S(k - 1)  u == S(k)  e == chunk[k]
  <2>2. s \in Accs /\ s.table \in Table /\ e.port \in Port /\ e.post # 0
        /\ e = [port |-> e.port, post |-> e.post] /\ k - 1 \in Nat
    BY <1>2, <2>1 DEF Accs, Entry
  <2>. HIDE DEF S
  <2>3. CASE /\ s.rc = "ok" /\ Fits(s.table, e.port)
             /\ u.rc = "ok" /\ u.table = [s.table EXCEPT ![e.port] = e.post]
    <3>1. u \in Accs
      BY <2>1, <2>2, StoreActs
    <3>2. Cardinality(Nonzero(u.table)) <= Capacity
      BY <1>2, <2>1, <2>2, <2>3, PutFits
    <3>. HIDE DEF s, u, e
    <3>3. u.table[e.port] = e.post /\ \A p \in Port \ {e.port} : u.table[p] = s.table[p]
      BY <2>2, <2>3 DEF Table
    <3>4. ASSUME NEW p \in Port
          PROVE  u.table[p] = t[p] \/ \E i \in 1 .. k : chunk[i] = [port |-> p, post |-> u.table[p]]
      <4>1. CASE p = e.port
        BY <2>2, <3>3, <4>1 DEF e
      <4>2. CASE p # e.port
        <5>1. u.table[p] = s.table[p]
          BY <3>3, <4>2
        <5>2. s.table[p] = t[p] \/ \E i \in 1 .. k - 1 : chunk[i] = [port |-> p, post |-> s.table[p]]
          BY <1>2 DEF s
        <5> QED BY <5>1, <5>2, <2>2
      <4> QED BY <4>1, <4>2
    <3>5. Latest(chunk, k, t, u.table)
      <4>1. Latest(chunk, k - 1, t, s.table)
        BY <1>2, <2>3 DEF s
      <4>2. ASSUME NEW p \in Port
            PROVE  \/ /\ \A i \in 1 .. k : chunk[i].port # p
                      /\ u.table[p] = t[p]
                   \/ \E i \in 1 .. k :
                        /\ chunk[i].port = p /\ chunk[i].post = u.table[p]
                        /\ \A j \in i + 1 .. k : chunk[j].port # p
        <5>1. CASE p = e.port
          BY <3>3, <5>1 DEF e
        <5>2. CASE p # e.port
          BY <3>3, <4>1, <5>2, <2>2 DEF e, Latest
        <5> QED BY <5>1, <5>2
      <4> QED BY <4>2 DEF Latest
    <3> QED BY <2>3, <3>1, <3>2, <3>4, <3>5 DEF u
  <2>4. CASE /\ s.rc = "ok" => ~ Fits(s.table, e.port)
             /\ u.rc = "error" /\ u.table = s.table
    <3>1. u \in Accs
      BY <2>1, <2>2, StoreActs
    <3>2. ~ \A i \in DOMAIN chunk : t[chunk[i].port] # 0
      <4>. SUFFICES ASSUME \A i \in DOMAIN chunk : t[chunk[i].port] # 0
                    PROVE  FALSE
        OBVIOUS
      <4>1. s.rc = "ok" /\ t[e.port] # 0
        BY <1>2
      <4>2. s.table[e.port] = t[e.port]
            \/ \E i \in 1 .. k - 1 : chunk[i] = [port |-> e.port, post |-> s.table[e.port]]
        BY <1>2, <2>2
      <4>3. s.table[e.port] # 0
        <5>1. \A i \in 1 .. k - 1 : chunk[i] \in Entry
          BY <1>2
        <5>. HIDE DEF s, e
        <5> QED BY <4>1, <4>2, <5>1 DEF Entry
      <4> QED BY <4>1, <4>3, <2>4 DEF Fits
    <3>3. ASSUME NEW p \in Port
          PROVE  u.table[p] = t[p] \/ \E i \in 1 .. k : chunk[i] = [port |-> p, post |-> u.table[p]]
      <4>1. s.table[p] = t[p] \/ \E i \in 1 .. k - 1 : chunk[i] = [port |-> p, post |-> s.table[p]]
        BY <1>2
      <4>2. u.table[p] = s.table[p] /\ 1 .. k - 1 \subseteq 1 .. k
        BY <2>2, <2>4
      <4>. HIDE DEF s, u
      <4> QED BY <4>1, <4>2
    <3>4. Cardinality(Nonzero(u.table)) <= Capacity
      BY <1>2, <2>4
    <3> QED BY <2>4, <3>1, <3>2, <3>3, <3>4
  <2>5. \/ /\ s.rc = "ok" /\ Fits(s.table, e.port)
           /\ u.rc = "ok" /\ u.table = [s.table EXCEPT ![e.port] = e.post]
        \/ /\ s.rc = "ok" => ~ Fits(s.table, e.port)
           /\ u.rc = "error" /\ u.table = s.table
    <3>1. u = Store(s, e) /\ e \in Entry
      BY <2>1
    <3>. HIDE DEF s, u, e
    <3> QED BY <2>2, <3>1, StoreActs
  <2>. HIDE DEF Good
  <2> QED BY <2>3, <2>4, <2>5
<1>3. Bad = {}
  <2>. SUFFICES ASSUME Bad # {} PROVE FALSE
    OBVIOUS
  <2>1. Bad \subseteq 0 .. Len(chunk) /\ \A k \in 0 .. Len(chunk) : k \in Bad <=> ~ Good(k)
    OBVIOUS
  <2>. HIDE DEF Bad, Good
  <2>2. PICK k \in Bad : \A m \in Bad : k <= m
    <3>1. Bad \subseteq Nat
      BY <2>1
    <3> QED BY <3>1, Least
  <2>3. k \in 1 .. Len(chunk) /\ k - 1 \in 0 .. Len(chunk)
    BY <1>1, <2>1, <2>2
  <2>4. Good(k - 1)
    BY <2>1, <2>2, <2>3
  <2> QED BY <1>2, <2>1, <2>2, <2>3, <2>4
<1>4. Good(n)
  BY <1>3
<1> QED BY <1>4

(***************************************************************************)
(* The last word of a batch on a port.                                     *)
(***************************************************************************)
LEMMA MaxIsLast ==
  ASSUME NEW n \in Nat, NEW T, T \subseteq 1 .. n, T # {}
  PROVE  Max(T) \in T /\ \A i \in T : i <= Max(T)
<1>. DEFINE D == {n - i : i \in T}
<1>1. PICK d \in D : \A e \in D : d <= e
  <2>1. D \subseteq Nat /\ D # {}
    OBVIOUS
  <2>. HIDE DEF D
  <2> QED BY <2>1, Least
<1>2. PICK x \in T : d = n - x
  BY <1>1
<1>3. \A i \in T : x >= i
  <2>. SUFFICES ASSUME NEW i \in T PROVE x >= i
    OBVIOUS
  <2>1. n - i \in D
    OBVIOUS
  <2>2. n - x <= n - i
    BY <1>1, <1>2, <2>1
  <2> QED BY <2>2
<1>4. \A i \in T : Max(T) >= i /\ Max(T) \in T
  BY <1>3 DEF Max
<1> QED BY <1>2, <1>4

\* What a batch says of a port is its last word.
LEMMA SaidIsLatest ==
  ASSUME NEW chunk \in Seq(Entry), NEW old
  PROVE  /\ Latest(chunk, Len(chunk), old, Said(chunk, old))
         /\ DOMAIN Said(chunk, old) = Port
<1>. SUFFICES ASSUME NEW p \in Port
              PROVE  \/ /\ \A i \in 1 .. Len(chunk) : chunk[i].port # p
                        /\ Said(chunk, old)[p] = old[p]
                     \/ \E i \in 1 .. Len(chunk) :
                          /\ chunk[i].port = p /\ chunk[i].post = Said(chunk, old)[p]
                          /\ \A j \in i + 1 .. Len(chunk) : chunk[j].port # p
  BY DEF Latest, Said
<1>. DEFINE Of == {i \in DOMAIN chunk : chunk[i].port = p}
<1>1. Said(chunk, old)[p] = IF Of = {} THEN old[p] ELSE chunk[Max(Of)].post
  BY DEF Said
<1>2. CASE Of = {}
  <2>1. \A i \in 1 .. Len(chunk) : chunk[i].port # p
    BY <1>2
  <2> QED BY <1>1, <1>2, <2>1
<1>3. CASE Of # {}
  <2>1. Of \subseteq 1 .. Len(chunk) /\ Len(chunk) \in Nat
    OBVIOUS
  <2>2. \A i \in 1 .. Len(chunk) : chunk[i].port = p => i \in Of
    OBVIOUS
  <2>3. \A i \in Of : chunk[i].port = p
    OBVIOUS
  <2>. HIDE DEF Of
  <2>4. Max(Of) \in Of /\ \A i \in Of : i <= Max(Of)
    BY <1>3, <2>1, MaxIsLast
  <2>. DEFINE m == Max(Of)
  <2>5. \A j \in m + 1 .. Len(chunk) : chunk[j].port # p
    <3>1. m \in 1 .. Len(chunk)
      BY <2>1, <2>4
    <3>2. \A i \in Of : i <= m
      BY <2>4
    <3>. HIDE DEF m
    <3> QED BY <3>1, <3>2, <2>2
  <2> QED BY <1>1, <1>3, <2>1, <2>3, <2>4, <2>5
<1> QED BY <1>2, <1>3

\* And is a number as those of the batch.
LEMMA SaidType ==
  ASSUME NEW chunk \in Seq(Entry), NEW n \in Nat, NEW old \in [Port -> 0 .. n],
         \A i \in DOMAIN chunk : chunk[i].post <= n
  PROVE  Said(chunk, old) \in [Port -> 0 .. n]
<1>1. \A i \in 1 .. Len(chunk) : chunk[i].post \in 0 .. n
  <2>1. \A i \in 1 .. Len(chunk) : chunk[i] \in Entry
    OBVIOUS
  <2>2. \A e \in Entry : e.post \in Nat
    BY BoundsAssumption DEF Entry
  <2>3. \A i \in 1 .. Len(chunk) : chunk[i].post \in Nat /\ chunk[i].post <= n
    BY <2>1, <2>2
  <2> QED BY <2>3
<1>2. ASSUME NEW p \in Port
      PROVE  Said(chunk, old)[p] \in 0 .. n
  <2>1. Latest(chunk, Len(chunk), old, Said(chunk, old))
    BY SaidIsLatest
  <2>2. \/ Said(chunk, old)[p] = old[p]
        \/ \E i \in 1 .. Len(chunk) : chunk[i].post = Said(chunk, old)[p]
    BY <2>1 DEF Latest
  <2> QED BY <1>1, <2>2
<1>3. Said(chunk, old) = [p \in Port |-> Said(chunk, old)[p]]
  BY DEF Said
<1> QED BY <1>2, <1>3

\* What a batch says of a port it names does not depend on what was there.
LEMMA SaidLast ==
  ASSUME NEW chunk \in Seq(Entry), NEW old, NEW i \in 1 .. Len(chunk),
         \A j \in i + 1 .. Len(chunk) : chunk[j].port # chunk[i].port
  PROVE  Said(chunk, old)[chunk[i].port] = chunk[i].post
<1>. DEFINE p == chunk[i].port
<1>1. p \in Port
  <2>1. chunk[i] \in Entry
    OBVIOUS
  <2> QED BY <2>1 DEF Entry
<1>2. PICK k \in 1 .. Len(chunk) :
        /\ chunk[k].port = p /\ chunk[k].post = Said(chunk, old)[p]
        /\ \A j \in k + 1 .. Len(chunk) : chunk[j].port # p
  BY <1>1, SaidIsLatest DEF Latest
<1>3. k = i
  BY <1>2
<1> QED BY <1>2, <1>3

\* A port the batch does not name stays; the others do not depend on what was.
LEMMA SaidSame ==
  ASSUME NEW chunk, NEW a, NEW b, NEW p \in Port
  PROVE  \/ Said(chunk, a)[p] = Said(chunk, b)[p]
         \/ Said(chunk, a)[p] = a[p] /\ Said(chunk, b)[p] = b[p]
BY DEF Said

\* To say a batch twice is to say it once.
LEMMA SaidTwice ==
  ASSUME NEW chunk, NEW a, NEW p \in Port
  PROVE  Said(chunk, Said(chunk, a))[p] = Said(chunk, a)[p]
<1>. DEFINE b == Said(chunk, a)  Of == {i \in DOMAIN chunk : chunk[i].port = p}
<1>1. Said(chunk, b)[p] = IF Of = {} THEN b[p] ELSE chunk[Max(Of)].post
  BY DEF Said
<1>2. b[p] = IF Of = {} THEN a[p] ELSE chunk[Max(Of)].post
  BY DEF Said
<1>. HIDE DEF b, Of
<1>3. Said(chunk, b)[p] = b[p]
  BY <1>1, <1>2
<1> QED BY <1>3 DEF b

\* What is said of a port was there, or an element of the batch says it.
LEMMA SaidOld ==
  ASSUME NEW chunk \in Seq(Entry), NEW old, NEW p \in Port
  PROVE  \/ Said(chunk, old)[p] = old[p]
         \/ \E i \in DOMAIN chunk : chunk[i].port = p /\ chunk[i].post = Said(chunk, old)[p]
<1>1. Latest(chunk, Len(chunk), old, Said(chunk, old))
  BY SaidIsLatest
<1> QED BY <1>1 DEF Latest

\* Who knows what a batch says knows each port the batch names.
LEMMA SaidNamed ==
  ASSUME NEW t, NEW chunk \in Seq(Entry), t = Said(chunk, t), NEW i \in DOMAIN chunk
  PROVE  t[chunk[i].port] # 0
<1>1. chunk[i].port \in Port /\ \A j \in DOMAIN chunk : chunk[j].post # 0
  <2>1. \A j \in 1 .. Len(chunk) : chunk[j] \in Entry
    OBVIOUS
  <2> QED BY <2>1 DEF Entry
<1>2. Latest(chunk, Len(chunk), t, t)
  BY SaidIsLatest
<1>3. \E j \in 1 .. Len(chunk) : chunk[j].post = t[chunk[i].port]
  BY <1>1, <1>2 DEF Latest
<1> QED BY <1>1, <1>3

\* A part of a batch that cuts no repetition leaves no port older than was answered,
\* when the batch is not older, or says no more than what was answered.
LEMMA StepsNotOlder ==
  ASSUME NEW t \in Table, Cardinality(Nonzero(t)) <= Capacity,
         NEW chunk \in Seq(Entry), NEW n \in 0 .. Len(chunk), ~ CutsRepeat(chunk, n),
         NEW a \in [Port -> Nat], \A p \in Port : t[p] >= a[p],
         \/ \A k \in DOMAIN chunk : a[chunk[k].port] <= chunk[k].post
         \/ /\ \A k \in DOMAIN chunk : t[chunk[k].port] # 0
            /\ \A p \in Port : Said(chunk, a)[p] >= a[p],
         NEW p \in Port
  PROVE  Steps(t, chunk)[n].table[p] >= a[p]
<1>. DEFINE s == Steps(t, chunk)[n]
<1>1. /\ s \in Accs
      /\ s.table[p] = t[p] \/ \E i \in 1 .. n : chunk[i] = [port |-> p, post |-> s.table[p]]
      /\ s.rc = "ok" => Latest(chunk, n, t, s.table)
      /\ (\A i \in DOMAIN chunk : t[chunk[i].port] # 0) => s.rc = "ok"
  BY StepsTrack
<1>. SUFFICES s.table[p] >= a[p]
  OBVIOUS
<1>. HIDE DEF s
<1>2. CASE \A k \in DOMAIN chunk : a[chunk[k].port] <= chunk[k].post
  <2>1. CASE \E i \in 1 .. n : chunk[i] = [port |-> p, post |-> s.table[p]]
    <3>1. PICK i \in 1 .. n : chunk[i] = [port |-> p, post |-> s.table[p]]
      BY <2>1
    <3>2. chunk[i].port = p /\ chunk[i].post = s.table[p]
      BY <3>1
    <3>3. a[p] <= s.table[p] /\ chunk[i] \in Entry
      BY <1>2, <3>2
    <3> QED BY <3>2, <3>3, BoundsAssumption DEF Entry
  <2> QED BY <1>1, <2>1
<1>3. CASE /\ \A k \in DOMAIN chunk : t[chunk[k].port] # 0
           /\ \A q \in Port : Said(chunk, a)[q] >= a[q]
  <2>1. Latest(chunk, n, t, s.table)
    BY <1>1, <1>3
  <2>2. CASE \E i \in 1 .. n : /\ chunk[i].port = p /\ chunk[i].post = s.table[p]
                               /\ \A j \in i + 1 .. n : chunk[j].port # p
    <3>1. PICK i \in 1 .. n : /\ chunk[i].port = p /\ chunk[i].post = s.table[p]
                              /\ \A j \in i + 1 .. n : chunk[j].port # p
      BY <2>2
    <3>2. \A j \in i + 1 .. Len(chunk) : chunk[j].port # p
      BY <3>1 DEF CutsRepeat
    <3>3. Said(chunk, a)[p] = s.table[p]
      BY <3>1, <3>2, SaidLast
    <3> QED BY <1>3, <3>3
  <2>3. CASE s.table[p] = t[p]
    BY <2>3
  <2> QED BY <2>1, <2>2, <2>3 DEF Latest
<1> QED BY <1>2, <1>3

\* A batch comes again to a table that says what it says: nothing changes.
LEMMA StepsAgain ==
  ASSUME NEW t \in Table, Cardinality(Nonzero(t)) <= Capacity,
         NEW chunk \in Seq(Entry), NEW n \in 0 .. Len(chunk), ~ CutsRepeat(chunk, n),
         t = Said(chunk, t)
  PROVE  Steps(t, chunk)[n].table = t
<1>. DEFINE s == Steps(t, chunk)[n]
<1>1. /\ s \in Accs
      /\ s.rc = "ok" => Latest(chunk, n, t, s.table)
      /\ (\A i \in DOMAIN chunk : t[chunk[i].port] # 0) => s.rc = "ok"
  BY StepsTrack
<1>2. \A i \in DOMAIN chunk : t[chunk[i].port] # 0
  BY SaidNamed
<1>3. Latest(chunk, n, t, s.table) /\ s.table \in Table
  BY <1>1, <1>2 DEF Accs
<1>. HIDE DEF s
<1>4. ASSUME NEW p \in Port
      PROVE  s.table[p] = t[p]
  <2>1. CASE \E i \in 1 .. n : /\ chunk[i].port = p /\ chunk[i].post = s.table[p]
                               /\ \A j \in i + 1 .. n : chunk[j].port # p
    <3>1. PICK i \in 1 .. n : /\ chunk[i].port = p /\ chunk[i].post = s.table[p]
                              /\ \A j \in i + 1 .. n : chunk[j].port # p
      BY <2>1
    <3>2. \A j \in i + 1 .. Len(chunk) : chunk[j].port # p
      BY <3>1 DEF CutsRepeat
    <3>3. Said(chunk, t)[p] = s.table[p]
      BY <3>1, <3>2, SaidLast
    <3> QED BY <3>3
  <2> QED BY <1>3, <2>1 DEF Latest
<1>5. s.table = t
  BY <1>3, <1>4 DEF Table
<1> QED BY <1>5 DEF s

\* A batch answered with 0 is what the table says.
LEMMA StepsSay ==
  ASSUME NEW t \in Table, Cardinality(Nonzero(t)) <= Capacity,
         NEW chunk \in Seq(Entry), Stored(t, chunk).rc = "ok"
  PROVE  Stored(t, chunk).table = Said(chunk, Stored(t, chunk).table)
<1>. DEFINE u == Stored(t, chunk).table
<1>1. Latest(chunk, Len(chunk), t, u) /\ u \in Table
  BY StepsTrack DEF Stored, Accs
<1>. HIDE DEF u
<1>2. Latest(chunk, Len(chunk), u, Said(chunk, u)) /\ Said(chunk, u) = [p \in Port |-> Said(chunk, u)[p]]
  BY SaidIsLatest DEF Said
<1>3. ASSUME NEW p \in Port
      PROVE  Said(chunk, u)[p] = u[p]
  <2>1. CASE \A i \in 1 .. Len(chunk) : chunk[i].port # p
    BY <1>2, <2>1 DEF Latest
  <2>2. CASE \E i \in 1 .. Len(chunk) :
               /\ chunk[i].port = p /\ chunk[i].post = u[p]
               /\ \A j \in i + 1 .. Len(chunk) : chunk[j].port # p
    BY <2>2, SaidLast
  <2> QED BY <1>1, <2>1, <2>2 DEF Latest
<1> QED BY <1>1, <1>2, <1>3 DEF u, Table

(***************************************************************************)
(* The batches.                                                            *)
(***************************************************************************)
\* Rounding up by a division.
LEMMA Ceiling ==
  ASSUME NEW n \in Nat, NEW b \in Nat \ {0}
  PROVE  LET q == (n + b - 1) \div b
         IN  q \in Nat /\ n <= q * b /\ q * b < n + b
<1>. DEFINE m == n + b - 1  q == m \div b
<1>1. m \in Nat
  OBVIOUS
<1>2. q \in Int /\ m = q * b + (m % b) /\ m % b \in 0 .. b - 1
  OBVIOUS
<1>3. q * b \in Int /\ n <= q * b /\ q * b < n + b
  BY <1>1, <1>2
<1>4. q >= 0
  <2>1. SUFFICES ASSUME q <= -1 PROVE FALSE
    BY <1>2
  <2>2. q * b <= (-1) * b
    BY <1>2, <2>1
  <2> QED BY <1>3, <2>2
<1> QED BY <1>2, <1>3, <1>4

\* Products keep the order.
LEMMA Times ==
  ASSUME NEW c \in Int, NEW d \in Int, c <= d, NEW b \in Nat
  PROVE  c * b \in Int /\ c * b <= d * b
OBVIOUS

\* The batches cover the list: one past the last has nothing left, each other one has
\* something.
LEMMA ChunksCover ==
  ASSUME eps \in Seq(Entry), NEW c \in Nat \ {0}
  PROVE  /\ c > Chunks => Len(eps) <= (c - 1) * Batch
         /\ c <= Chunks => (c - 1) * Batch < Len(eps)
         /\ c <= Chunks => eps # <<>>
         /\ (c - 1) * Batch \in Nat /\ c * Batch = (c - 1) * Batch + Batch
         /\ Batch \in Nat \ {0}
<1>. Len(eps) \in Nat /\ Batch \in Nat \ {0}
  BY BatchAssumption
<1>1. Chunks \in Nat /\ Len(eps) <= Chunks * Batch /\ Chunks * Batch < Len(eps) + Batch
  BY Ceiling DEF Chunks
<1>2. (c - 1) * Batch \in Nat /\ c * Batch = (c - 1) * Batch + Batch
  OBVIOUS
<1>3. c > Chunks => Len(eps) <= (c - 1) * Batch
  <2>1. c > Chunks => Chunks * Batch <= (c - 1) * Batch
    BY <1>1, Times
  <2> QED BY <1>1, <1>2, <2>1
<1>4. c <= Chunks => (c - 1) * Batch < Len(eps)
  <2>1. c <= Chunks => c * Batch <= Chunks * Batch /\ c * Batch \in Int /\ Chunks * Batch \in Int
    BY <1>1, Times
  <2> QED BY <1>1, <1>2, <2>1
<1>5. c <= Chunks => eps # <<>>
  BY <1>2, <1>4
<1> QED BY <1>2, <1>3, <1>4, <1>5

\* A batch is its stretch of the list.
LEMMA ChunkIs ==
  ASSUME eps \in Seq(Entry), NEW c \in Nat \ {0}, c <= Chunks
  PROVE  /\ Chunk(c) \in Seq(Entry)
         /\ \A i \in DOMAIN Chunk(c) :
              /\ (c - 1) * Batch + i \in DOMAIN eps
              /\ (c - 1) * Batch + i <= c * Batch
              /\ Chunk(c)[i] = eps[(c - 1) * Batch + i]
         /\ \A i \in DOMAIN eps :
              (c - 1) * Batch < i /\ i <= c * Batch =>
                \E j \in DOMAIN Chunk(c) : Chunk(c)[j] = eps[i]
<1>. DEFINE lo == (c - 1) * Batch
            hi == IF c * Batch > Len(eps) THEN Len(eps) ELSE c * Batch
<1>1. /\ lo \in Nat /\ hi \in Nat /\ hi <= Len(eps) /\ hi <= c * Batch /\ lo < hi
      /\ \A i \in DOMAIN eps : i <= c * Batch => i <= hi
      /\ c * Batch \in Nat
  <2>1. /\ lo \in Nat /\ lo < Len(eps) /\ lo < c * Batch /\ c * Batch \in Nat
        /\ Len(eps) \in Nat /\ DOMAIN eps = 1 .. Len(eps)
    <3>1. lo \in Nat /\ lo < Len(eps) /\ c * Batch = lo + Batch /\ Batch \in Nat \ {0}
      BY ChunksCover
    <3>2. Len(eps) \in Nat /\ DOMAIN eps = 1 .. Len(eps)
      OBVIOUS
    <3>. HIDE DEF lo
    <3> QED BY <3>1, <3>2
  <2>. DEFINE m == c * Batch
  <2>2. /\ hi \in Nat /\ hi <= Len(eps) /\ hi <= m /\ lo < hi
        /\ \A i \in DOMAIN eps : i <= m => i <= hi
    <3>. HIDE DEF m, lo
    <3> QED BY <2>1 DEF m
  <2> QED BY <2>1, <2>2
<1>2. Chunk(c) = SubSeq(eps, lo + 1, hi)
  BY DEF Chunk
<1>. HIDE DEF lo, hi
<1>3. /\ Chunk(c) \in Seq(Entry) /\ Len(Chunk(c)) = hi - lo
      /\ DOMAIN Chunk(c) = 1 .. hi - lo
      /\ \A i \in 1 .. hi - lo : Chunk(c)[i] = eps[lo + i]
  BY <1>1, <1>2
<1>4. \A i \in DOMAIN Chunk(c) :
        lo + i \in DOMAIN eps /\ lo + i <= c * Batch /\ Chunk(c)[i] = eps[lo + i]
  BY <1>1, <1>3
<1>5. ASSUME NEW i \in DOMAIN eps, lo < i, i <= c * Batch
      PROVE  \E j \in DOMAIN Chunk(c) : Chunk(c)[j] = eps[i]
  <2>1. i - lo \in 1 .. hi - lo /\ lo + (i - lo) = i
    BY <1>1, <1>5
  <2> QED BY <1>3, <2>1
<1> QED BY <1>3, <1>4, <1>5 DEF lo

\* Copies of calls.
Copies == [xid : Nat, chunk : Seq(Entry)]

CallSet == [node : Node, chunk : Seq(Entry), xid : Nat, sends : Nat,
            reply : {"none", "ok", "error"}]

\* The types of all variables.
Shape ==
  /\ portRows \subseteq Port
  /\ nodeIps \in Seq(Node) /\ IsInjective(nodeIps)
  /\ eps \in Seq(Entry)
  /\ req \in Seq(Port)
  /\ phase \in {"idle", "ports", "eps", "send"}
  /\ at \in (Nat \ {0}) \X (Nat \ {0})
  /\ call # NoCall => call \in CallSet
  /\ orphan # NoCall => orphan \in CallSet
  /\ net \in [Node -> Seq(Copies)]
  /\ daemon \in [Node -> {"down", "bare", "ready"}]
  /\ table \in [Node -> Table]
  /\ posts \in 0 .. MaxPosts /\ calls \in Nat
  /\ answered \in [Node -> [Port -> 0 .. posts]]

\* What the kernel and the program hold.
Full ==
  \A n \in Node :
    /\ daemon[n] = "down" => net[n] = <<>>
    /\ Len(net[n]) <= Socket
    /\ Cardinality(Nonzero(table[n])) <= Capacity

\* What waits is in the order of the requests.
Waiting ==
  /\ \A i, j \in DOMAIN eps : i < j => eps[i].post <= eps[j].post
  /\ \A i \in DOMAIN eps : eps[i].post <= posts

\* The call is of the batch and the node the loop is at.
Calling ==
  call # NoCall =>
    /\ phase = "send" /\ at[1] <= Chunks
    /\ at[2] \in DOMAIN nodeIps
    /\ call.node = nodeIps[at[2]]
    /\ call.chunk = Chunk(at[1])
    /\ call.xid = calls
  
\* Where the loop begins, and that its node is one.
Placed ==
  /\ phase \in {"ports", "eps"} => at = <<1, 1>>
  /\ phase = "send" /\ nodeIps # <<>> => at[2] \in DOMAIN nodeIps

Shaped == Shape /\ Full /\ Waiting /\ Calling /\ Placed

\* What a request appends comes last and has the newest number.
LEMMA CollectedIs ==
  ASSUME Shape, Waiting, posts < MaxPosts, NEW ps \in Seq(Port)
  PROVE  /\ Collected(ps) \in Seq(Entry)
         /\ Len(Collected(ps)) = Len(eps) + Len(ps)
         /\ \A i \in DOMAIN eps : i \in DOMAIN Collected(ps) /\ Collected(ps)[i] = eps[i]
         /\ \A i \in DOMAIN ps : /\ Len(eps) + i \in DOMAIN Collected(ps)
                                 /\ Collected(ps)[Len(eps) + i] = [port |-> ps[i], post |-> posts + 1]
         /\ \A i \in DOMAIN Collected(ps) :
              \/ i \in DOMAIN eps /\ Collected(ps)[i] = eps[i]
              \/ i > Len(eps) /\ Collected(ps)[i].post = posts + 1
         /\ \A i, j \in DOMAIN Collected(ps) : i < j => Collected(ps)[i].post <= Collected(ps)[j].post
<1>. DEFINE es == Entries(ps, posts + 1)
<1>. eps \in Seq(Entry) /\ posts \in Nat /\ posts + 1 \in 1 .. MaxPosts /\ Len(eps) \in Nat
  BY BoundsAssumption DEF Shape
<1>1. es \in Seq(Entry) /\ Len(es) = Len(ps) /\ \A i \in DOMAIN ps : es[i] = [port |-> ps[i], post |-> posts + 1]
  <2>1. es = [i \in 1 .. Len(ps) |-> [port |-> ps[i], post |-> posts + 1]]
    BY DEF Entries
  <2>2. \A i \in 1 .. Len(ps) : [port |-> ps[i], post |-> posts + 1] \in Entry
    BY DEF Entry
  <2> QED BY <2>1, <2>2
<1>2. Collected(ps) = eps \o es
  BY DEF Collected
<1>. HIDE DEF es
<1>3. /\ Collected(ps) \in Seq(Entry)
      /\ Len(Collected(ps)) = Len(eps) + Len(ps)
      /\ \A i \in DOMAIN eps : i \in DOMAIN Collected(ps) /\ Collected(ps)[i] = eps[i]
      /\ \A i \in DOMAIN ps : /\ Len(eps) + i \in DOMAIN Collected(ps)
                              /\ Collected(ps)[Len(eps) + i] = [port |-> ps[i], post |-> posts + 1]
  <2>1. /\ Collected(ps) \in Seq(Entry)
        /\ Len(Collected(ps)) = Len(eps) + Len(ps)
        /\ DOMAIN eps = 1 .. Len(eps) /\ DOMAIN ps = 1 .. Len(ps)
        /\ DOMAIN Collected(ps) = 1 .. Len(eps) + Len(ps)
    <3>1. Collected(ps) \in Seq(Entry) /\ Len(Collected(ps)) = Len(eps) + Len(ps)
      <4>1. es \in Seq(Entry) /\ Len(es) = Len(ps)
        BY <1>1
      <4>2. eps \o es \in Seq(Entry) /\ Len(eps \o es) = Len(eps) + Len(es)
        BY <4>1, ConcatProperties
      <4> QED BY <4>1, <4>2, <1>2
    <3>2. DOMAIN eps = 1 .. Len(eps) /\ DOMAIN ps = 1 .. Len(ps)
          /\ DOMAIN Collected(ps) = 1 .. Len(Collected(ps))
      BY <3>1
    <3> QED BY <3>1, <3>2
  <2>2. \A i \in 1 .. Len(eps) : Collected(ps)[i] = eps[i]
    BY <1>1, <1>2
  <2>3. \A i \in 1 .. Len(ps) : Collected(ps)[Len(eps) + i] = es[i]
    BY <1>1, <1>2
  <2>4. \A i \in 1 .. Len(ps) : es[i] = [port |-> ps[i], post |-> posts + 1]
    BY <1>1, <2>1
  <2>5. \A i \in 1 .. Len(eps) : i \in 1 .. Len(eps) + Len(ps)
    OBVIOUS
  <2>6. \A i \in 1 .. Len(ps) : Len(eps) + i \in 1 .. Len(eps) + Len(ps)
    OBVIOUS
  <2> QED BY <2>1, <2>2, <2>3, <2>4, <2>5, <2>6
<1>4. ASSUME NEW i \in DOMAIN Collected(ps)
      PROVE  \/ i \in DOMAIN eps /\ Collected(ps)[i] = eps[i]
             \/ i > Len(eps) /\ Collected(ps)[i].post = posts + 1
  <2>1. CASE i <= Len(eps)
    <3>1. i \in DOMAIN eps
      <4>1. i \in 1 .. Len(Collected(ps)) /\ Len(eps) \in Nat
        <5>1. DOMAIN Collected(ps) = 1 .. Len(Collected(ps))
          BY <1>3
        <5> QED BY <5>1
      <4> QED BY <2>1, <4>1
    <3> QED BY <1>3, <3>1
  <2>2. CASE i > Len(eps)
    <3>1. i \in 1 .. Len(eps) + Len(ps) /\ Len(eps) \in Nat /\ DOMAIN ps = 1 .. Len(ps)
      <4>1. DOMAIN Collected(ps) = 1 .. Len(Collected(ps))
        BY <1>3
      <4> QED BY <1>3, <4>1
    <3>2. i - Len(eps) \in DOMAIN ps /\ Len(eps) + (i - Len(eps)) = i
      BY <2>2, <3>1
    <3>3. Collected(ps)[i] = [port |-> ps[i - Len(eps)], post |-> posts + 1]
      BY <1>3, <3>2
    <3> QED BY <2>2, <3>3
  <2> QED BY <1>3, <2>1, <2>2
<1>5. ASSUME NEW i \in DOMAIN Collected(ps), NEW j \in DOMAIN Collected(ps), i < j
      PROVE  Collected(ps)[i].post <= Collected(ps)[j].post
  <2>1. DOMAIN Collected(ps) \subseteq Nat
    BY <1>3
  <2>2. \A k \in DOMAIN eps : eps[k].post \in Nat /\ eps[k].post <= posts
    <3>1. \A k \in 1 .. Len(eps) : eps[k] \in Entry
      OBVIOUS
    <3> QED BY <3>1, BoundsAssumption DEF Waiting, Entry
  <2>3. DOMAIN eps = 1 .. Len(eps)
    OBVIOUS
  <2> QED BY <1>4, <1>5, <2>1, <2>2, <2>3 DEF Waiting
<1> QED BY <1>3, <1>4, <1>5

\* A list without one of its elements.
LEMMA RemovedIs ==
  ASSUME nodeIps \in Seq(Node), IsInjective(nodeIps), NEW i \in DOMAIN nodeIps
  PROVE  RemoveAt(nodeIps, i) \in Seq(Node) /\ IsInjective(RemoveAt(nodeIps, i))
<1>. DEFINE u == SubSeq(nodeIps, 1, i - 1)
            v == SubSeq(nodeIps, i + 1, Len(nodeIps))
            s == RemoveAt(nodeIps, i)
<1>a. i \in 1 .. Len(nodeIps) /\ Len(nodeIps) \in Nat
  OBVIOUS
<1>b. u \in Seq(Node) /\ Len(u) = i - 1 /\ \A j \in 1 .. i - 1 : u[j] = nodeIps[j]
  BY <1>a
<1>c. /\ v \in Seq(Node) /\ Len(v) = Len(nodeIps) - i
      /\ \A j \in 1 .. Len(nodeIps) - i : v[j] = nodeIps[i + j]
  BY <1>a
<1>d. s = u \o v
  BY DEF RemoveAt
<1>. HIDE DEF s, u, v
<1>1. s \in Seq(Node) /\ Len(s) = Len(nodeIps) - 1
  BY <1>a, <1>b, <1>c, <1>d
<1>e. DOMAIN s = 1 .. Len(nodeIps) - 1
  BY <1>1
<1>2. \A j \in DOMAIN s : s[j] = IF j < i THEN nodeIps[j] ELSE nodeIps[j + 1]
  <2>. SUFFICES ASSUME NEW j \in 1 .. Len(nodeIps) - 1
                PROVE  s[j] = IF j < i THEN nodeIps[j] ELSE nodeIps[j + 1]
    BY <1>e
  <2>1. CASE j < i
    <3>1. s[j] = u[j]
      BY <1>a, <1>b, <1>c, <1>d, <2>1
    <3> QED BY <1>a, <1>b, <2>1, <3>1
  <2>2. CASE ~ (j < i)
    <3>1. s[j] = v[j - (i - 1)]
      BY <1>a, <1>b, <1>c, <1>d, <2>2
    <3>2. j - (i - 1) \in 1 .. Len(nodeIps) - i /\ i + (j - (i - 1)) = j + 1
      BY <1>a, <2>2
    <3> QED BY <1>c, <2>2, <3>1, <3>2
  <2> QED BY <2>1, <2>2
<1>3. \A j \in DOMAIN s : j \in DOMAIN nodeIps /\ j + 1 \in DOMAIN nodeIps
  BY <1>1
<1>4. \A a, b \in DOMAIN s : s[a] = s[b] => a = b
  BY <1>1, <1>2, <1>3 DEF IsInjective
<1> QED BY <1>1, <1>4 DEF s, IsInjective

(***************************************************************************)
(* One step.                                                               *)
(***************************************************************************)
\* Parts of the invariant that a step leaves alone.
LEMMA SameChunks ==
  ASSUME eps' = eps
  PROVE  Chunks' = Chunks /\ \A c : Chunk(c)' = Chunk(c)
BY DEF Chunks, Chunk

\* Steps that leave alone what a part of the invariant is about.
LEMMA FullSame == Full /\ UNCHANGED <<daemon, net, table>> => Full'
BY DEF Full, Nonzero

\* The same of what waits.
LEMMA WaitingSame == Waiting /\ UNCHANGED <<eps, posts>> => Waiting'
BY DEF Waiting

\* Of the call.
LEMMA CallingSame == Calling /\ UNCHANGED <<call, phase, at, nodeIps, eps, calls>> => Calling'
BY SameChunks DEF Calling

\* Of no call.
LEMMA CallingNone == Calling /\ (call' = NoCall \/ (call' = call /\ phase # "send")) => Calling'
BY DEF Calling

\* Of the place of the loop.
LEMMA PlacedSame == Placed /\ UNCHANGED <<phase, at, nodeIps>> => Placed'
BY DEF Placed

\* No loop has no place.
LEMMA PlacedIdle == phase' = "idle" => Placed'
BY DEF Placed

\* Any call that ends.
Ends == call # NoCall /\ Conclude

\* However a call ends.
LEMMA CallEnds == Unreached \/ Replied \/ Expire => Ends
BY DEF Unreached, Replied, Expire, Ends

\* A copy sent keeps the sockets within their size.
LEMMA CopyShape ==
  ASSUME Shape, Full, NEW c \in CallSet, Copy(c)
  PROVE  /\ net' \in [Node -> Seq(Copies)]
         /\ \A n \in Node : /\ daemon[n] = "down" => net'[n] = <<>>
                            /\ Len(net'[n]) <= Socket
<1>1. CASE UNCHANGED net
  BY <1>1 DEF Shape, Full
<1>2. CASE net' # net
  <2>. DEFINE x == [xid |-> c.xid, chunk |-> c.chunk]
  <2>1. /\ c.node \in Node /\ daemon[c.node] # "down" /\ Len(net[c.node]) < Socket
        /\ net' = [net EXCEPT ![c.node] = Append(@, x)]
    BY <1>2 DEF Copy, CallSet
  <2>2. x \in Copies
    BY DEF Copies, CallSet
  <2>. HIDE DEF x
  <2>3. net[c.node] \in Seq(Copies)
    BY <2>1 DEF Shape
  <2>4. /\ Append(net[c.node], x) \in Seq(Copies)
        /\ Len(Append(net[c.node], x)) = Len(net[c.node]) + 1 /\ Len(net[c.node]) \in Nat
    BY <2>2, <2>3
  <2>5. Socket \in Nat
    BY BoundsAssumption
  <2> QED BY <2>1, <2>4, <2>5 DEF Shape, Full
<1> QED BY <1>1, <1>2

\* One more copy of a call.
LEMMA SendsMore ==
  ASSUME NEW c \in CallSet, NEW d, d = [c EXCEPT !.sends = @ + 1]
  PROVE  /\ d \in CallSet
         /\ d.node = c.node /\ d.chunk = c.chunk /\ d.xid = c.xid /\ d.reply = c.reply
<1>1. c.sends + 1 \in Nat
  BY DEF CallSet
<1> QED BY <1>1 DEF CallSet

\* What a batch does to the table of a node: all of it, or a part, or nothing.
Takes(n, k, chunk) ==
  /\ net[n] # <<>> /\ chunk = Head(net[n]).chunk
  /\ k \in 0 .. Len(chunk)
  /\ table' = [table EXCEPT ![n] = Steps(@, chunk)[k].table]

\* A batch taken keeps the table a table, within its size.
LEMMA TakesTable ==
  ASSUME Shape, Full, NEW n \in Node, NEW k, NEW chunk, Takes(n, k, chunk)
  PROVE  /\ Head(net[n]) \in Copies /\ net[n] \in Seq(Copies) /\ chunk \in Seq(Entry)
         /\ table' \in [Node -> Table]
         /\ \A m \in Node \ {n} : table'[m] = table[m]
         /\ table'[n] = Steps(table[n], chunk)[k].table
         /\ \A m \in Node : Cardinality(Nonzero(table'[m])) <= Capacity
<1>1. net[n] \in Seq(Copies) /\ net[n] # <<>>
  BY DEF Shape, Takes
<1>2. Head(net[n]) \in Copies
  BY <1>1
<1>3. chunk \in Seq(Entry) /\ k \in 0 .. Len(chunk)
  BY <1>2 DEF Takes, Copies
<1>4. table[n] \in Table /\ Cardinality(Nonzero(table[n])) <= Capacity
  BY DEF Shape, Full
<1>5. /\ Steps(table[n], chunk)[k].table \in Table
      /\ Cardinality(Nonzero(Steps(table[n], chunk)[k].table)) <= Capacity
  BY <1>3, <1>4, StepsTrack DEF Accs
<1>6. /\ table' \in [Node -> Table]
      /\ \A m \in Node \ {n} : table'[m] = table[m]
      /\ table'[n] = Steps(table[n], chunk)[k].table
  BY <1>5 DEF Takes, Shape
<1> QED BY <1>1, <1>2, <1>3, <1>5, <1>6 DEF Full

\* The daemon serves a copy: it takes the whole batch, or up to an element that does
\* not fit, or, without maps, nothing.
LEMMA ServeTakes ==
  ASSUME Shape, Full, NEW n \in Node, Serve(n)
  PROVE  /\ net' = [net EXCEPT ![n] = Tail(@)]
         /\ \E k, chunk :
              /\ Takes(n, k, chunk) /\ ~ CutsRepeat(chunk, k)
              /\ \/ UNCHANGED call
                 \/ /\ call # NoCall /\ call.xid = Head(net[n]).xid /\ call.reply = "none"
                    /\ \E rc \in {"ok", "error"} :
                         /\ call' = [call EXCEPT !.reply = rc]
                         /\ rc = "ok" => k = Len(chunk) /\ Stored(table[n], chunk).rc = "ok"
<1>. DEFINE copy == Head(net[n])  chunk == copy.chunk  t == table[n]
<1>1. net[n] # <<>> /\ net' = [net EXCEPT ![n] = Tail(@)]
  BY DEF Serve
<1>2. net[n] \in Seq(Copies)
  BY DEF Shape
<1>3. chunk \in Seq(Entry)
  <2>1. copy \in Copies
    BY <1>1, <1>2
  <2> QED BY <2>1 DEF Copies
<1>4. t \in Table /\ Cardinality(Nonzero(t)) <= Capacity /\ table \in [Node -> Table]
  BY DEF Shape, Full
<1>5. CASE daemon[n] = "ready"
  <2>1. /\ table' = [table EXCEPT ![n] = Stored(t, chunk).table]
        /\ Reply(copy.xid, Stored(t, chunk).rc)
    BY <1>5 DEF Serve
  <2>2. Takes(n, Len(chunk), chunk)
    BY <1>1, <1>3, <2>1 DEF Takes, Stored
  <2>3. ~ CutsRepeat(chunk, Len(chunk))
    BY <1>3 DEF CutsRepeat
  <2>4. Stored(t, chunk).rc \in {"ok", "error"}
    BY <1>3, <1>4, StepsTrack DEF Stored, Accs
  <2>. HIDE DEF chunk, t
  <2> QED BY <1>1, <2>1, <2>2, <2>3, <2>4 DEF Reply, chunk, t
<1>6. CASE daemon[n] # "ready"
  <2>1. /\ table' = [table EXCEPT ![n] = t]
        /\ Reply(copy.xid, "error")
    BY <1>6 DEF Serve
  <2>2. Takes(n, 0, chunk)
    <3>1. Steps(t, chunk)[0].table = t
      BY <1>3, StepsDefined
    <3>2. table' = [table EXCEPT ![n] = Steps(@, chunk)[0].table]
      BY <2>1, <3>1
    <3>3. 0 \in 0 .. Len(chunk)
      BY <1>3
    <3>. HIDE DEF chunk
    <3> QED BY <1>1, <3>2, <3>3 DEF Takes, chunk
  <2>3. ~ CutsRepeat(chunk, 0)
    BY DEF CutsRepeat
  <2>. HIDE DEF chunk, t
  <2> QED BY <1>1, <2>1, <2>2, <2>3 DEF Reply, chunk, t
<1> QED BY <1>5, <1>6

\* The daemon dies, perhaps within a batch.
LEMMA DieTakes ==
  ASSUME Shape, Full, NEW n \in Node, Die(n)
  PROVE  /\ net' = [net EXCEPT ![n] = <<>>]
         /\ \/ UNCHANGED <<table, strayed>>
            \/ \E k, chunk :
                 /\ Takes(n, k, chunk)
                 /\ strayed' = IF CutsRepeat(chunk, k) THEN strayed \cup {n} ELSE strayed
<1>1. net' = [net EXCEPT ![n] = <<>>]
  BY DEF Die
<1>2. CASE UNCHANGED <<table, strayed>>
  BY <1>1, <1>2
<1>3. CASE ~ UNCHANGED <<table, strayed>>
  <2>. DEFINE chunk == Head(net[n]).chunk
  <2>1. net[n] # <<>> /\ net[n] \in Seq(Copies)
    BY <1>3 DEF Die, Shape
  <2>2. chunk \in Seq(Entry)
    <3>1. Head(net[n]) \in Copies
      BY <2>1
    <3> QED BY <3>1 DEF Copies
  <2>3. PICK k \in DOMAIN chunk :
          /\ table' = [table EXCEPT ![n] = Steps(@, chunk)[k].table]
          /\ strayed' = IF CutsRepeat(chunk, k) THEN strayed \cup {n} ELSE strayed
    BY <1>3 DEF Die
  <2>4. k \in 0 .. Len(chunk)
    BY <2>2
  <2>5. Takes(n, k, chunk)
    BY <2>1, <2>3, <2>4 DEF Takes
  <2> QED BY <1>1, <2>3, <2>5
<1> QED BY <1>2, <1>3

\* Copies that swap are the same copies.
LEMMA OvertakeSwaps ==
  ASSUME Shape, NEW n \in Node, Overtake(n)
  PROVE  /\ net' \in [Node -> Seq(Copies)]
         /\ \A m \in Node \ {n} : net'[m] = net[m]
         /\ Len(net'[n]) = Len(net[n]) /\ net[n] # <<>>
         /\ \A i \in DOMAIN net'[n] : \E j \in DOMAIN net[n] : net'[n][i] = net[n][j]
<1>. DEFINE s == net[n]  u == <<s[2], s[1]>>  v == SubSeq(s, 3, Len(s))
<1>1. s \in Seq(Copies) /\ Len(s) > 1 /\ net' = [net EXCEPT ![n] = u \o v] /\ Len(s) \in Nat
  BY DEF Shape, Overtake
<1>. HIDE DEF s
<1>2. u \in Seq(Copies) /\ Len(u) = 2 /\ u[1] = s[2] /\ u[2] = s[1]
  BY <1>1
<1>3. v \in Seq(Copies) /\ Len(v) = Len(s) - 2 /\ \A i \in 1 .. Len(s) - 2 : v[i] = s[i + 2]
  BY <1>1
<1>. HIDE DEF u, v
<1>4. /\ u \o v \in Seq(Copies) /\ Len(u \o v) = Len(s)
      /\ \A i \in 1 .. Len(s) : (u \o v)[i] = IF i <= 2 THEN u[i] ELSE v[i - 2]
  <2>1. /\ u \o v \in Seq(Copies) /\ Len(u \o v) = Len(u) + Len(v)
        /\ \A i \in 1 .. Len(u) + Len(v) : (u \o v)[i] = IF i <= Len(u) THEN u[i] ELSE v[i - Len(u)]
    <3>1. u \in Seq(Copies) /\ v \in Seq(Copies)
      BY <1>2, <1>3
    <3> QED BY <3>1, ConcatProperties
  <2>2. Len(u) = 2 /\ Len(u) + Len(v) = Len(s)
    BY <1>1, <1>2, <1>3
  <2> QED BY <2>1, <2>2
<1>5. ASSUME NEW i \in 1 .. Len(s)
      PROVE  \E j \in 1 .. Len(s) : (u \o v)[i] = s[j]
  <2>1. CASE i = 1
    BY <1>1, <1>2, <1>4, <2>1
  <2>2. CASE i = 2
    BY <1>1, <1>2, <1>4, <2>2
  <2>3. CASE i > 2
    <3>1. i - 2 \in 1 .. Len(s) - 2 /\ (i - 2) + 2 = i
      BY <1>1, <2>3
    <3>2. (u \o v)[i] = v[i - 2]
      BY <1>4, <2>3
    <3>3. v[i - 2] = s[(i - 2) + 2]
      BY <1>3, <3>1
    <3>4. (u \o v)[i] = s[i]
      BY <3>1, <3>2, <3>3
    <3> QED BY <3>4
  <2>4. i = 1 \/ i = 2 \/ i > 2
    BY <1>1
  <2> QED BY <2>1, <2>2, <2>3, <2>4
<1>6. /\ net' \in [Node -> Seq(Copies)] /\ net'[n] = u \o v
      /\ \A m \in Node \ {n} : net'[m] = net[m]
  <2>1. net \in [Node -> Seq(Copies)]
    BY DEF Shape
  <2>2. net' = [net EXCEPT ![n] = u \o v] /\ u \o v \in Seq(Copies)
    BY <1>1, <1>4
  <2>. HIDE DEF u, v
  <2> QED BY <2>1, <2>2
<1>7. DOMAIN net'[n] = 1 .. Len(s) /\ DOMAIN s = 1 .. Len(s) /\ s # <<>>
  BY <1>1, <1>4, <1>6
<1>8. Len(net'[n]) = Len(s)
  BY <1>4, <1>6
<1>9. \A i \in DOMAIN net'[n] : \E j \in DOMAIN s : net'[n][i] = s[j]
  <2>. HIDE DEF u, v
  <2> QED BY <1>5, <1>6, <1>7
<1> QED BY <1>6, <1>7, <1>8, <1>9 DEF s

\* Every step keeps the shape.
LEMMA ShapedStep ==
  ASSUME Shaped, [Next]_vars
  PROVE  Shaped'
<1>. USE DEF Shaped
<1>. USE DEF rows, memory, serving, nodes, counts, record, heard
<1>1. CASE UNCHANGED vars
  <2>1. Shape'
    BY <1>1 DEF Shape, vars
  <2> QED BY <1>1, <2>1, FullSame, WaitingSame, CallingSame, PlacedSame DEF vars
<1>2. CASE \E v \in Vpc : PostVpc(v) \/ DeleteVpc(v)
  <2>1. UNCHANGED <<portRows, nodeIps, eps, req, phase, at, call, orphan, net, daemon,
                    table, posts, calls, answered>>
    BY <1>2 DEF PostVpc, DeleteVpc, Change
  <2>2. Shape'
    BY <2>1 DEF Shape
  <2> QED BY <2>1, <2>2, FullSame, WaitingSame, CallingSame, PlacedSame
<1>3. ASSUME NEW n \in Node, LoadNode(n)
      PROVE  Shaped'
  <2>1. /\ UNCHANGED <<portRows, eps, req, phase, at, call, orphan, net, posts, calls>>
        /\ phase = "idle"
        /\ nodeIps' = IF Contains(nodeIps, n) THEN nodeIps ELSE Append(nodeIps, n)
    BY <1>3 DEF LoadNode, Change
  <2>2. nodeIps' \in Seq(Node) /\ IsInjective(nodeIps')
    <3>1. CASE Contains(nodeIps, n)
      BY <2>1, <3>1 DEF Shape
    <3>2. CASE ~ Contains(nodeIps, n)
      <4>1. nodeIps' = Append(nodeIps, n) /\ nodeIps \in Seq(Node)
        BY <2>1, <3>2 DEF Shape
      <4>2. \A i \in 1 .. Len(nodeIps) : nodeIps[i] # n
        BY <3>2 DEF Contains
      <4>3. \A i, j \in 1 .. Len(nodeIps) : nodeIps[i] = nodeIps[j] => i = j
        BY <4>1 DEF Shape, IsInjective
      <4>4. \A i, j \in DOMAIN nodeIps' : nodeIps'[i] = nodeIps'[j] => i = j
        BY <4>1, <4>2, <4>3
      <4> QED BY <4>1, <4>4 DEF IsInjective
    <3> QED BY <3>1, <3>2
  <2>3. CASE UNCHANGED <<daemon, table, answered>>
    <3>1. Shape'
      BY <2>1, <2>2, <2>3 DEF Shape
    <3> QED BY <2>1, <2>3, <3>1, FullSame, WaitingSame, CallingNone, PlacedIdle
  <2>4. CASE /\ daemon[n] = "bare"
             /\ daemon' = [daemon EXCEPT ![n] = "ready"]
             /\ table' = [table EXCEPT ![n] = None]
             /\ answered' = [answered EXCEPT ![n] = None]
    <3>1. None \in Table /\ None \in [Port -> 0 .. posts] /\ Nonzero(None) = {}
      BY BoundsAssumption DEF None, Table, Nonzero, Shape
    <3>2. Shape'
      BY <2>1, <2>2, <2>4, <3>1 DEF Shape
    <3>3. Full'
      <4>1. Cardinality(Nonzero(None)) <= Capacity
        BY <3>1, FS_EmptySet, BoundsAssumption
      <4>2. \A m \in Node : /\ daemon'[m] = "down" => daemon[m] = "down"
                            /\ table'[m] = table[m] \/ table'[m] = None
        BY <2>4 DEF Shape
      <4> QED BY <2>1, <4>1, <4>2 DEF Full
    <3> QED BY <2>1, <3>2, <3>3, WaitingSame, CallingNone, PlacedIdle
  <2> QED BY <1>3, <2>3, <2>4 DEF LoadNode
<1>4. ASSUME NEW n \in Node, UnloadNode(n)
      PROVE  Shaped'
  <2>1. /\ UNCHANGED <<portRows, eps, req, phase, at, call, orphan, net, daemon, table, posts,
                       calls, answered>>
        /\ phase = "idle"
        /\ \E i \in DOMAIN nodeIps : nodeIps' = RemoveAt(nodeIps, i)
    BY <1>4 DEF UnloadNode, Change
  <2>2. nodeIps' \in Seq(Node) /\ IsInjective(nodeIps')
    BY <2>1, RemovedIs DEF Shape
  <2>3. Shape'
    BY <2>1, <2>2 DEF Shape
  <2> QED BY <2>1, <2>3, FullSame, WaitingSame, CallingNone, PlacedIdle
<1>5. ASSUME NEW ps \in Requests, Post(ps)
      PROVE  Shaped'
  <2>1. /\ UNCHANGED <<portRows, nodeIps, call, orphan, net, daemon, table, calls, answered>>
        /\ phase = "idle" /\ posts < MaxPosts /\ posts' = posts + 1
    BY <1>5 DEF Post
  <2>2. ps \in Seq(Port)
    BY RequestsAssumption
  <2>3. PICK qs \in Seq(Port) : eps' = Collected(qs)
    <3>1. \A i \in DOMAIN ps : SubSeq(ps, 1, i - 1) \in Seq(Port)
      BY <2>2
    <3> QED BY <1>5, <2>2, <3>1 DEF Post
  <2>4. /\ phase' \in {"idle", "ports"} /\ req' \in Seq(Port)
        /\ at' \in (Nat \ {0}) \X (Nat \ {0})
        /\ phase' = "ports" => at' = <<1, 1>>
    <3>1. \/ phase' = "ports" /\ req' = ps /\ at' = <<1, 1>>
          \/ UNCHANGED <<phase, req, at>>
      BY <1>5 DEF Post
    <3> QED BY <2>1, <2>2, <3>1 DEF Shape
  <2>5. eps' \in Seq(Entry)
    BY <2>1, <2>3, CollectedIs
  <2>6. posts' \in 0 .. MaxPosts /\ answered' \in [Node -> [Port -> 0 .. posts']]
    BY <2>1, BoundsAssumption DEF Shape
  <2>7. Shape'
    BY <2>1, <2>4, <2>5, <2>6 DEF Shape
  <2>8. Waiting'
    <3>1. \A i, j \in DOMAIN eps' : i < j => eps'[i].post <= eps'[j].post
      BY <2>1, <2>3, CollectedIs
    <3>2. posts \in Nat /\ \A i \in DOMAIN eps : eps[i].post \in Nat
      <4>1. \A i \in DOMAIN eps : eps[i] \in Entry
        <5>1. eps \in Seq(Entry)
          BY DEF Shape
        <5> QED BY <5>1
      <4>2. \A e \in Entry : e.post \in Nat
        BY BoundsAssumption DEF Entry
      <4>3. posts \in Nat
        BY BoundsAssumption DEF Shape
      <4> QED BY <4>1, <4>2, <4>3
    <3>3. ASSUME NEW i \in DOMAIN eps'
          PROVE  eps'[i].post <= posts'
      <4>1. (i \in DOMAIN eps /\ eps'[i] = eps[i]) \/ eps'[i].post = posts + 1
        BY <2>1, <2>3, CollectedIs
      <4> QED BY <2>1, <3>2, <4>1 DEF Waiting
    <3> QED BY <3>1, <3>3 DEF Waiting
  <2>9. Placed'
    BY <2>4 DEF Placed
  <2> QED BY <2>1, <2>7, <2>8, <2>9, FullSame, CallingNone
<1>6. ASSUME NEW p \in Port, DeletePort(p)
      PROVE  Shaped'
  <2>1. /\ UNCHANGED <<nodeIps, eps, req, phase, at, call, orphan, net, daemon,
                       table, posts, calls, answered>>
        /\ portRows' \subseteq portRows
    BY <1>6 DEF DeletePort, Change
  <2>2. Shape'
    BY <2>1 DEF Shape
  <2> QED BY <2>1, <2>2, FullSame, WaitingSame, CallingSame, PlacedSame
<1>7. CASE CommitPorts \/ CommitEps
  <2>1. /\ UNCHANGED <<nodeIps, eps, at, call, orphan, net, daemon, table, posts, calls, answered>>
        /\ phase # "send"
        /\ portRows' = portRows \/ portRows' = portRows \cup ToSet(req)
        /\ phase' \in {"idle", "eps", "send"} /\ req' \in {req, <<>>}
    BY <1>7 DEF CommitPorts, CommitEps, Refuse, Answer, AfterRefusal
  <2>2. ToSet(req) \subseteq Port /\ <<>> \in Seq(Port)
    BY DEF ToSet, Shape
  <2>3. portRows' \subseteq Port /\ req' \in Seq(Port)
    BY <2>1, <2>2 DEF Shape
  <2>4. Shape'
    BY <2>1, <2>3 DEF Shape
  <2>5. Placed'
    <3>1. phase \in {"ports", "eps"}
      BY <1>7 DEF CommitPorts, CommitEps
    <3>2. nodeIps # <<>> => 1 \in DOMAIN nodeIps
      BY DEF Shape
    <3> QED BY <2>1, <3>1, <3>2 DEF Placed
  <2> QED BY <2>1, <2>4, <2>5, FullSame, WaitingSame, CallingNone
<1>8. CASE Call
  <2>1. /\ UNCHANGED <<portRows, nodeIps, eps, req, phase, at, orphan, net, daemon, table, posts,
                       answered>>
        /\ phase = "send" /\ ~ AllSent /\ calls' = calls + 1
        /\ call' = [node |-> nodeIps[at[2]], chunk |-> Chunk(at[1]), xid |-> calls + 1,
                    sends |-> 0, reply |-> "none"]
    BY <1>8 DEF Call
  <2>2. at[1] \in Nat \ {0} /\ at[1] <= Chunks /\ at[2] \in DOMAIN nodeIps
    <3>1. at[1] \in Nat \ {0} /\ Chunks \in Nat
      BY Ceiling, BatchAssumption DEF Shape, Chunks
    <3> QED BY <2>1, <3>1 DEF AllSent, Placed
  <2>3. call' \in CallSet
    <3>1. Chunk(at[1]) \in Seq(Entry)
      BY <2>2, ChunkIs DEF Shape
    <3>2. nodeIps[at[2]] \in Node
      BY <2>2 DEF Shape
    <3> QED BY <2>1, <3>1, <3>2 DEF CallSet, Shape
  <2>4. Shape'
    BY <2>1, <2>3 DEF Shape
  <2>5. Calling'
    BY <2>1, <2>2, SameChunks DEF Calling
  <2> QED BY <2>1, <2>4, <2>5, FullSame, WaitingSame, PlacedSame
<1>9. CASE Finish
  <2>1. /\ UNCHANGED <<portRows, nodeIps, call, orphan, net, daemon, table, posts, calls, answered>>
        /\ call = NoCall
        /\ eps' = <<>> /\ phase' = "idle" /\ req' = <<>> /\ at' = <<1, 1>>
    BY <1>9 DEF Finish
  <2>2. Shape'
    BY <2>1 DEF Shape
  <2>3. Waiting'
    BY <2>1 DEF Waiting
  <2> QED BY <2>1, <2>2, <2>3, FullSame, CallingNone, PlacedIdle
<1>10. CASE Transmit
  <2>1. /\ UNCHANGED <<portRows, nodeIps, eps, req, phase, at, orphan, daemon, table, posts,
                       calls, answered>>
        /\ call # NoCall /\ call' = [call EXCEPT !.sends = @ + 1] /\ Copy(call)
    BY <1>10 DEF Transmit
  <2>2. call \in CallSet /\ call' \in CallSet
    BY <2>1, SendsMore DEF Shape
  <2>3. Shape' /\ Full'
    BY <2>1, <2>2, CopyShape DEF Shape, Full
  <2>4. call'.node = call.node /\ call'.chunk = call.chunk /\ call'.xid = call.xid
    BY <2>1, <2>2, SendsMore
  <2>5. Calling'
    BY <2>1, <2>4, SameChunks DEF Calling
  <2> QED BY <2>1, <2>3, <2>5, WaitingSame, PlacedSame
<1>11. CASE Ends
  <2>1. /\ UNCHANGED <<portRows, nodeIps, eps, req, phase, orphan, net, daemon, table, posts, calls>>
        /\ call # NoCall /\ call' = NoCall
        /\ at' = IF at[2] < Len(nodeIps) THEN <<at[1], at[2] + 1>> ELSE <<at[1] + 1, 1>>
        /\ \/ UNCHANGED answered
           \/ answered' = [answered EXCEPT ![call.node] = Said(call.chunk, @)]
    BY <1>11 DEF Ends, Conclude
  <2>2. /\ call \in CallSet /\ phase = "send" /\ at[2] \in DOMAIN nodeIps
        /\ at[1] \in Nat \ {0} /\ at[2] \in Nat \ {0} /\ at[1] <= Chunks
        /\ call.chunk = Chunk(at[1]) /\ nodeIps \in Seq(Node) /\ eps \in Seq(Entry)
    BY <2>1 DEF Shape, Calling
  <2>3. at' \in (Nat \ {0}) \X (Nat \ {0}) /\ at'[2] \in DOMAIN nodeIps
    BY <2>1, <2>2
  <2>4. answered' \in [Node -> [Port -> 0 .. posts]]
    <3>1. call.node \in Node /\ call.chunk \in Seq(Entry)
      BY <2>2 DEF CallSet
    <3>2. \A i \in DOMAIN call.chunk : call.chunk[i].post <= posts
      BY <2>2, ChunkIs DEF Waiting
    <3>3. answered[call.node] \in [Port -> 0 .. posts] /\ posts \in Nat
      BY <3>1 DEF Shape
    <3>4. Said(call.chunk, answered[call.node]) \in [Port -> 0 .. posts]
      BY <3>1, <3>2, <3>3, SaidType
    <3> QED BY <2>1, <3>1, <3>4 DEF Shape
  <2>5. Shape'
    BY <2>1, <2>3, <2>4 DEF Shape
  <2>6. Placed'
    BY <2>1, <2>2, <2>3 DEF Placed
  <2> QED BY <2>1, <2>5, <2>6, FullSame, WaitingSame, CallingNone
<1>12. CASE Crash
  <2>1. /\ UNCHANGED <<portRows, net, daemon, table, posts, calls, answered>>
        /\ nodeIps' = <<>> /\ eps' = <<>> /\ req' = <<>> /\ phase' = "idle" /\ at' = <<1, 1>>
        /\ call' = NoCall /\ orphan' = call
    BY <1>12 DEF Crash
  <2>2. Shape'
    BY <2>1 DEF Shape, IsInjective
  <2>3. Waiting'
    BY <2>1 DEF Waiting
  <2> QED BY <2>1, <2>2, <2>3, FullSame, CallingNone, PlacedIdle
<1>13. CASE OrphanTransmit
  <2>1. /\ UNCHANGED <<portRows, nodeIps, eps, req, phase, at, call, daemon, table, posts,
                       calls, answered>>
        /\ orphan # NoCall /\ orphan' = [orphan EXCEPT !.sends = @ + 1] /\ Copy(orphan)
    BY <1>13 DEF OrphanTransmit
  <2>2. orphan \in CallSet /\ orphan' \in CallSet
    BY <2>1, SendsMore DEF Shape
  <2>3. Shape' /\ Full'
    BY <2>1, <2>2, CopyShape DEF Shape, Full
  <2> QED BY <2>1, <2>3, WaitingSame, CallingSame, PlacedSame
<1>14. CASE OrphanEnds
  <2>1. /\ UNCHANGED <<portRows, nodeIps, eps, req, phase, at, call, net, daemon, table, posts,
                       calls, answered>>
        /\ orphan' = NoCall
    BY <1>14 DEF OrphanEnds
  <2>2. Shape'
    BY <2>1 DEF Shape
  <2> QED BY <2>1, <2>2, FullSame, WaitingSame, CallingSame, PlacedSame
<1>15. ASSUME NEW n \in Node, Serve(n)
       PROVE  Shaped'
  <2>1. UNCHANGED <<portRows, nodeIps, eps, req, phase, at, orphan, daemon, posts, calls, answered>>
    BY <1>15 DEF Serve
  <2>2. net' = [net EXCEPT ![n] = Tail(@)] /\ \E k, chunk : Takes(n, k, chunk)
    BY <1>15, ServeTakes
  <2>3. /\ table' \in [Node -> Table]
        /\ \A m \in Node : Cardinality(Nonzero(table'[m])) <= Capacity
        /\ net[n] \in Seq(Copies) /\ net[n] # <<>>
    BY <2>2, TakesTable DEF Takes
  <2>4. Tail(net[n]) \in Seq(Copies) /\ Len(Tail(net[n])) <= Len(net[n])
    BY <2>3
  <2>5. net' \in [Node -> Seq(Copies)] /\ Full'
    <3>1. Socket \in Nat /\ Len(net[n]) \in Nat /\ Len(Tail(net[n])) \in Nat
      BY <2>3, <2>4, BoundsAssumption
    <3> QED BY <2>1, <2>2, <2>3, <2>4, <3>1 DEF Shape, Full
  <2>6. /\ call' # NoCall => call # NoCall /\ call' \in CallSet
        /\ call' # NoCall => call'.node = call.node /\ call'.chunk = call.chunk /\ call'.xid = call.xid
    <3>1. \/ UNCHANGED call
          \/ call # NoCall /\ \E rc \in {"ok", "error"} : call' = [call EXCEPT !.reply = rc]
      BY <1>15, ServeTakes
    <3>2. call # NoCall => call \in CallSet
      BY DEF Shape
    <3> QED BY <3>1, <3>2 DEF CallSet
  <2>7. Shape'
    BY <2>1, <2>3, <2>5, <2>6 DEF Shape
  <2>8. Calling'
    BY <2>1, <2>6, SameChunks DEF Calling
  <2> QED BY <2>1, <2>5, <2>7, <2>8, WaitingSame, PlacedSame
<1>16. ASSUME NEW n \in Node, Die(n)
       PROVE  Shaped'
  <2>1. /\ UNCHANGED <<portRows, nodeIps, eps, req, phase, at, call, orphan, posts, calls, answered>>
        /\ daemon' = [daemon EXCEPT ![n] = "down"]
    BY <1>16 DEF Die
  <2>2. /\ net' = [net EXCEPT ![n] = <<>>]
        /\ UNCHANGED table \/ \E k, chunk : Takes(n, k, chunk)
    BY <1>16, DieTakes
  <2>3. /\ table' \in [Node -> Table]
        /\ \A m \in Node : Cardinality(Nonzero(table'[m])) <= Capacity
    <3>1. CASE UNCHANGED table
      BY <3>1 DEF Shape, Full, Nonzero
    <3>2. CASE \E k, chunk : Takes(n, k, chunk)
      BY <3>2, TakesTable
    <3> QED BY <2>2, <3>1, <3>2
  <2>4. Shape'
    <3>1. net' \in [Node -> Seq(Copies)] /\ daemon' \in [Node -> {"down", "bare", "ready"}]
      <4>1. <<>> \in Seq(Copies)
        OBVIOUS
      <4> QED BY <2>1, <2>2, <4>1 DEF Shape
    <3> QED BY <2>1, <2>3, <3>1 DEF Shape
  <2>5. Full'
    BY <2>1, <2>2, <2>3, BoundsAssumption DEF Shape, Full
  <2> QED BY <2>1, <2>4, <2>5, WaitingSame, CallingSame, PlacedSame
<1>17. ASSUME NEW n \in Node, Restart(n)
       PROVE  Shaped'
  <2>1. /\ UNCHANGED <<portRows, nodeIps, eps, req, phase, at, call, orphan, net, table, posts,
                       calls, answered>>
        /\ daemon' = [daemon EXCEPT ![n] = "bare"]
    BY <1>17 DEF Restart
  <2>2. Shape'
    BY <2>1 DEF Shape
  <2>3. Full'
    BY <2>1 DEF Full, Shape
  <2> QED BY <2>1, <2>2, <2>3, WaitingSame, CallingSame, PlacedSame
<1>18. ASSUME NEW n \in Node, Overtake(n)
       PROVE  Shaped'
  <2>1. UNCHANGED <<portRows, nodeIps, eps, req, phase, at, call, orphan, daemon, table, posts,
                    calls, answered>>
    BY <1>18 DEF Overtake
  <2>2. /\ net' \in [Node -> Seq(Copies)]
        /\ \A m \in Node \ {n} : net'[m] = net[m]
        /\ Len(net'[n]) = Len(net[n]) /\ net[n] # <<>>
    BY <1>18, OvertakeSwaps
  <2>3. Shape'
    BY <2>1, <2>2 DEF Shape
  <2>4. Full'
    BY <2>1, <2>2 DEF Full, Nonzero
  <2> QED BY <2>1, <2>3, <2>4, WaitingSame, CallingSame, PlacedSame
<1> QED
  BY <1>1, <1>2, <1>3, <1>4, <1>5, <1>6, <1>7, <1>8, <1>9, <1>10, <1>11, <1>12, <1>13, <1>14,
     <1>15, <1>16, <1>17, <1>18, CallEnds DEF Next, Manager, Cli

\* The shape holds at the beginning.
LEMMA InitShaped ==
  ASSUME Init
  PROVE  Shaped
<1>. USE DEF Init
<1>1. None \in Table /\ None \in [Port -> 0 .. 0] /\ Nonzero(None) = {}
  BY BoundsAssumption DEF None, Table, Nonzero
<1>2. Shape
  <2>1. net \in [Node -> Seq(Copies)] /\ eps \in Seq(Entry) /\ req \in Seq(Port)
    OBVIOUS
  <2>2. table \in [Node -> Table] /\ answered \in [Node -> [Port -> 0 .. posts]]
    BY <1>1
  <2>3. posts \in 0 .. MaxPosts
    BY BoundsAssumption
  <2> QED BY <2>1, <2>2, <2>3, KnownAssumption DEF Shape
<1>3. Full
  <2>1. \A n \in Node : table[n] = None /\ net[n] = <<>>
    OBVIOUS
  <2>2. Cardinality(Nonzero(None)) <= Capacity /\ Len(<<>>) <= Socket
    BY <1>1, BoundsAssumption, FS_EmptySet
  <2> QED BY <2>1, <2>2 DEF Full
<1>4. Waiting /\ Calling /\ Placed
  BY DEF Waiting, Calling, Placed
<1> QED BY <1>2, <1>3, <1>4 DEF Shaped

\* And it gives the types.
LEMMA ShapedType ==
  ASSUME Shaped
  PROVE  TypeOK
<1>. USE DEF Shaped
<1>1. call # NoCall => eps # <<>>
  BY ChunksCover DEF Calling, Shape
<1>2. ASSUME NEW n \in Node
      PROVE  /\ daemon[n] = "down" => net[n] = <<>>
             /\ Len(net[n]) <= Socket
             /\ table[n] \in [Port -> 0 .. MaxPosts]
             /\ Cardinality({p \in Port : table[n][p] # 0}) <= Capacity
  BY DEF Full, Shape, Nonzero, Table
<1> QED BY <1>1, <1>2 DEF TypeOK, Shape, Waiting, Calling

\* TypeOK: the sockets and maps of the nodes stay within their sizes, whatever is sent,
\* lost, repeated or cut short; what waits is in the order of the requests, and a CLI runs only
\* in the loop over batches and nodes.
THEOREM TypeCorrect == Spec => []TypeOK
<1>1. Init => Shaped
  BY InitShaped
<1>2. Shaped /\ [Next]_vars => Shaped'
  BY ShapedStep
<1>3. Shaped => TypeOK
  BY ShapedType
<1> QED BY <1>1, <1>2, <1>3, PTL DEF Spec

(***************************************************************************)
(* RowsFirst.                                                              *)
(***************************************************************************)
\* Requests that nodes may be told of.
Tellable == entered \cup {r \in refused : \E later \in entered : later > r}

\* The requests that a batch says something of.
PostsOf(s) == {s[i].post : i \in DOMAIN s}

\* What waits in eps: of refused requests between requests, and of this one.
Asked ==
  /\ entered \cup refused \subseteq 1 .. posts
  /\ phase # "idle" => posts > 0
  /\ \A i \in DOMAIN eps :
       /\ phase = "idle" => eps[i].post \in refused
       /\ phase \in {"ports", "eps"} =>
            eps[i].post = posts \/ (eps[i].post \in refused /\ eps[i].post < posts)
       /\ phase = "send" => eps[i].post \in Tellable

\* What has gone out.
Out ==
  /\ orphan # NoCall => PostsOf(orphan.chunk) \subseteq Tellable
  /\ \A n \in Node : \A i \in DOMAIN net[n] : PostsOf(net[n][i].chunk) \subseteq Tellable
  /\ \A n \in Node, p \in Port : table[n][p] # 0 => table[n][p] \in Tellable

\* A request whose rows are committed stays so.
LEMMA TellableGrows ==
  ASSUME entered \subseteq entered', refused \subseteq refused'
  PROVE  Tellable \subseteq Tellable'
BY DEF Tellable

\* No step forgets how a request ended.
LEMMA RecordGrows ==
  ASSUME [Next]_vars
  PROVE  entered \subseteq entered' /\ refused \subseteq refused'
<1>. USE DEF record
<1>1. CASE UNCHANGED vars
  BY <1>1 DEF vars
<1>2. CASE \E v \in Vpc : PostVpc(v) \/ DeleteVpc(v)
  BY <1>2 DEF PostVpc, DeleteVpc
<1>3. CASE \E n \in Node : LoadNode(n) \/ UnloadNode(n)
  BY <1>3 DEF LoadNode, UnloadNode
<1>4. CASE \E ps \in Requests : Post(ps)
  BY <1>4 DEF Post
<1>5. CASE \E p \in Port : DeletePort(p)
  BY <1>5 DEF DeletePort
<1>6. CASE Manager \/ Crash
  BY <1>6 DEF Manager, CommitPorts, CommitEps, Refuse, Call, Finish, Crash
<1>7. CASE Cli
  BY <1>7 DEF Cli, Transmit, Unreached, Replied, Expire, Conclude
<1>8. CASE OrphanTransmit \/ OrphanEnds
  BY <1>8 DEF OrphanTransmit, OrphanEnds
<1>9. CASE \E n \in Node : Serve(n) \/ Die(n) \/ Restart(n) \/ Overtake(n)
  BY <1>9 DEF Serve, Die, Restart, Overtake
<1> QED BY <1>1, <1>2, <1>3, <1>4, <1>5, <1>6, <1>7, <1>8, <1>9 DEF Next

\* What waits in eps may go out when the loop over the nodes begins, in every step.
LEMMA AskedStep ==
  ASSUME Shaped, Asked, [Next]_vars
  PROVE  Asked'
<1>. USE DEF rows, memory, serving, nodes, counts, record, heard
<1>. posts \in Nat
  BY BoundsAssumption DEF Shaped, Shape
<1>1. CASE UNCHANGED <<eps, phase, posts, entered, refused>>
  <2>1. Tellable' = Tellable
    BY <1>1 DEF Tellable
  <2> QED BY <1>1, <2>1 DEF Asked
<1>2. ASSUME NEW ps \in Requests, Post(ps)
      PROVE  Asked'
  <2>1. /\ phase = "idle" /\ posts < MaxPosts /\ posts' = posts + 1 /\ entered' = entered
        /\ \/ phase' = "ports" /\ refused' = refused
           \/ phase' = "idle" /\ refused' = refused \cup {posts + 1}
    BY <1>2 DEF Post
  <2>2. PICK qs \in Seq(Port) : eps' = Collected(qs)
    <3>1. \A i \in DOMAIN ps : SubSeq(ps, 1, i - 1) \in Seq(Port) /\ ps \in Seq(Port)
      BY RequestsAssumption
    <3>2. ps \in Seq(Port)
      BY RequestsAssumption
    <3> QED BY <1>2, <3>1, <3>2 DEF Post
  <2>3. \A i \in DOMAIN eps' : (i \in DOMAIN eps /\ eps'[i] = eps[i]) \/ eps'[i].post = posts + 1
    BY <2>1, <2>2, CollectedIs DEF Shaped
  <2>4. \A i \in DOMAIN eps : eps[i].post \in refused /\ eps[i].post \in 1 .. posts
    BY <2>1 DEF Asked
  <2>5. entered' \cup refused' \subseteq 1 .. posts'
    BY <2>1 DEF Asked
  <2>6. ASSUME NEW i \in DOMAIN eps'
        PROVE  /\ phase' = "idle" => eps'[i].post \in refused'
               /\ phase' \in {"ports", "eps"} =>
                    eps'[i].post = posts' \/ (eps'[i].post \in refused' /\ eps'[i].post < posts')
    BY <2>1, <2>3, <2>4
  <2> QED BY <2>1, <2>5, <2>6 DEF Asked
<1>3. CASE CommitPorts \/ CommitEps
  <2>1. UNCHANGED <<eps, posts>> /\ phase \in {"ports", "eps"}
    BY <1>3 DEF CommitPorts, CommitEps
  <2>2. posts \in 1 .. posts
    BY <2>1 DEF Asked
  <2>3. CASE Refuse
    <3>1. phase' = "idle" /\ refused' = refused \cup {posts} /\ entered' = entered
      BY <2>3 DEF Refuse, Answer, AfterRefusal
    <3> QED BY <2>1, <2>2, <3>1 DEF Asked
  <2>4. CASE phase' = "eps" /\ UNCHANGED <<entered, refused>>
    BY <2>1, <2>4 DEF Asked
  <2>5. CASE phase' = "send" /\ refused' = refused /\ entered' = entered \cup {posts}
    <3>1. \A r : r = posts \/ (r \in refused /\ r < posts) => r \in Tellable'
      BY <2>2, <2>5 DEF Tellable
    <3> QED BY <2>1, <2>2, <2>5, <3>1 DEF Asked
  <2>6. CASE CommitPorts
    <3>1. Refuse \/ (phase' = "eps" /\ UNCHANGED <<entered, refused>>)
      BY <2>6 DEF CommitPorts, Answer
    <3> QED BY <2>3, <2>4, <3>1
  <2>7. CASE CommitEps
    <3>1. Refuse \/ (phase' = "send" /\ refused' = refused /\ entered' = entered \cup {posts})
      BY <2>7 DEF CommitEps, Answer
    <3> QED BY <2>3, <2>5, <3>1
  <2> QED BY <1>3, <2>6, <2>7
<1>4. CASE Finish \/ Crash
  <2>1. UNCHANGED <<posts, entered, refused>> /\ eps' = <<>> /\ phase' = "idle"
    BY <1>4 DEF Finish, Crash
  <2> QED BY <2>1 DEF Asked
<1>5. CASE UNCHANGED vars
  BY <1>1, <1>5 DEF vars
<1>6. CASE \E v \in Vpc : PostVpc(v) \/ DeleteVpc(v)
  BY <1>1, <1>6 DEF PostVpc, DeleteVpc, Change
<1>7. CASE \E n \in Node : LoadNode(n) \/ UnloadNode(n)
  BY <1>1, <1>7 DEF LoadNode, UnloadNode, Change
<1>8. CASE (\E p \in Port : DeletePort(p)) \/ Call
  BY <1>1, <1>8 DEF DeletePort, Change, Call
<1>9. CASE Cli
  BY <1>1, <1>9 DEF Cli, Transmit, Unreached, Replied, Expire, Conclude
<1>10. CASE OrphanTransmit \/ OrphanEnds
  BY <1>1, <1>10 DEF OrphanTransmit, OrphanEnds
<1>11. CASE \E n \in Node : Serve(n) \/ Die(n) \/ Restart(n) \/ Overtake(n)
  BY <1>1, <1>11 DEF Serve, Die, Restart, Overtake
<1> QED
  BY <1>2, <1>3, <1>4, <1>5, <1>6, <1>7, <1>8, <1>9, <1>10, <1>11 DEF Next, Manager

\* A copy goes to the end of one socket.
LEMMA CopyAdds ==
  ASSUME Shape, NEW c \in CallSet, Copy(c)
  PROVE  \A n \in Node :
           \/ net'[n] = net[n]
           \/ /\ n = c.node /\ Len(net'[n]) = Len(net[n]) + 1
              /\ \A i \in DOMAIN net'[n] :
                   \/ i \in DOMAIN net[n] /\ net'[n][i] = net[n][i]
                   \/ i = Len(net[n]) + 1 /\ net'[n][i] = [xid |-> c.xid, chunk |-> c.chunk]
<1>1. CASE UNCHANGED net
  BY <1>1
<1>2. CASE net' # net
  <2>. DEFINE x == [xid |-> c.xid, chunk |-> c.chunk]
  <2>1. /\ c.node \in Node
        /\ net' = [net EXCEPT ![c.node] = Append(@, x)]
    BY <1>2 DEF Copy, CallSet
  <2>2. x \in Copies /\ net[c.node] \in Seq(Copies)
    BY <2>1 DEF Copies, CallSet, Shape
  <2>. HIDE DEF x
  <2>3. /\ Append(net[c.node], x) \in Seq(Copies)
        /\ Len(Append(net[c.node], x)) = Len(net[c.node]) + 1
        /\ Append(net[c.node], x)[Len(net[c.node]) + 1] = x
        /\ \A i \in 1 .. Len(net[c.node]) : Append(net[c.node], x)[i] = net[c.node][i]
        /\ Len(net[c.node]) \in Nat /\ DOMAIN net[c.node] = 1 .. Len(net[c.node])
    BY <2>2
  <2>4. /\ net'[c.node] = Append(net[c.node], x)
        /\ \A n \in Node \ {c.node} : net'[n] = net[n]
    BY <2>1 DEF Shape
  <2>5. DOMAIN net'[c.node] = 1 .. Len(net[c.node]) + 1
    BY <2>3, <2>4
  <2>6. \A i \in DOMAIN net'[c.node] :
          \/ i \in DOMAIN net[c.node] /\ net'[c.node][i] = net[c.node][i]
          \/ i = Len(net[c.node]) + 1 /\ net'[c.node][i] = x
    BY <2>3, <2>4, <2>5
  <2> QED BY <2>3, <2>4, <2>6 DEF x
<1> QED BY <1>1, <1>2

\* What is left of a socket when its first copy is taken.
LEMMA TailDrops ==
  ASSUME NEW s \in Seq(Copies), s # <<>>
  PROVE  /\ \A i \in DOMAIN Tail(s) : i + 1 \in DOMAIN s /\ Tail(s)[i] = s[i + 1]
         /\ 1 \in DOMAIN s /\ Head(s) = s[1]
OBVIOUS

\* What a table says was there or comes from the batch.
LEMMA TakesFrom ==
  ASSUME Shape, Full, NEW n \in Node, NEW k, NEW chunk, Takes(n, k, chunk), NEW p \in Port
  PROVE  \/ table'[n][p] = table[n][p]
         \/ \E i \in DOMAIN chunk : chunk[i] = [port |-> p, post |-> table'[n][p]]
<1>1. chunk \in Seq(Entry) /\ k \in 0 .. Len(chunk) /\ table'[n] = Steps(table[n], chunk)[k].table
  BY TakesTable DEF Takes
<1>2. table[n] \in Table /\ Cardinality(Nonzero(table[n])) <= Capacity
  BY DEF Shape, Full
<1>3. \/ table'[n][p] = table[n][p]
      \/ \E i \in 1 .. k : chunk[i] = [port |-> p, post |-> table'[n][p]]
  BY <1>1, <1>2, StepsTrack
<1> QED BY <1>1, <1>3

\* Whatever is out, in calls, copies and tables, may be out.
LEMMA OutStep ==
  ASSUME Shaped, Asked, Out, [Next]_vars
  PROVE  Out'
<1>. USE DEF rows, memory, serving, nodes, counts, record, heard
<1>. Shape /\ Full /\ Calling
  BY DEF Shaped
<1>1. Tellable \subseteq Tellable'
  BY RecordGrows, TellableGrows
<1>2. ASSUME UNCHANGED <<orphan, net, table>>
      PROVE  Out'
  BY <1>1, <1>2 DEF Out
<1>3. call # NoCall => call \in CallSet /\ PostsOf(call.chunk) \subseteq Tellable
  <2>. SUFFICES ASSUME call # NoCall PROVE call \in CallSet /\ PostsOf(call.chunk) \subseteq Tellable
    OBVIOUS
  <2>1. /\ call \in CallSet /\ call.chunk = Chunk(at[1]) /\ at[1] \in Nat \ {0} /\ at[1] <= Chunks
        /\ phase = "send" /\ eps \in Seq(Entry)
    BY DEF Calling, Shape
  <2>2. ASSUME NEW i \in DOMAIN call.chunk
        PROVE  call.chunk[i].post \in Tellable
    <3>1. PICK j \in DOMAIN eps : call.chunk[i] = eps[j]
      BY <2>1, ChunkIs
    <3> QED BY <2>1, <3>1 DEF Asked
  <2> QED BY <2>1, <2>2 DEF PostsOf
<1>4. ASSUME NEW c \in CallSet, PostsOf(c.chunk) \subseteq Tellable, Copy(c), UNCHANGED table,
             orphan' # NoCall => orphan # NoCall /\ orphan'.chunk = orphan.chunk
      PROVE  Out'
  <2>1. ASSUME NEW n \in Node, NEW i \in DOMAIN net'[n]
        PROVE  PostsOf(net'[n][i].chunk) \subseteq Tellable'
    <3>1. \/ i \in DOMAIN net[n] /\ net'[n][i] = net[n][i]
          \/ net'[n][i] = [xid |-> c.xid, chunk |-> c.chunk]
      BY <1>4, CopyAdds
    <3>2. PostsOf(net'[n][i].chunk) \subseteq Tellable
      BY <1>4, <3>1 DEF Out
    <3> QED BY <1>1, <3>2
  <2> QED BY <1>1, <1>4, <2>1 DEF Out
<1>5. ASSUME NEW n \in Node, LoadNode(n)
      PROVE  Out'
  <2>1. UNCHANGED <<orphan, net>>
    BY <1>5 DEF LoadNode, Change
  <2>2. UNCHANGED table \/ table' = [table EXCEPT ![n] = None]
    BY <1>5 DEF LoadNode
  <2>3. \A m \in Node, p \in Port : table'[m][p] = table[m][p] \/ table'[m][p] = 0
    <3>1. \A m \in Node : table'[m] = table[m] \/ table'[m] = None
      BY <2>2 DEF Shape
    <3>2. \A p \in Port : None[p] = 0
      BY DEF None
    <3> QED BY <3>1, <3>2
  <2> QED BY <1>1, <2>1, <2>3 DEF Out
<1>6. CASE Transmit
  <2>1. call # NoCall /\ Copy(call) /\ UNCHANGED <<table, orphan>>
    BY <1>6 DEF Transmit
  <2> QED BY <1>3, <1>4, <2>1
<1>7. CASE OrphanTransmit
  <2>1. /\ orphan # NoCall /\ Copy(orphan) /\ UNCHANGED table
        /\ orphan' = [orphan EXCEPT !.sends = @ + 1]
    BY <1>7 DEF OrphanTransmit
  <2>2. orphan \in CallSet /\ PostsOf(orphan.chunk) \subseteq Tellable
    BY <2>1 DEF Shape, Out
  <2>3. orphan'.chunk = orphan.chunk
    BY <2>1, <2>2, SendsMore
  <2> QED BY <1>4, <2>1, <2>2, <2>3
<1>8. CASE OrphanEnds
  <2>1. orphan' = NoCall /\ UNCHANGED <<net, table>>
    BY <1>8 DEF OrphanEnds
  <2> QED BY <1>1, <2>1 DEF Out
<1>9. CASE Crash
  <2>1. orphan' = call /\ UNCHANGED <<net, table>>
    BY <1>9 DEF Crash
  <2> QED BY <1>1, <1>3, <2>1 DEF Out
<1>10. ASSUME NEW n \in Node, NEW k, NEW chunk, Takes(n, k, chunk), UNCHANGED orphan,
              net' = [net EXCEPT ![n] = Tail(@)] \/ net' = [net EXCEPT ![n] = <<>>]
       PROVE  Out'
  <2>1. /\ net[n] \in Seq(Copies) /\ net[n] # <<>> /\ chunk = Head(net[n]).chunk
        /\ \A m \in Node \ {n} : table'[m] = table[m]
    BY <1>10, TakesTable DEF Takes
  <2>2. PostsOf(chunk) \subseteq Tellable
    BY <2>1, TailDrops DEF Out
  <2>3. ASSUME NEW m \in Node, NEW i \in DOMAIN net'[m]
        PROVE  PostsOf(net'[m][i].chunk) \subseteq Tellable'
    <3>1. \E j \in DOMAIN net[m] : net'[m][i] = net[m][j]
      <4>1. net'[m] = net[m] \/ (m = n /\ net'[m] = Tail(net[m])) \/ net'[m] = <<>>
        BY <1>10 DEF Shape
      <4>2. CASE m = n /\ net'[m] = Tail(net[m])
        <5>1. i + 1 \in DOMAIN net[m] /\ net'[m][i] = net[m][i + 1]
          BY <2>1, <2>3, <4>2, TailDrops
        <5> QED BY <5>1
      <4>3. net'[m] # <<>>
        BY <2>3
      <4> QED BY <4>1, <4>2, <4>3, <2>3
    <3> QED BY <1>1, <3>1 DEF Out
  <2>4. ASSUME NEW m \in Node, NEW p \in Port, table'[m][p] # 0
        PROVE  table'[m][p] \in Tellable'
    <3>1. CASE table'[m][p] = table[m][p]
      BY <1>1, <2>4, <3>1 DEF Out
    <3>2. CASE table'[m][p] # table[m][p]
      <4>1. m = n
        BY <2>1, <3>2
      <4>2. PICK i \in DOMAIN chunk : chunk[i] = [port |-> p, post |-> table'[m][p]]
        BY <1>10, <3>2, <4>1, TakesFrom
      <4>3. chunk[i].post = table'[m][p]
        BY <4>2
      <4>4. table'[m][p] \in Tellable
        BY <2>2, <4>3 DEF PostsOf
      <4> QED BY <1>1, <4>4
    <3> QED BY <3>1, <3>2
  <2> QED BY <1>1, <1>10, <2>3, <2>4 DEF Out
<1>11. ASSUME NEW n \in Node, Serve(n)
       PROVE  Out'
  <2>1. UNCHANGED orphan
    BY <1>11 DEF Serve
  <2> QED BY <1>10, <1>11, <2>1, ServeTakes
<1>12. ASSUME NEW n \in Node, Die(n)
       PROVE  Out'
  <2>1. UNCHANGED orphan /\ net' = [net EXCEPT ![n] = <<>>]
    BY <1>12 DEF Die
  <2>2. CASE UNCHANGED table
    BY <1>1, <2>1, <2>2 DEF Out, Shape
  <2>3. CASE \E k, chunk : Takes(n, k, chunk)
    BY <1>10, <2>1, <2>3
  <2> QED BY <1>12, <2>2, <2>3, DieTakes
<1>13. ASSUME NEW n \in Node, Overtake(n)
       PROVE  Out'
  <2>1. UNCHANGED <<orphan, table>>
    BY <1>13 DEF Overtake
  <2>2. \A m \in Node : \A i \in DOMAIN net'[m] : \E j \in DOMAIN net[m] : net'[m][i] = net[m][j]
    BY <1>13, OvertakeSwaps
  <2>3. \A m \in Node : \A i \in DOMAIN net'[m] : PostsOf(net'[m][i].chunk) \subseteq Tellable
    BY <2>2 DEF Out
  <2> QED BY <1>1, <2>1, <2>3 DEF Out
<1>14. CASE UNCHANGED vars
  BY <1>2, <1>14 DEF vars
<1>15. CASE \E v \in Vpc : PostVpc(v) \/ DeleteVpc(v)
  BY <1>2, <1>15 DEF PostVpc, DeleteVpc
<1>16. CASE \E n \in Node : UnloadNode(n) \/ Restart(n)
  BY <1>2, <1>16 DEF UnloadNode, Restart
<1>17. CASE (\E ps \in Requests : Post(ps)) \/ \E p \in Port : DeletePort(p)
  BY <1>2, <1>17 DEF Post, DeletePort
<1>18. CASE Manager
  BY <1>2, <1>18 DEF Manager, CommitPorts, CommitEps, Call, Finish
<1>19. CASE Unreached \/ Replied \/ Expire
  BY <1>2, <1>19 DEF Unreached, Replied, Expire, Conclude
<1> QED
  BY <1>5, <1>6, <1>7, <1>8, <1>9, <1>11, <1>12, <1>13, <1>14, <1>15, <1>16, <1>17, <1>18, <1>19
     DEF Next, Cli

\* RowsFirst: whatever update_endpoint has put in a map of a node was posted by a request
\* whose rows are committed, or left in eps by a refused one and sent by a later one.
THEOREM RowsComeFirst == Spec => []RowsFirst
<1>. DEFINE I == Shaped /\ Asked /\ Out
<1>1. Init => I
  <2>. SUFFICES ASSUME Init PROVE I
    OBVIOUS
  <2>1. Asked /\ Out
    BY DEF Init, Asked, Out, None
  <2> QED BY <2>1, InitShaped
<1>2. I /\ [Next]_vars => I'
  BY ShapedStep, AskedStep, OutStep
<1>3. I => RowsFirst
  BY DEF Out, Tellable, RowsFirst
<1> QED BY <1>1, <1>2, <1>3, PTL DEF Spec

(***************************************************************************)
(* EveryNodeTold.                                                          *)
(***************************************************************************)
\* The element i was sent to the node j in this loop.
Behind(i, j) == i <= (at[1] - 1) * Batch \/ (i <= at[1] * Batch /\ j < at[2])

\* The list holds the request, and what is behind is called.
Told ==
  /\ crashes \in Nat
  /\ phase # "idle" =>
       \A k \in DOMAIN req : \E i \in DOMAIN eps : eps[i] = [port |-> req[k], post |-> posts]
  /\ phase = "send" =>
       \A i \in DOMAIN eps, j \in DOMAIN nodeIps :
         eps[i].post = posts /\ Behind(i, j) => <<nodeIps[j], eps[i].port>> \in called

\* At the first batch and node nothing is behind.
LEMMA NothingBehind ==
  ASSUME at = <<1, 1>>, NEW i \in Nat \ {0}, NEW j \in Nat \ {0}
  PROVE  ~ Behind(i, j)
<1>1. (at[1] - 1) * Batch = 0 /\ at[2] = 1
  BY BatchAssumption
<1> QED BY <1>1 DEF Behind

\* A call that ends leaves behind its batch for its node, and no more.
LEMMA BehindMoves ==
  ASSUME Shaped, Ends, NEW i \in DOMAIN eps, NEW j \in DOMAIN nodeIps
  PROVE  Behind(i, j)' <=> \/ Behind(i, j)
                           \/ j = at[2] /\ (at[1] - 1) * Batch < i /\ i <= at[1] * Batch
<1>. DEFINE x == (at[1] - 1) * Batch  y == at[1] * Batch
<1>1. /\ at[1] \in Nat \ {0} /\ at[2] \in Nat \ {0} /\ at[2] <= Len(nodeIps)
      /\ i \in Nat \ {0} /\ j \in Nat \ {0} /\ j <= Len(nodeIps) /\ Len(nodeIps) \in Nat
      /\ at' = IF at[2] < Len(nodeIps) THEN <<at[1], at[2] + 1>> ELSE <<at[1] + 1, 1>>
  <2>1. call # NoCall
    BY DEF Ends
  <2>2. at[2] \in DOMAIN nodeIps
    BY <2>1 DEF Shaped, Calling
  <2>3. at \in (Nat \ {0}) \X (Nat \ {0}) /\ nodeIps \in Seq(Node) /\ eps \in Seq(Entry)
    BY DEF Shaped, Shape
  <2>4. /\ DOMAIN nodeIps = 1 .. Len(nodeIps) /\ Len(nodeIps) \in Nat
        /\ DOMAIN eps = 1 .. Len(eps) /\ Len(eps) \in Nat
    BY <2>3
  <2>5. at' = IF at[2] < Len(nodeIps) THEN <<at[1], at[2] + 1>> ELSE <<at[1] + 1, 1>>
    BY DEF Ends, Conclude
  <2> QED BY <2>2, <2>3, <2>4, <2>5
<1>2. x \in Nat /\ y = x + Batch /\ Batch \in Nat \ {0}
  BY <1>1, ChunksCover DEF Shaped, Shape
<1>3. CASE at[2] < Len(nodeIps)
  <2>1. at'[1] = at[1] /\ at'[2] = at[2] + 1
    BY <1>1, <1>3
  <2>2. Behind(i, j)' <=> i <= x \/ (i <= y /\ j < at[2] + 1)
    BY <2>1 DEF Behind
  <2>. HIDE DEF x, y
  <2>3. Behind(i, j) <=> i <= x \/ (i <= y /\ j < at[2])
    BY DEF Behind, x, y
  <2>4. Behind(i, j)' <=> Behind(i, j) \/ (j = at[2] /\ x < i /\ i <= y)
    BY <1>1, <1>2, <2>2, <2>3
  <2> QED BY <2>4 DEF x, y
<1>4. CASE ~ (at[2] < Len(nodeIps))
  <2>1. at'[1] = at[1] + 1 /\ at'[2] = 1 /\ (at[1] + 1) - 1 = at[1]
    BY <1>1, <1>4
  <2>2. Behind(i, j)' <=> i <= y \/ (i <= (at[1] + 1) * Batch /\ j < 1)
    BY <2>1 DEF Behind
  <2>3. Behind(i, j)' <=> i <= y
    BY <1>1, <2>2
  <2>. HIDE DEF x, y
  <2>4. Behind(i, j) <=> i <= x \/ (i <= y /\ j < at[2])
    BY DEF Behind, x, y
  <2>5. Behind(i, j)' <=> Behind(i, j) \/ (j = at[2] /\ x < i /\ i <= y)
    BY <1>1, <1>2, <1>4, <2>3, <2>4
  <2> QED BY <2>5 DEF x, y
<1> QED BY <1>3, <1>4

\* Every step keeps that the calls behind are recorded.
LEMMA ToldStep ==
  ASSUME Shaped, Told, [Next]_vars
  PROVE  Told'
<1>. USE DEF rows, memory, serving, nodes, counts, record, heard
<1>. Shape /\ Waiting /\ Calling /\ Placed
  BY DEF Shaped
<1>1. ASSUME UNCHANGED <<crashes, req, eps, phase, posts, at, nodeIps, called>>
      PROVE  Told'
  <2>1. \A i, j : Behind(i, j)' <=> Behind(i, j)
    BY <1>1 DEF Behind
  <2> QED BY <1>1, <2>1 DEF Told
<1>2. ASSUME phase' = "idle", UNCHANGED crashes \/ crashes' = crashes + 1
      PROVE  Told'
  BY <1>2 DEF Told
<1>3. ASSUME NEW ps \in Requests, Post(ps)
      PROVE  Told'
  <2>1. /\ phase = "idle" /\ posts < MaxPosts /\ posts' = posts + 1 /\ UNCHANGED crashes
        /\ \/ phase' = "idle"
           \/ phase' = "ports" /\ req' = ps /\ eps' = Collected(ps)
    BY <1>3 DEF Post
  <2>2. CASE phase' = "ports" /\ req' = ps /\ eps' = Collected(ps)
    <3>1. ps \in Seq(Port)
      BY RequestsAssumption
    <3>2. \A k \in DOMAIN ps : \E i \in DOMAIN eps' : eps'[i] = [port |-> ps[k], post |-> posts + 1]
      BY <2>1, <2>2, <3>1, CollectedIs
    <3> QED BY <2>1, <2>2, <3>2 DEF Told
  <2> QED BY <1>2, <2>1, <2>2
<1>4. CASE CommitPorts \/ CommitEps
  <2>1. /\ UNCHANGED <<eps, posts, at, nodeIps, called, crashes>> /\ phase \in {"ports", "eps"}
        /\ phase' # "idle" => req' = req
    BY <1>4 DEF CommitPorts, CommitEps, Refuse, Answer, AfterRefusal
  <2>2. \A i \in DOMAIN eps, j \in DOMAIN nodeIps : ~ Behind(i, j)'
    <3>1. at = <<1, 1>> /\ DOMAIN eps \subseteq Nat \ {0} /\ DOMAIN nodeIps \subseteq Nat \ {0}
      BY <2>1 DEF Placed, Shape
    <3>2. \A i \in DOMAIN eps, j \in DOMAIN nodeIps : ~ Behind(i, j)
      BY <3>1, NothingBehind
    <3>3. \A i, j : Behind(i, j)' <=> Behind(i, j)
      BY <2>1 DEF Behind
    <3> QED BY <3>2, <3>3
  <2> QED BY <2>1, <2>2 DEF Told
<1>5. CASE Ends
  <2>1. /\ UNCHANGED <<crashes, req, eps, phase, posts, nodeIps>>
        /\ called' = called \cup {<<call.node, e.port>> : e \in {x \in ToSet(call.chunk) : x.post = posts}}
        /\ phase = "send" /\ call.node = nodeIps[at[2]] /\ call.chunk = Chunk(at[1])
        /\ at[1] \in Nat \ {0} /\ at[1] <= Chunks /\ eps \in Seq(Entry)
    BY <1>5 DEF Ends, Conclude, Calling, Shape
  <2>2. ASSUME NEW i \in DOMAIN eps, NEW j \in DOMAIN nodeIps, eps[i].post = posts, Behind(i, j)'
        PROVE  <<nodeIps[j], eps[i].port>> \in called'
    <3>1. CASE Behind(i, j)
      BY <2>1, <2>2, <3>1 DEF Told
    <3>2. CASE j = at[2] /\ (at[1] - 1) * Batch < i /\ i <= at[1] * Batch
      <4>1. eps[i] \in ToSet(call.chunk)
        BY <2>1, <3>2, ChunkIs DEF ToSet
      <4> QED BY <2>1, <2>2, <3>2, <4>1
    <3> QED BY <1>5, <2>2, <3>1, <3>2, BehindMoves
  <2> QED BY <2>1, <2>2 DEF Told
<1>6. CASE Finish \/ Crash
  <2>1. phase' = "idle" /\ (UNCHANGED crashes \/ crashes' = crashes + 1)
    BY <1>6 DEF Finish, Crash
  <2> QED BY <1>2, <2>1
<1>7. CASE \E n \in Node : LoadNode(n) \/ UnloadNode(n)
  <2>1. phase' = "idle" /\ UNCHANGED crashes
    BY <1>7 DEF LoadNode, UnloadNode, Change
  <2> QED BY <1>2, <2>1
<1>8. CASE UNCHANGED vars
  BY <1>1, <1>8 DEF vars
<1>9. CASE (\E v \in Vpc : PostVpc(v) \/ DeleteVpc(v)) \/ (\E p \in Port : DeletePort(p))
  BY <1>1, <1>9 DEF PostVpc, DeleteVpc, DeletePort, Change
<1>10. CASE Call \/ Transmit
  BY <1>1, <1>10 DEF Call, Transmit
<1>11. CASE OrphanTransmit \/ OrphanEnds
  BY <1>1, <1>11 DEF OrphanTransmit, OrphanEnds
<1>12. CASE \E n \in Node : Serve(n) \/ Die(n) \/ Restart(n) \/ Overtake(n)
  BY <1>1, <1>12 DEF Serve, Die, Restart, Overtake
<1> QED
  BY <1>3, <1>4, <1>5, <1>6, <1>7, <1>8, <1>9, <1>10, <1>11, <1>12, CallEnds DEF Next, Manager, Cli

\* EveryNodeTold: when ports_update_eps_config ends, the calls of all nodes known with all
\* ports of the request are over, for any length of eps and any size of the batches.
THEOREM NodesTold == Spec => EveryNodeTold
<1>. DEFINE I == Shaped /\ Told
            Answered == phase = "send" /\ phase' = "idle" /\ crashes' = crashes
                          => ToSet(nodeIps) \X ToSet(req) \subseteq called
<1>1. Init => I
  <2>. SUFFICES ASSUME Init PROVE I
    OBVIOUS
  <2>1. Told
    BY DEF Init, Told
  <2> QED BY <2>1, InitShaped
<1>2. I /\ [Next]_vars => I'
  BY ShapedStep, ToldStep
<1>3. I /\ [Next]_vars => [Answered]_vars
  <2>. SUFFICES ASSUME Shaped, Told, [Next]_vars, phase = "send", phase' = "idle", crashes' = crashes
                PROVE  ToSet(nodeIps) \X ToSet(req) \subseteq called
    BY DEF vars
  <2>1. Finish
    <3>. USE DEF rows, memory, serving, nodes, counts, record, heard
    <3>1. ~ UNCHANGED vars
      BY DEF vars
    <3>2. ~ (\E v \in Vpc : PostVpc(v) \/ DeleteVpc(v)) /\ ~ (\E n \in Node : LoadNode(n) \/ UnloadNode(n))
          /\ ~ (\E p \in Port : DeletePort(p)) /\ ~ (\E ps \in Requests : Post(ps))
      BY DEF PostVpc, DeleteVpc, LoadNode, UnloadNode, DeletePort, Change, Post
    <3>3. ~ CommitPorts /\ ~ CommitEps /\ ~ Call
      BY DEF CommitPorts, CommitEps, Call
    <3>4. ~ Crash
      BY DEF Crash, Told
    <3>5. ~ Cli
      BY DEF Cli, Transmit, Unreached, Replied, Expire, Conclude
    <3>6. ~ OrphanTransmit /\ ~ OrphanEnds
      BY DEF OrphanTransmit, OrphanEnds
    <3>7. ~ \E n \in Node : Serve(n) \/ Die(n) \/ Restart(n) \/ Overtake(n)
      BY DEF Serve, Die, Restart, Overtake
    <3> QED BY <3>1, <3>2, <3>3, <3>4, <3>5, <3>6, <3>7 DEF Next, Manager
  <2>2. ASSUME NEW j \in DOMAIN nodeIps, NEW k \in DOMAIN req
        PROVE  <<nodeIps[j], req[k]>> \in called
    <3>1. PICK i \in DOMAIN eps : eps[i] = [port |-> req[k], post |-> posts]
      BY DEF Told
    <3>2. /\ at[1] \in Nat \ {0} /\ at[1] > Chunks /\ eps \in Seq(Entry)
          /\ Len(eps) \in Nat /\ i \in 1 .. Len(eps)
      <4>1. nodeIps # <<>> /\ AllSent
        BY <2>1 DEF Finish
      <4>2. at \in (Nat \ {0}) \X (Nat \ {0}) /\ eps \in Seq(Entry)
        BY DEF Shaped, Shape
      <4>3. Len(eps) \in Nat /\ DOMAIN eps = 1 .. Len(eps)
        BY <4>2
      <4> QED BY <4>1, <4>2, <4>3 DEF AllSent
    <3>3. Len(eps) <= (at[1] - 1) * Batch /\ (at[1] - 1) * Batch \in Nat
      BY <3>2, ChunksCover
    <3>4. Behind(i, j)
      BY <3>2, <3>3 DEF Behind
    <3> QED BY <3>1, <3>4 DEF Told
  <2> QED BY <2>2 DEF ToSet
<1> QED BY <1>1, <1>2, <1>3, PTL DEF Spec, EveryNodeTold

(***************************************************************************)
(* NeverOlder.                                                             *)
(***************************************************************************)
\* A copy with this batch does no harm: it says nothing older than what was answered,
\* or it says again what is there.
Safe(t, a, chunk) ==
  \/ \A k \in DOMAIN chunk : a[chunk[k].port] <= chunk[k].post
  \/ /\ \A k \in DOMAIN chunk : t[chunk[k].port] # 0
     /\ \A p \in Port : Said(chunk, a)[p] >= a[p]

\* What a node is to be told yet is not older than what it answered.
Ahead ==
  /\ phase # "send" =>
       \A n \in Node, i \in DOMAIN eps : answered[n][eps[i].port] <= eps[i].post
  /\ phase = "send" =>
       \A j \in DOMAIN nodeIps, i \in DOMAIN eps :
         ~ Behind(i, j) => answered[nodeIps[j]][eps[i].port] <= eps[i].post

\* Copies have the numbers of their calls.
Numbered ==
  /\ orphan # NoCall => orphan.xid <= calls /\ (call # NoCall => orphan.xid < calls)
  /\ \A n \in Node : \A i \in DOMAIN net[n] :
       /\ net[n][i].xid <= calls
       /\ call # NoCall /\ net[n][i].xid = calls =>
            n = call.node /\ net[n][i].chunk = call.chunk

\* Copies wait in the order of the calls, and behind a reply only those of its call.
InOrder ==
  \A n \in Node \ strayed :
    /\ \A i, j \in DOMAIN net[n] : i < j => net[n][i].xid <= net[n][j].xid
    /\ call # NoCall /\ call.reply # "none" /\ call.node = n =>
         \A i \in DOMAIN net[n] : net[n][i].xid = calls

\* What a node that strayed not knows.
Fresh ==
  \A n \in Node \ strayed :
    /\ \A p \in Port : table[n][p] >= answered[n][p]
    /\ call # NoCall /\ call.reply = "ok" /\ call.node = n =>
         table[n] = Said(call.chunk, table[n])
    /\ \A i \in DOMAIN net[n] : Safe(table[n], answered[n], net[n][i].chunk)

\* What the end of a call changes.
LEMMA EndsMeans ==
  ASSUME Shaped, Ends
  PROVE  /\ call # NoCall /\ call \in CallSet /\ call' = NoCall /\ phase = "send"
         /\ UNCHANGED <<nodeIps, eps, phase, posts, net, table, daemon, calls, orphan, strayed>>
         /\ call.node = nodeIps[at[2]] /\ at[2] \in DOMAIN nodeIps
         /\ call.chunk = Chunk(at[1]) /\ at[1] \in Nat \ {0} /\ at[1] <= Chunks
         /\ call.chunk \in Seq(Entry) /\ call.node \in Node
         /\ \A m \in Node \ {call.node} : answered'[m] = answered[m]
         /\ \/ call.reply # "ok" /\ answered' = answered
            \/ call.reply = "ok" /\ answered'[call.node] = Said(call.chunk, answered[call.node])
<1>. USE DEF rows, memory, serving, nodes, counts, record, heard
<1>1. /\ call # NoCall /\ call' = NoCall
      /\ UNCHANGED <<nodeIps, eps, phase, posts, net, table, daemon, calls, orphan, strayed>>
      /\ answered' = IF call.reply = "ok"
                       THEN [answered EXCEPT ![call.node] = Said(call.chunk, @)]
                       ELSE answered
  BY DEF Ends, Conclude
<1>2. /\ call \in CallSet /\ phase = "send" /\ call.node = nodeIps[at[2]] /\ at[2] \in DOMAIN nodeIps
      /\ call.chunk = Chunk(at[1]) /\ at[1] <= Chunks
  BY <1>1 DEF Shaped, Shape, Calling
<1>3. call.chunk \in Seq(Entry) /\ call.node \in Node
  BY <1>2 DEF CallSet
<1>4. at[1] \in Nat \ {0} /\ DOMAIN answered = Node
  BY DEF Shaped, Shape
<1>5. /\ \A m \in Node \ {call.node} : answered'[m] = answered[m]
      /\ \/ call.reply # "ok" /\ answered' = answered
         \/ call.reply = "ok" /\ answered'[call.node] = Said(call.chunk, answered[call.node])
  BY <1>1, <1>3, <1>4
<1> QED BY <1>1, <1>2, <1>3, <1>4, <1>5

\* A socket from which a copy is taken, or all of them.
LEMMA NetShrinks ==
  ASSUME Shape, NEW n \in Node,
         \/ net' = [net EXCEPT ![n] = Tail(@)] /\ net[n] # <<>>
         \/ net' = [net EXCEPT ![n] = <<>>],
         NEW m \in Node
  PROVE  \E d \in {0, 1} : \A i \in DOMAIN net'[m] :
           /\ i \in Nat /\ i + d \in DOMAIN net[m]
           /\ net'[m][i] = net[m][i + d]
<1>1. net[m] \in Seq(Copies)
  BY DEF Shape
<1>2. CASE net'[m] = net[m]
  <2>1. \A i \in DOMAIN net[m] : i \in Nat /\ i + 0 = i
    BY <1>1
  <2> QED BY <1>2, <2>1
<1>3. CASE net'[m] = Tail(net[m]) /\ net[m] # <<>>
  <2>1. \A i \in DOMAIN Tail(net[m]) : i \in Nat /\ i + 1 \in DOMAIN net[m] /\ Tail(net[m])[i] = net[m][i + 1]
    BY <1>1, <1>3, TailDrops
  <2> QED BY <1>3, <2>1
<1>4. CASE net'[m] = <<>>
  BY <1>4
<1>5. net'[m] = net[m] \/ (net'[m] = Tail(net[m]) /\ net[m] # <<>>) \/ net'[m] = <<>>
  BY DEF Shape
<1> QED BY <1>2, <1>3, <1>4, <1>5

\* A reply changes nothing else of the call.
LEMMA ReplyKeeps ==
  ASSUME Shape, NEW rc, call # NoCall, call' = [call EXCEPT !.reply = rc]
  PROVE  call'.node = call.node /\ call'.chunk = call.chunk /\ call'.xid = call.xid /\ call'.reply = rc
BY DEF Shape, CallSet

\* Requests are numbered by naturals, up to posts.
LEMMA EpsPosts ==
  ASSUME Shaped
  PROVE  /\ posts \in Nat
         /\ \A i \in DOMAIN eps : eps[i].port \in Port /\ eps[i].post \in Nat /\ eps[i].post <= posts
         /\ \A n \in Node, p \in Port : answered[n][p] \in Nat /\ answered[n][p] <= posts
<1>1. eps \in Seq(Entry) /\ posts \in Nat /\ answered \in [Node -> [Port -> 0 .. posts]]
  BY BoundsAssumption DEF Shaped, Shape
<1>2. \A i \in DOMAIN eps : eps[i] \in Entry
  BY <1>1
<1>3. \A n \in Node : answered[n] \in [Port -> 0 .. posts]
  BY <1>1
<1> QED BY <1>1, <1>2, <1>3, BoundsAssumption DEF Entry, Shaped, Waiting

\* An acknowledged call leaves the node no further than what it is to be told yet.
LEMMA EndsAhead ==
  ASSUME Shaped, Ahead, Ends
  PROVE  Ahead'
<1>1. /\ call # NoCall /\ phase = "send" /\ phase' = phase /\ eps' = eps /\ nodeIps' = nodeIps
      /\ call.node = nodeIps[at[2]] /\ at[2] \in DOMAIN nodeIps
      /\ call.chunk = Chunk(at[1]) /\ at[1] \in Nat \ {0} /\ at[1] <= Chunks
      /\ call.chunk \in Seq(Entry) /\ call.node \in Node
      /\ \A m \in Node \ {call.node} : answered'[m] = answered[m]
      /\ \/ call.reply # "ok" /\ answered' = answered
         \/ call.reply = "ok" /\ answered'[call.node] = Said(call.chunk, answered[call.node])
  BY EndsMeans
<1>2. nodeIps \in Seq(Node) /\ IsInjective(nodeIps) /\ eps \in Seq(Entry)
  BY DEF Shaped, Shape
<1>3. ASSUME NEW j \in DOMAIN nodeIps, NEW i \in DOMAIN eps, ~ Behind(i, j)'
      PROVE  answered'[nodeIps[j]][eps[i].port] <= eps[i].post
  <2>1. /\ ~ Behind(i, j)
        /\ ~ (j = at[2] /\ (at[1] - 1) * Batch < i /\ i <= at[1] * Batch)
    BY <1>3, BehindMoves
  <2>2. answered[nodeIps[j]][eps[i].port] <= eps[i].post
    BY <1>1, <2>1 DEF Ahead
  <2>3. CASE answered'[nodeIps[j]] = answered[nodeIps[j]]
    BY <2>2, <2>3
  <2>4. CASE j = at[2] /\ answered'[nodeIps[j]] = Said(call.chunk, answered[nodeIps[j]])
    <3>. DEFINE p == eps[i].port  b == answered[nodeIps[j]]
    <3>1. i > at[1] * Batch
      <4>1. /\ (at[1] - 1) * Batch \in Nat /\ at[1] * Batch = (at[1] - 1) * Batch + Batch
            /\ Batch \in Nat \ {0} /\ i \in Nat
        BY <1>1, <1>2, ChunksCover
      <4>2. ~ (i <= (at[1] - 1) * Batch)
        BY <2>1 DEF Behind
      <4>3. (at[1] - 1) * Batch < i
        BY <4>1, <4>2
      <4>4. ~ (i <= at[1] * Batch)
        BY <2>1, <2>4, <4>3
      <4>. DEFINE x == (at[1] - 1) * Batch  y == at[1] * Batch
      <4>5. y \in Nat
        <5>. HIDE DEF x
        <5> QED BY <4>1 DEF x
      <4>. HIDE DEF y
      <4> QED BY <4>1, <4>4, <4>5 DEF y
    <3>2. p \in Port
      BY EpsPosts
    <3>3. CASE Said(call.chunk, b)[p] = b[p]
      BY <2>2, <2>4, <3>3
    <3>4. CASE \E k \in DOMAIN call.chunk : call.chunk[k].post = Said(call.chunk, b)[p]
      <4>1. PICK k \in DOMAIN call.chunk : call.chunk[k].post = Said(call.chunk, b)[p]
        BY <3>4
      <4>2. PICK h \in DOMAIN eps : h <= at[1] * Batch /\ call.chunk[k] = eps[h]
        <5>1. k \in DOMAIN Chunk(at[1])
          BY <1>1
        <5>2. /\ (at[1] - 1) * Batch + k \in DOMAIN eps
              /\ (at[1] - 1) * Batch + k <= at[1] * Batch
              /\ Chunk(at[1])[k] = eps[(at[1] - 1) * Batch + k]
          <6>1. at[1] \in Nat \ {0} /\ at[1] <= Chunks /\ eps \in Seq(Entry)
            BY <1>1, <1>2
          <6> QED BY <5>1, <6>1, ChunkIs
        <5> QED BY <1>1, <5>2
      <4>3. h < i
        <5>1. h \in Nat /\ i \in Nat /\ at[1] * Batch \in Nat
          BY <1>1, <1>2, BatchAssumption
        <5> QED BY <3>1, <4>2, <5>1
      <4>4. eps[h].post <= eps[i].post
        BY <4>3 DEF Shaped, Waiting
      <4> QED BY <2>4, <4>1, <4>2, <4>4
    <3> QED BY <1>1, <3>2, <3>3, <3>4, SaidOld
  <2>5. j # at[2] => nodeIps[j] # call.node /\ nodeIps[j] \in Node
    BY <1>1, <1>2 DEF IsInjective
  <2> QED BY <1>1, <2>3, <2>4, <2>5
<1> QED BY <1>1, <1>3 DEF Ahead

\* Every step keeps what waits ahead of what was answered.
LEMMA AheadStep ==
  ASSUME Shaped, Ahead, [Next]_vars
  PROVE  Ahead'
<1>. USE DEF rows, memory, serving, nodes, counts, record, heard
<1>. Shape /\ Waiting /\ Calling /\ Placed
  BY DEF Shaped
<1>1. ASSUME UNCHANGED <<phase, eps, answered, nodeIps, at>>
      PROVE  Ahead'
  <2>1. \A i, j : Behind(i, j)' <=> Behind(i, j)
    BY <1>1 DEF Behind
  <2> QED BY <1>1, <2>1 DEF Ahead
<1>2. ASSUME NEW n \in Node, LoadNode(n)
      PROVE  Ahead'
  <2>1. phase = "idle" /\ phase' = "idle" /\ eps' = eps
    BY <1>2 DEF LoadNode, Change
  <2>2. UNCHANGED answered \/ answered' = [answered EXCEPT ![n] = None]
    BY <1>2 DEF LoadNode
  <2>3. \A m \in Node : answered'[m] = answered[m] \/ answered'[m] = None
    BY <2>2 DEF Shape
  <2>4. \A i \in DOMAIN eps : None[eps[i].port] <= eps[i].post
    BY EpsPosts DEF None
  <2> QED BY <2>1, <2>3, <2>4 DEF Ahead
<1>3. ASSUME NEW n \in Node, UnloadNode(n)
      PROVE  Ahead'
  <2>1. phase = "idle" /\ phase' = "idle" /\ UNCHANGED <<eps, answered>>
    BY <1>3 DEF UnloadNode, Change
  <2> QED BY <2>1 DEF Ahead
<1>4. ASSUME NEW ps \in Requests, Post(ps)
      PROVE  Ahead'
  <2>1. /\ phase = "idle" /\ phase' # "send" /\ UNCHANGED answered /\ posts < MaxPosts
    BY <1>4 DEF Post
  <2>2. PICK qs \in Seq(Port) : eps' = Collected(qs)
    <3>1. ps \in Seq(Port)
      BY RequestsAssumption
    <3>2. \A i \in DOMAIN ps : SubSeq(ps, 1, i - 1) \in Seq(Port)
      BY <3>1
    <3> QED BY <1>4, <3>1, <3>2 DEF Post
  <2>3. /\ Collected(qs) \in Seq(Entry)
        /\ \A i \in DOMAIN eps' : (i \in DOMAIN eps /\ eps'[i] = eps[i]) \/ eps'[i].post = posts + 1
    BY <2>1, <2>2, CollectedIs
  <2>4. \A i \in DOMAIN eps' : eps'[i].port \in Port
    <3>1. \A i \in DOMAIN eps' : eps'[i] \in Entry
      BY <2>2, <2>3
    <3> QED BY <3>1 DEF Entry
  <2>5. ASSUME NEW n \in Node, NEW i \in DOMAIN eps'
        PROVE  answered[n][eps'[i].port] <= eps'[i].post
    <3>1. CASE i \in DOMAIN eps /\ eps'[i] = eps[i]
      BY <2>1, <3>1 DEF Ahead
    <3>2. CASE eps'[i].post = posts + 1
      BY <2>4, <3>2, EpsPosts
    <3> QED BY <2>3, <3>1, <3>2
  <2> QED BY <2>1, <2>5 DEF Ahead
<1>5. CASE CommitPorts \/ CommitEps
  <2>1. phase # "send" /\ UNCHANGED <<eps, answered, nodeIps>>
    BY <1>5 DEF CommitPorts, CommitEps
  <2>2. \A j \in DOMAIN nodeIps : nodeIps[j] \in Node
    BY DEF Shape
  <2> QED BY <2>1, <2>2 DEF Ahead
<1>6. CASE Finish \/ Crash
  <2>1. eps' = <<>>
    BY <1>6 DEF Finish, Crash
  <2> QED BY <2>1 DEF Ahead
<1>7. CASE Unreached \/ Replied \/ Expire
  BY <1>7, CallEnds, EndsAhead
<1>8. CASE UNCHANGED vars
  BY <1>1, <1>8 DEF vars
<1>9. CASE (\E v \in Vpc : PostVpc(v) \/ DeleteVpc(v)) \/ (\E p \in Port : DeletePort(p))
  BY <1>1, <1>9 DEF PostVpc, DeleteVpc, DeletePort, Change
<1>10. CASE Call \/ Transmit
  BY <1>1, <1>10 DEF Call, Transmit
<1>11. CASE OrphanTransmit \/ OrphanEnds
  BY <1>1, <1>11 DEF OrphanTransmit, OrphanEnds
<1>12. CASE \E n \in Node : Serve(n) \/ Die(n) \/ Restart(n) \/ Overtake(n)
  BY <1>1, <1>12 DEF Serve, Die, Restart, Overtake
<1> QED
  BY <1>2, <1>3, <1>4, <1>5, <1>6, <1>7, <1>8, <1>9, <1>10, <1>11, <1>12 DEF Next, Manager, Cli

(***************************************************************************)
(* The calls are numbered, and each number is one call.                    *)
(***************************************************************************)
\* The copy of a call has its number.
LEMMA NumberedCopy ==
  ASSUME Shape, Numbered, NEW c \in CallSet, Copy(c), c.xid <= calls,
         call # NoCall /\ c.xid = calls => c.node = call.node /\ c.chunk = call.chunk,
         NEW n \in Node, NEW i \in DOMAIN net'[n]
  PROVE  /\ net'[n][i].xid <= calls
         /\ call # NoCall /\ net'[n][i].xid = calls =>
              n = call.node /\ net'[n][i].chunk = call.chunk
<1>1. \/ i \in DOMAIN net[n] /\ net'[n][i] = net[n][i]
      \/ n = c.node /\ net'[n][i] = [xid |-> c.xid, chunk |-> c.chunk]
  BY CopyAdds
<1> QED BY <1>1 DEF Numbered

\* Fewer copies, or the same in another order, are numbered as well.
LEMMA NumberedLess ==
  ASSUME Numbered,
         \A n \in Node : \A i \in DOMAIN net'[n] : \E j \in DOMAIN net[n] : net'[n][i] = net[n][j],
         UNCHANGED <<calls, orphan>>,
         call' # NoCall =>
           call # NoCall /\ call'.node = call.node /\ call'.chunk = call.chunk
  PROVE  Numbered'
BY DEF Numbered

\* Every step keeps the numbers of the calls.
LEMMA NumberedStep ==
  ASSUME Shaped, Numbered, [Next]_vars
  PROVE  Numbered'
<1>. USE DEF rows, memory, serving, nodes, counts, record, heard
<1>. Shape /\ Full /\ Calling /\ calls \in Nat
  BY DEF Shaped, Shape
<1>0. \A n \in Node : \A i \in DOMAIN net[n] : net[n][i].xid \in Nat
  <2>1. \A n \in Node : net[n] \in Seq(Copies)
    BY DEF Shape
  <2>2. \A n \in Node : \A i \in DOMAIN net[n] : net[n][i] \in Copies
    BY <2>1
  <2> QED BY <2>2 DEF Copies
<1>1. ASSUME UNCHANGED <<net, calls, orphan>>, UNCHANGED call \/ call' = NoCall
      PROVE  Numbered'
  BY <1>1 DEF Numbered
<1>2. CASE Call
  <2>1. /\ call = NoCall /\ calls' = calls + 1 /\ call'.xid = calls + 1 /\ UNCHANGED <<net, orphan>>
    BY <1>2 DEF Call
  <2>2. orphan # NoCall => orphan.xid \in Nat
    BY DEF Shape, CallSet
  <2>3. \A n \in Node : \A i \in DOMAIN net[n] :
          net[n][i].xid \in Nat /\ net[n][i].xid <= calls
    BY <1>0 DEF Numbered
  <2>4. \A n \in Node : \A i \in DOMAIN net[n] :
          net[n][i].xid <= calls' /\ net[n][i].xid # calls'
    BY <2>1, <2>3
  <2>5. orphan' # NoCall => orphan'.xid <= calls' /\ orphan'.xid < calls'
    BY <2>1, <2>2 DEF Numbered
  <2> QED BY <2>1, <2>4, <2>5 DEF Numbered
<1>3. CASE Transmit
  <2>1. /\ call # NoCall /\ call' = [call EXCEPT !.sends = @ + 1] /\ Copy(call)
        /\ UNCHANGED <<calls, orphan>>
    BY <1>3 DEF Transmit
  <2>2. call \in CallSet /\ call.xid = calls
    BY <2>1 DEF Shape, Calling
  <2>3. call'.node = call.node /\ call'.chunk = call.chunk
    BY <2>1, <2>2, SendsMore
  <2>4. \A n \in Node : \A i \in DOMAIN net'[n] :
          /\ net'[n][i].xid <= calls
          /\ net'[n][i].xid = calls => n = call.node /\ net'[n][i].chunk = call.chunk
    BY <2>1, <2>2, NumberedCopy
  <2> QED BY <2>1, <2>3, <2>4 DEF Numbered
<1>4. CASE OrphanTransmit
  <2>1. /\ orphan # NoCall /\ orphan' = [orphan EXCEPT !.sends = @ + 1] /\ Copy(orphan)
        /\ UNCHANGED <<calls, call>>
    BY <1>4 DEF OrphanTransmit
  <2>2. orphan \in CallSet /\ orphan.xid <= calls /\ (call # NoCall => orphan.xid # calls)
    <3>1. orphan \in CallSet /\ orphan.xid <= calls /\ (call # NoCall => orphan.xid < calls)
      BY <2>1 DEF Shape, Numbered
    <3>2. orphan.xid \in Nat
      BY <3>1 DEF CallSet
    <3> QED BY <3>1, <3>2
  <2>3. orphan'.xid = orphan.xid
    BY <2>1, <2>2, SendsMore
  <2>4. \A n \in Node : \A i \in DOMAIN net'[n] :
          /\ net'[n][i].xid <= calls
          /\ call # NoCall /\ net'[n][i].xid = calls =>
               n = call.node /\ net'[n][i].chunk = call.chunk
    BY <2>1, <2>2, NumberedCopy
  <2> QED BY <2>1, <2>3, <2>4 DEF Numbered
<1>5. CASE OrphanEnds
  <2>1. orphan' = NoCall /\ UNCHANGED <<net, calls, call>>
    BY <1>5 DEF OrphanEnds
  <2> QED BY <2>1 DEF Numbered
<1>6. CASE Crash
  <2>1. orphan' = call /\ call' = NoCall /\ UNCHANGED <<net, calls>>
    BY <1>6 DEF Crash
  <2>2. call # NoCall => call.xid <= calls
    BY DEF Calling
  <2> QED BY <2>1, <2>2 DEF Numbered
<1>7. ASSUME NEW n \in Node, Serve(n)
      PROVE  Numbered'
  <2>1. UNCHANGED <<calls, orphan>> /\ net[n] # <<>> /\ net' = [net EXCEPT ![n] = Tail(@)]
    BY <1>7 DEF Serve
  <2>2. \A m \in Node : \A i \in DOMAIN net'[m] : \E j \in DOMAIN net[m] : net'[m][i] = net[m][j]
    BY <2>1, NetShrinks
  <2>3. UNCHANGED call \/ (call # NoCall /\ \E rc : call' = [call EXCEPT !.reply = rc])
    BY <1>7, ServeTakes
  <2> QED BY <2>1, <2>2, <2>3, ReplyKeeps, NumberedLess
<1>8. ASSUME NEW n \in Node, Die(n)
      PROVE  Numbered'
  <2>1. UNCHANGED <<calls, orphan, call>> /\ net' = [net EXCEPT ![n] = <<>>]
    BY <1>8 DEF Die
  <2>2. \A m \in Node : \A i \in DOMAIN net'[m] : \E j \in DOMAIN net[m] : net'[m][i] = net[m][j]
    BY <2>1, NetShrinks
  <2> QED BY <2>1, <2>2, NumberedLess
<1>9. ASSUME NEW n \in Node, Overtake(n)
      PROVE  Numbered'
  <2>1. UNCHANGED <<calls, orphan, call>>
    BY <1>9 DEF Overtake
  <2>2. \A m \in Node : \A i \in DOMAIN net'[m] : \E j \in DOMAIN net[m] : net'[m][i] = net[m][j]
    BY <1>9, OvertakeSwaps
  <2> QED BY <2>1, <2>2, NumberedLess
<1>10. CASE UNCHANGED vars
  BY <1>1, <1>10 DEF vars
<1>11. CASE \E v \in Vpc : PostVpc(v) \/ DeleteVpc(v)
  BY <1>1, <1>11 DEF PostVpc, DeleteVpc, Change
<1>12. CASE \E n \in Node : LoadNode(n) \/ UnloadNode(n) \/ Restart(n)
  BY <1>1, <1>12 DEF LoadNode, UnloadNode, Change, Restart
<1>13. CASE (\E ps \in Requests : Post(ps)) \/ \E p \in Port : DeletePort(p)
  BY <1>1, <1>13 DEF Post, DeletePort, Change
<1>14. CASE CommitPorts \/ CommitEps \/ Finish
  BY <1>1, <1>14 DEF CommitPorts, CommitEps, Finish
<1>15. CASE Unreached \/ Replied \/ Expire
  BY <1>1, <1>15 DEF Unreached, Replied, Expire, Conclude
<1> QED
  BY <1>2, <1>3, <1>4, <1>5, <1>6, <1>7, <1>8, <1>9, <1>10, <1>11, <1>12, <1>13, <1>14, <1>15
     DEF Next, Manager, Cli

\* Copies have numbers.
LEMMA CopyXids ==
  ASSUME Shape
  PROVE  \A n \in Node : \A i \in DOMAIN net[n] : i \in Nat /\ net[n][i].xid \in Nat
<1>1. \A n \in Node : net[n] \in Seq(Copies)
  BY DEF Shape
<1>2. \A n \in Node : \A i \in DOMAIN net[n] : i \in Nat /\ net[n][i] \in Copies
  BY <1>1
<1> QED BY <1>2 DEF Copies

\* When the waiting call is the one answered, nothing older is left in the socket.
LEMMA FirstIsCall ==
  ASSUME Shaped, Numbered, InOrder, NEW n \in Node \ strayed, net[n] # <<>>,
         call # NoCall, call.xid = Head(net[n]).xid
  PROVE  /\ n = call.node /\ Head(net[n]).chunk = call.chunk
         /\ \A i \in DOMAIN net[n] : net[n][i].xid = calls
<1>1. net[n] \in Seq(Copies) /\ call.xid = calls /\ calls \in Nat
  BY DEF Shaped, Shape, Calling
<1>2. 1 \in DOMAIN net[n] /\ Head(net[n]) = net[n][1]
  BY <1>1, TailDrops
<1>3. n = call.node /\ net[n][1].chunk = call.chunk
  BY <1>1, <1>2 DEF Numbered
<1>4. ASSUME NEW i \in DOMAIN net[n]
      PROVE  net[n][i].xid = calls
  <2>1. net[n][i].xid <= calls /\ net[n][i].xid \in Nat /\ i \in Nat
    BY CopyXids DEF Numbered, Shaped
  <2>2. CASE i = 1
    BY <1>1, <1>2, <2>2
  <2>3. CASE i # 1
    <3>1. 1 < i
      <4>1. DOMAIN net[n] = 1 .. Len(net[n])
        BY <1>1
      <4> QED BY <2>3, <4>1
    <3>2. net[n][1].xid <= net[n][i].xid
      BY <1>2, <3>1 DEF InOrder
    <3> QED BY <1>1, <1>2, <2>1, <3>2
  <2> QED BY <2>2, <2>3
<1> QED BY <1>2, <1>3, <1>4

\* Sockets from which copies are taken stay in order.
LEMMA InOrderLess ==
  ASSUME Shape, NEW n \in Node, n \notin strayed, InOrder, NEW d \in {0, 1},
         \A i \in DOMAIN net'[n] :
           /\ i \in Nat /\ i + d \in DOMAIN net[n]
           /\ net'[n][i] = net[n][i + d]
  PROVE  \A i, j \in DOMAIN net'[n] : i < j => net'[n][i].xid <= net'[n][j].xid
<1>. SUFFICES ASSUME NEW i \in DOMAIN net'[n], NEW j \in DOMAIN net'[n], i < j
              PROVE  net'[n][i].xid <= net'[n][j].xid
  OBVIOUS
<1>1. i + d < j + d /\ i + d \in DOMAIN net[n] /\ j + d \in DOMAIN net[n]
  OBVIOUS
<1>2. net[n][i + d].xid <= net[n][j + d].xid
  BY <1>1 DEF InOrder
<1> QED BY <1>2

\* Every step keeps the copies of a node that strayed not in the order of the calls.
LEMMA InOrderStep ==
  ASSUME Shaped, Numbered, InOrder, [Next]_vars
  PROVE  InOrder'
<1>. USE DEF rows, memory, serving, nodes, counts, record, heard
<1>. Shape /\ Full /\ Calling /\ calls \in Nat
  BY DEF Shaped, Shape
<1>1. ASSUME UNCHANGED <<net, strayed, calls>>, UNCHANGED call \/ call' = NoCall
      PROVE  InOrder'
  BY <1>1 DEF InOrder
<1>2. CASE Call
  <2>1. call'.reply = "none" /\ UNCHANGED <<net, strayed>>
    BY <1>2 DEF Call
  <2> QED BY <2>1 DEF InOrder
<1>3. CASE Transmit
  <2>1. /\ call # NoCall /\ call' = [call EXCEPT !.sends = @ + 1] /\ Copy(call)
        /\ call.reply = "none" /\ UNCHANGED <<calls, strayed>>
    BY <1>3 DEF Transmit
  <2>2. call \in CallSet /\ call.xid = calls
    BY <2>1 DEF Shape, Calling
  <2>3. call'.reply = "none"
    BY <2>1, <2>2, SendsMore
  <2>4. ASSUME NEW n \in Node \ strayed, NEW i \in DOMAIN net'[n], NEW j \in DOMAIN net'[n], i < j
        PROVE  net'[n][i].xid <= net'[n][j].xid
    <3>1. CASE net'[n] = net[n]
      BY <2>4, <3>1 DEF InOrder
    <3>2. CASE \A k \in DOMAIN net'[n] :
                 \/ k \in DOMAIN net[n] /\ net'[n][k] = net[n][k]
                 \/ k = Len(net[n]) + 1 /\ net'[n][k] = [xid |-> call.xid, chunk |-> call.chunk]
      <4>1. DOMAIN net[n] = 1 .. Len(net[n]) /\ Len(net[n]) \in Nat
        <5>1. net[n] \in Seq(Copies)
          BY DEF Shape
        <5> QED BY <5>1
      <4>2. i \in DOMAIN net[n] /\ net'[n][i] = net[n][i]
        BY <2>4, <3>2, <4>1
      <4>3. CASE j \in DOMAIN net[n] /\ net'[n][j] = net[n][j]
        BY <2>4, <4>2, <4>3 DEF InOrder
      <4>4. CASE net'[n][j] = [xid |-> call.xid, chunk |-> call.chunk]
        <5>1. net'[n][j].xid = calls
          BY <2>2, <4>4
        <5>2. net[n][i].xid <= calls
          BY <4>2 DEF Numbered
        <5> QED BY <4>2, <5>1, <5>2
      <4> QED BY <3>2, <4>3, <4>4
    <3> QED BY <2>1, <2>2, <3>1, <3>2, CopyAdds
  <2> QED BY <2>1, <2>3, <2>4 DEF InOrder
<1>4. CASE OrphanTransmit
  <2>1. /\ orphan # NoCall /\ Copy(orphan) /\ UNCHANGED <<calls, call>>
        /\ strayed' = IF net' = net THEN strayed ELSE strayed \cup {orphan.node}
    BY <1>4 DEF OrphanTransmit
  <2>2. \A n \in Node \ strayed' : n \notin strayed /\ net'[n] = net[n]
    <3>1. orphan \in CallSet
      BY <2>1 DEF Shape
    <3> QED BY <2>1, <3>1, CopyAdds
  <2> QED BY <2>1, <2>2 DEF InOrder
<1>5. CASE OrphanEnds
  BY <1>1, <1>5 DEF OrphanEnds
<1>6. CASE Crash
  BY <1>1, <1>6 DEF Crash
<1>7. ASSUME NEW n \in Node, Serve(n)
      PROVE  InOrder'
  <2>1. UNCHANGED <<calls, strayed>> /\ net[n] # <<>> /\ net' = [net EXCEPT ![n] = Tail(@)]
    BY <1>7 DEF Serve
  <2>2. \/ UNCHANGED call
        \/ /\ call # NoCall /\ call.xid = Head(net[n]).xid
           /\ \E rc : call' = [call EXCEPT !.reply = rc]
    BY <1>7, ServeTakes
  <2>3. ASSUME NEW m \in Node \ strayed
        PROVE  /\ \A i, j \in DOMAIN net'[m] : i < j => net'[m][i].xid <= net'[m][j].xid
               /\ call' # NoCall /\ call'.reply # "none" /\ call'.node = m =>
                    \A i \in DOMAIN net'[m] : net'[m][i].xid = calls
    <3>1. PICK d \in {0, 1} : \A i \in DOMAIN net'[m] :
            /\ i \in Nat /\ i + d \in DOMAIN net[m]
            /\ net'[m][i] = net[m][i + d]
      BY <2>1, NetShrinks
    <3>2. \A i, j \in DOMAIN net'[m] : i < j => net'[m][i].xid <= net'[m][j].xid
      BY <3>1, InOrderLess
    <3>3. call' # NoCall /\ call'.reply # "none" /\ call'.node = m =>
            \A i \in DOMAIN net[m] : net[m][i].xid = calls
      <4>1. CASE UNCHANGED call
        BY <4>1 DEF InOrder
      <4>2. CASE /\ call # NoCall /\ call.xid = Head(net[n]).xid
                 /\ \E rc : call' = [call EXCEPT !.reply = rc]
        <5>1. call'.node = call.node
          BY <4>2, ReplyKeeps
        <5>2. n = call.node
          <6>1. net[n] \in Seq(Copies) /\ call.xid = calls
            BY <4>2 DEF Shape, Calling
          <6>2. 1 \in DOMAIN net[n] /\ Head(net[n]) = net[n][1]
            BY <2>1, <6>1, TailDrops
          <6> QED BY <4>2, <6>1, <6>2 DEF Numbered
        <5>3. CASE m = n
          BY <2>1, <4>2, <5>3, FirstIsCall
        <5>4. CASE m # n
          BY <5>1, <5>2, <5>4
        <5> QED BY <5>3, <5>4
      <4> QED BY <2>2, <4>1, <4>2
    <3> QED BY <3>1, <3>2, <3>3
  <2> QED BY <2>1, <2>3 DEF InOrder
<1>8. ASSUME NEW n \in Node, Die(n)
      PROVE  InOrder'
  <2>1. UNCHANGED <<calls, call>> /\ net' = [net EXCEPT ![n] = <<>>] /\ strayed \subseteq strayed'
    BY <1>8 DEF Die
  <2>2. ASSUME NEW m \in Node \ strayed
        PROVE  /\ \A i, j \in DOMAIN net'[m] : i < j => net'[m][i].xid <= net'[m][j].xid
               /\ call # NoCall /\ call.reply # "none" /\ call.node = m =>
                    \A i \in DOMAIN net'[m] : net'[m][i].xid = calls
    <3>1. PICK d \in {0, 1} : \A i \in DOMAIN net'[m] :
            /\ i \in Nat /\ i + d \in DOMAIN net[m]
            /\ net'[m][i] = net[m][i + d]
      BY <2>1, NetShrinks
    <3>2. \A i, j \in DOMAIN net'[m] : i < j => net'[m][i].xid <= net'[m][j].xid
      BY <3>1, InOrderLess
    <3> QED BY <3>1, <3>2 DEF InOrder
  <2> QED BY <2>1, <2>2 DEF InOrder
<1>9. ASSUME NEW n \in Node, Overtake(n)
      PROVE  InOrder'
  <2>1. UNCHANGED <<calls, call>> /\ strayed' = strayed \cup {n}
    BY <1>9 DEF Overtake
  <2>2. \A m \in Node \ {n} : net'[m] = net[m]
    BY <1>9, OvertakeSwaps
  <2> QED BY <2>1, <2>2 DEF InOrder
<1>10. CASE UNCHANGED vars
  BY <1>1, <1>10 DEF vars
<1>11. CASE \E v \in Vpc : PostVpc(v) \/ DeleteVpc(v)
  BY <1>1, <1>11 DEF PostVpc, DeleteVpc, Change
<1>12. CASE \E n \in Node : LoadNode(n) \/ UnloadNode(n) \/ Restart(n)
  BY <1>1, <1>12 DEF LoadNode, UnloadNode, Change, Restart
<1>13. CASE (\E ps \in Requests : Post(ps)) \/ \E p \in Port : DeletePort(p)
  BY <1>1, <1>13 DEF Post, DeletePort, Change
<1>14. CASE CommitPorts \/ CommitEps \/ Finish
  BY <1>1, <1>14 DEF CommitPorts, CommitEps, Finish
<1>15. CASE Unreached \/ Replied \/ Expire
  BY <1>1, <1>15 DEF Unreached, Replied, Expire, Conclude
<1> QED
  BY <1>2, <1>3, <1>4, <1>5, <1>6, <1>7, <1>8, <1>9, <1>10, <1>11, <1>12, <1>13, <1>14, <1>15
     DEF Next, Manager, Cli

\* What a batch does to a node that strays not: no older word comes, and what was
\* harmless stays so.
LEMMA TakesFresh ==
  ASSUME Shaped, NEW n \in Node, n \notin strayed, Fresh, NEW k, NEW chunk,
         Takes(n, k, chunk), ~ CutsRepeat(chunk, k)
  PROVE  /\ \A p \in Port : table'[n][p] >= answered[n][p]
         /\ \A i \in DOMAIN net[n] : Safe(table'[n], answered[n], net[n][i].chunk)
         /\ table[n] = Said(chunk, table[n]) => table'[n] = table[n]
<1>. Shape /\ Full
  BY DEF Shaped
<1>1. /\ net[n] \in Seq(Copies) /\ net[n] # <<>> /\ chunk = Head(net[n]).chunk
      /\ chunk \in Seq(Entry) /\ k \in 0 .. Len(chunk)
      /\ table'[n] = Steps(table[n], chunk)[k].table
  BY TakesTable DEF Takes
<1>2. table[n] \in Table /\ Cardinality(Nonzero(table[n])) <= Capacity
  BY DEF Shape, Full
<1>3. answered[n] \in [Port -> Nat] /\ \A p \in Port : table[n][p] >= answered[n][p]
  BY EpsPosts DEF Shape, Fresh
<1>4. Safe(table[n], answered[n], chunk)
  <2>1. 1 \in DOMAIN net[n] /\ Head(net[n]) = net[n][1]
    BY <1>1, TailDrops
  <2> QED BY <1>1, <2>1 DEF Fresh
<1>5. ASSUME NEW p \in Port
      PROVE  table'[n][p] >= answered[n][p]
  <2>1. \/ \A i \in DOMAIN chunk : answered[n][chunk[i].port] <= chunk[i].post
        \/ /\ \A i \in DOMAIN chunk : table[n][chunk[i].port] # 0
           /\ \A q \in Port : Said(chunk, answered[n])[q] >= answered[n][q]
    BY <1>4 DEF Safe
  <2> QED BY <1>1, <1>2, <1>3, <2>1, StepsNotOlder
<1>6. ASSUME NEW i \in DOMAIN net[n]
      PROVE  Safe(table'[n], answered[n], net[n][i].chunk)
  <2>1. ASSUME NEW p \in Port, table[n][p] # 0
        PROVE  table'[n][p] # 0
    <3>1. table'[n][p] = table[n][p] \/ \E j \in 1 .. Len(chunk) : chunk[j] = [port |-> p, post |-> table'[n][p]]
      BY <1>1, TakesFrom
    <3>2. \A j \in 1 .. Len(chunk) : chunk[j] \in Entry
      BY <1>1
    <3> QED BY <2>1, <3>1, <3>2 DEF Entry
  <2>2. \A j \in DOMAIN net[n][i].chunk : net[n][i].chunk[j].port \in Port
    <3>1. net[n][i] \in Copies
      BY <1>1
    <3>2. net[n][i].chunk \in Seq(Entry)
      BY <3>1 DEF Copies
    <3>3. \A j \in DOMAIN net[n][i].chunk : net[n][i].chunk[j] \in Entry
      BY <3>2
    <3> QED BY <3>3 DEF Entry
  <2>3. Safe(table[n], answered[n], net[n][i].chunk)
    BY DEF Fresh
  <2> QED BY <2>1, <2>2, <2>3 DEF Safe
<1>7. table[n] = Said(chunk, table[n]) => table'[n] = table[n]
  BY <1>1, <1>2, StepsAgain
<1> QED BY <1>5, <1>6, <1>7

\* The node knows what its reply acknowledges.
LEMMA EndsFresh ==
  ASSUME Shaped, Numbered, InOrder, Fresh, Ends
  PROVE  Fresh'
<1>1. /\ call # NoCall /\ call' = NoCall /\ UNCHANGED <<net, table, strayed>>
      /\ call.chunk \in Seq(Entry) /\ call.node \in Node
      /\ \A m \in Node \ {call.node} : answered'[m] = answered[m]
      /\ \/ call.reply # "ok" /\ answered' = answered
         \/ call.reply = "ok" /\ answered'[call.node] = Said(call.chunk, answered[call.node])
  BY EndsMeans
<1>2. ASSUME NEW n \in Node \ strayed
      PROVE  /\ \A p \in Port : table[n][p] >= answered'[n][p]
             /\ \A i \in DOMAIN net[n] : Safe(table[n], answered'[n], net[n][i].chunk)
  <2>1. CASE answered'[n] = answered[n]
    BY <2>1 DEF Fresh
  <2>2. CASE n = call.node /\ call.reply = "ok" /\ answered'[n] = Said(call.chunk, answered[n])
    <3>. DEFINE a == answered[n]  b == Said(call.chunk, a)  t == table[n]
    <3>1. /\ t = Said(call.chunk, t) /\ \A p \in Port : t[p] >= a[p]
          /\ \A i \in DOMAIN net[n] : net[n][i].xid = calls
      BY <1>1, <2>2 DEF Fresh, InOrder
    <3>2. \A i \in DOMAIN net[n] : net[n][i].chunk = call.chunk
      BY <1>1, <3>1 DEF Numbered
    <3>3. ASSUME NEW p \in Port
          PROVE  t[p] >= b[p]
      <4>1. t[p] \in Nat /\ a[p] \in Nat
        <5>1. t \in Table
          BY DEF Shaped, Shape
        <5> QED BY <5>1, EpsPosts, BoundsAssumption DEF Table
      <4>2. b[p] = Said(call.chunk, t)[p] \/ b[p] = a[p]
        BY SaidSame
      <4>. HIDE DEF a, b, t
      <4> QED BY <3>1, <4>1, <4>2
    <3>4. \A k \in DOMAIN call.chunk : t[call.chunk[k].port] # 0
      BY <1>1, <3>1, SaidNamed
    <3>5. \A p \in Port : Said(call.chunk, b)[p] >= b[p]
      <4>. SUFFICES ASSUME NEW p \in Port PROVE Said(call.chunk, b)[p] >= b[p]
        OBVIOUS
      <4>1. Said(call.chunk, b)[p] = b[p]
        BY SaidTwice
      <4>2. b[p] \in Nat
        <5>1. b \in [Port -> 0 .. posts] /\ posts \in Nat
          <6>1. a \in [Port -> 0 .. posts] /\ posts \in Nat
            BY EpsPosts DEF Shaped, Shape
          <6>2. \A i \in DOMAIN call.chunk : call.chunk[i].post <= posts
            <7>1. /\ call.chunk = Chunk(at[1]) /\ at[1] \in Nat \ {0} /\ at[1] <= Chunks
              BY EndsMeans
            <7>2. eps \in Seq(Entry)
              BY DEF Shaped, Shape
            <7> QED BY <7>1, <7>2, ChunkIs, EpsPosts
          <6>. HIDE DEF a
          <6> QED BY <1>1, <6>1, <6>2, SaidType
        <5>. HIDE DEF b
        <5> QED BY <5>1
      <4> QED BY <4>1, <4>2
    <3>. HIDE DEF b, t
    <3>6. Safe(t, b, call.chunk)
      BY <3>4, <3>5 DEF Safe
    <3> QED BY <2>2, <3>2, <3>3, <3>6 DEF b, t
  <2> QED BY <1>1, <2>1, <2>2
<1> QED BY <1>1, <1>2 DEF Fresh

\* Every step keeps what a node that strayed not knows, and its copies harmless.
LEMMA FreshStep ==
  ASSUME Shaped, Ahead, Numbered, InOrder, Fresh, [Next]_vars
  PROVE  Fresh'
<1>. USE DEF rows, memory, serving, nodes, counts, record, heard
<1>. Shape /\ Full /\ Calling /\ calls \in Nat
  BY DEF Shaped, Shape
<1>1. ASSUME UNCHANGED <<net, table, answered, strayed>>, UNCHANGED call \/ call' = NoCall
      PROVE  Fresh'
  BY <1>1 DEF Fresh
<1>2. CASE Call
  <2>1. call'.reply = "none" /\ UNCHANGED <<net, table, answered, strayed>>
    BY <1>2 DEF Call
  <2> QED BY <2>1 DEF Fresh
<1>3. CASE Transmit
  <2>1. /\ call # NoCall /\ call' = [call EXCEPT !.sends = @ + 1] /\ Copy(call)
        /\ call.reply = "none" /\ UNCHANGED <<table, answered, strayed>>
    BY <1>3 DEF Transmit
  <2>2. /\ call \in CallSet /\ phase = "send" /\ call.node = nodeIps[at[2]] /\ at[2] \in DOMAIN nodeIps
        /\ call.chunk = Chunk(at[1]) /\ at[1] \in Nat \ {0} /\ at[1] <= Chunks /\ eps \in Seq(Entry)
        /\ at[2] \in Nat
    <3>1. nodeIps \in Seq(Node)
      BY DEF Shape
    <3> QED BY <2>1, <3>1 DEF Shape, Calling
  <2>3. call'.reply = "none"
    BY <2>1, <2>2, SendsMore
  <2>4. \A k \in DOMAIN call.chunk : answered[call.node][call.chunk[k].port] <= call.chunk[k].post
    <3>. SUFFICES ASSUME NEW k \in DOMAIN call.chunk
                  PROVE  answered[call.node][call.chunk[k].port] <= call.chunk[k].post
      OBVIOUS
    <3>. DEFINE x == (at[1] - 1) * Batch
    <3>1. x + k \in DOMAIN eps /\ call.chunk[k] = eps[x + k]
      BY <2>2, ChunkIs
    <3>2. x \in Nat /\ k \in Nat /\ k > 0
      <4>1. Chunk(at[1]) \in Seq(Entry)
        BY <2>2, ChunkIs
      <4>2. x \in Nat
        BY <2>2, ChunksCover
      <4>. HIDE DEF x
      <4> QED BY <2>2, <4>1, <4>2
    <3>3. ~ Behind(x + k, at[2])
      <4>1. ~ (x + k <= x) /\ ~ (at[2] < at[2])
        <5>. HIDE DEF x
        <5> QED BY <2>2, <3>2
      <4> QED BY <4>1 DEF Behind
    <3>. HIDE DEF x
    <3> QED BY <2>2, <3>1, <3>3 DEF Ahead
  <2>5. ASSUME NEW n \in Node \ strayed, NEW i \in DOMAIN net'[n]
        PROVE  Safe(table[n], answered[n], net'[n][i].chunk)
    <3>1. \/ i \in DOMAIN net[n] /\ net'[n][i] = net[n][i]
          \/ n = call.node /\ net'[n][i] = [xid |-> call.xid, chunk |-> call.chunk]
      BY <2>1, <2>2, CopyAdds
    <3>2. CASE i \in DOMAIN net[n] /\ net'[n][i] = net[n][i]
      BY <3>2 DEF Fresh
    <3>3. CASE n = call.node /\ net'[n][i] = [xid |-> call.xid, chunk |-> call.chunk]
      <4>1. net'[n][i].chunk = call.chunk
        BY <3>3
      <4> QED BY <2>4, <3>3, <4>1 DEF Safe
    <3> QED BY <3>1, <3>2, <3>3
  <2> QED BY <2>1, <2>3, <2>5 DEF Fresh
<1>4. CASE OrphanTransmit
  <2>1. /\ orphan # NoCall /\ Copy(orphan) /\ UNCHANGED <<table, answered, call>>
        /\ strayed' = IF net' = net THEN strayed ELSE strayed \cup {orphan.node}
    BY <1>4 DEF OrphanTransmit
  <2>2. \A n \in Node \ strayed' : n \notin strayed /\ net'[n] = net[n]
    <3>1. orphan \in CallSet
      BY <2>1 DEF Shape
    <3> QED BY <2>1, <3>1, CopyAdds
  <2> QED BY <2>1, <2>2 DEF Fresh
<1>5. ASSUME NEW n \in Node, LoadNode(n)
      PROVE  Fresh'
  <2>1. UNCHANGED <<call, net, strayed>> /\ phase = "idle"
    BY <1>5 DEF LoadNode, Change
  <2>2. call = NoCall
    BY <2>1 DEF Calling
  <2>3. CASE UNCHANGED <<table, answered>>
    BY <2>1, <2>3 DEF Fresh
  <2>4. CASE table' = [table EXCEPT ![n] = None] /\ answered' = [answered EXCEPT ![n] = None]
    <3>1. ASSUME NEW m \in Node \ strayed
          PROVE  /\ \A p \in Port : table'[m][p] >= answered'[m][p]
                 /\ \A i \in DOMAIN net[m] : Safe(table'[m], answered'[m], net[m][i].chunk)
      <4>1. CASE m = n
        <5>1. table'[m] = None /\ answered'[m] = None /\ \A p \in Port : None[p] = 0
          BY <2>4, <4>1 DEF Shape, None
        <5>2. \A i \in DOMAIN net[m] : \A k \in DOMAIN net[m][i].chunk :
                net[m][i].chunk[k].port \in Port /\ net[m][i].chunk[k].post \in Nat
          <6>1. net[m] \in Seq(Copies)
            BY DEF Shape
          <6>2. \A i \in DOMAIN net[m] : net[m][i].chunk \in Seq(Entry)
            <7>1. \A i \in DOMAIN net[m] : net[m][i] \in Copies
              BY <6>1
            <7> QED BY <7>1 DEF Copies
          <6>3. \A i \in DOMAIN net[m] : \A k \in DOMAIN net[m][i].chunk : net[m][i].chunk[k] \in Entry
            BY <6>2
          <6> QED BY <6>3, BoundsAssumption DEF Entry
        <5> QED BY <5>1, <5>2 DEF Safe
      <4>2. CASE m # n
        <5>1. table'[m] = table[m] /\ answered'[m] = answered[m]
          BY <2>4, <4>2 DEF Shape
        <5> QED BY <5>1 DEF Fresh
      <4> QED BY <4>1, <4>2
    <3> QED BY <2>1, <2>2, <3>1 DEF Fresh
  <2> QED BY <1>5, <2>3, <2>4 DEF LoadNode
<1>6. ASSUME NEW n \in Node, Serve(n)
      PROVE  Fresh'
  <2>1. UNCHANGED <<answered, strayed>> /\ net[n] # <<>>
    BY <1>6 DEF Serve
  <2>2. PICK k, chunk :
          /\ Takes(n, k, chunk) /\ ~ CutsRepeat(chunk, k)
          /\ \/ UNCHANGED call
             \/ /\ call # NoCall /\ call.xid = Head(net[n]).xid /\ call.reply = "none"
                /\ \E rc \in {"ok", "error"} :
                     /\ call' = [call EXCEPT !.reply = rc]
                     /\ rc = "ok" => k = Len(chunk) /\ Stored(table[n], chunk).rc = "ok"
    BY <1>6, ServeTakes
  <2>3. net' = [net EXCEPT ![n] = Tail(@)]
    BY <1>6 DEF Serve
  <2>4. /\ chunk \in Seq(Entry) /\ chunk = Head(net[n]).chunk
        /\ table'[n] = Steps(table[n], chunk)[k].table
        /\ \A m \in Node \ {n} : table'[m] = table[m]
    BY <2>2, TakesTable DEF Takes
  <2>5. ASSUME NEW m \in Node \ strayed
        PROVE  /\ \A p \in Port : table'[m][p] >= answered[m][p]
               /\ call' # NoCall /\ call'.reply = "ok" /\ call'.node = m =>
                    table'[m] = Said(call'.chunk, table'[m])
               /\ \A i \in DOMAIN net'[m] : Safe(table'[m], answered[m], net'[m][i].chunk)
    <3>1. /\ \A p \in Port : table'[m][p] >= answered[m][p]
          /\ \A i \in DOMAIN net[m] : Safe(table'[m], answered[m], net[m][i].chunk)
      <4>1. CASE m = n
        BY <2>2, <4>1, TakesFresh
      <4>2. CASE m # n
        BY <2>4, <4>2 DEF Fresh
      <4> QED BY <4>1, <4>2
    <3>2. \A i \in DOMAIN net'[m] : \E j \in DOMAIN net[m] : net'[m][i] = net[m][j]
      BY <2>1, <2>3, NetShrinks
    <3>3. ASSUME call' # NoCall, call'.reply = "ok", call'.node = m
          PROVE  table'[m] = Said(call'.chunk, table'[m])
      <4>1. CASE UNCHANGED call
        <5>1. table[m] = Said(call.chunk, table[m])
          BY <3>3, <4>1 DEF Fresh
        <5>2. CASE m = n
          <6>1. 1 \in DOMAIN net[n] /\ Head(net[n]) = net[n][1]
            <7>1. net[n] \in Seq(Copies)
              BY DEF Shape
            <7> QED BY <2>1, <7>1, TailDrops
          <6>2. net[n][1].xid = calls
            BY <3>3, <4>1, <5>2, <6>1 DEF InOrder
          <6>3. chunk = call.chunk
            BY <2>4, <3>3, <4>1, <6>1, <6>2 DEF Numbered
          <6>4. table'[m] = table[m]
            BY <2>2, <5>1, <5>2, <6>3, TakesFresh
          <6> QED BY <4>1, <5>1, <6>4
        <5>3. CASE m # n
          BY <2>4, <4>1, <5>1, <5>3
        <5> QED BY <5>2, <5>3
      <4>2. CASE /\ call # NoCall /\ call.xid = Head(net[n]).xid /\ call.reply = "none"
                 /\ \E rc \in {"ok", "error"} :
                      /\ call' = [call EXCEPT !.reply = rc]
                      /\ rc = "ok" => k = Len(chunk) /\ Stored(table[n], chunk).rc = "ok"
        <5>1. PICK rc \in {"ok", "error"} :
                /\ call' = [call EXCEPT !.reply = rc]
                /\ rc = "ok" => k = Len(chunk) /\ Stored(table[n], chunk).rc = "ok"
          BY <4>2
        <5>2. call'.node = call.node /\ call'.chunk = call.chunk /\ call'.reply = rc
          BY <4>2, <5>1, ReplyKeeps
        <5>3. k = Len(chunk) /\ Stored(table[n], chunk).rc = "ok"
          BY <3>3, <5>1, <5>2
        <5>4. n = call.node /\ chunk = call.chunk
          <6>1. net[n] \in Seq(Copies) /\ call.xid = calls
            BY <4>2 DEF Shape, Calling
          <6>2. 1 \in DOMAIN net[n] /\ Head(net[n]) = net[n][1]
            BY <2>1, <6>1, TailDrops
          <6> QED BY <2>4, <4>2, <6>1, <6>2 DEF Numbered
        <5>5. table'[n] = Stored(table[n], chunk).table
          BY <2>4, <5>3 DEF Stored
        <5>6. table[n] \in Table /\ Cardinality(Nonzero(table[n])) <= Capacity
          BY DEF Shape, Full
        <5>7. Stored(table[n], chunk).table = Said(chunk, Stored(table[n], chunk).table)
          BY <2>4, <5>3, <5>6, StepsSay
        <5> QED BY <3>3, <5>2, <5>4, <5>5, <5>7
      <4> QED BY <2>2, <4>1, <4>2
    <3> QED BY <3>1, <3>2, <3>3
  <2> QED BY <2>1, <2>5 DEF Fresh
<1>7. ASSUME NEW n \in Node, Die(n)
      PROVE  Fresh'
  <2>1. UNCHANGED <<answered, call>> /\ strayed \subseteq strayed'
    BY <1>7 DEF Die
  <2>2. /\ net' = [net EXCEPT ![n] = <<>>]
        /\ \/ UNCHANGED <<table, strayed>>
           \/ \E k, chunk :
                /\ Takes(n, k, chunk)
                /\ strayed' = IF CutsRepeat(chunk, k) THEN strayed \cup {n} ELSE strayed
    BY <1>7, DieTakes
  <2>3. \A m \in Node : \A i \in DOMAIN net'[m] : m # n /\ net'[m] = net[m]
    BY <2>2 DEF Shape
  <2>4. CASE UNCHANGED <<table, strayed>>
    BY <2>1, <2>3, <2>4 DEF Fresh
  <2>5. ASSUME NEW k, NEW chunk, Takes(n, k, chunk),
               strayed' = IF CutsRepeat(chunk, k) THEN strayed \cup {n} ELSE strayed
        PROVE  Fresh'
    <3>1. /\ net[n] \in Seq(Copies) /\ net[n] # <<>> /\ chunk = Head(net[n]).chunk
          /\ \A m \in Node \ {n} : table'[m] = table[m]
      BY <2>5, TakesTable DEF Takes
    <3>2. ASSUME NEW m \in Node \ strayed'
          PROVE  /\ \A p \in Port : table'[m][p] >= answered[m][p]
                 /\ call # NoCall /\ call.reply = "ok" /\ call.node = m =>
                      table'[m] = Said(call.chunk, table'[m])
                 /\ \A i \in DOMAIN net'[m] : Safe(table'[m], answered[m], net'[m][i].chunk)
      <4>1. CASE m = n
        <5>1. ~ CutsRepeat(chunk, k) /\ n \notin strayed
          BY <2>5, <3>2, <4>1
        <5>2. /\ \A p \in Port : table'[n][p] >= answered[n][p]
              /\ table[n] = Said(chunk, table[n]) => table'[n] = table[n]
          BY <2>5, <5>1, TakesFresh
        <5>3. 1 \in DOMAIN net[n] /\ Head(net[n]) = net[n][1]
          BY <3>1, TailDrops
        <5>4. call # NoCall /\ call.reply = "ok" /\ call.node = n =>
                chunk = call.chunk /\ table[n] = Said(call.chunk, table[n])
          BY <3>1, <5>1, <5>3 DEF InOrder, Numbered, Fresh
        <5> QED BY <2>3, <4>1, <5>2, <5>4
      <4>2. CASE m # n
        <5>1. m \in Node \ strayed /\ table'[m] = table[m]
          BY <2>1, <3>1, <3>2, <4>2
        <5> QED BY <2>3, <5>1 DEF Fresh
      <4> QED BY <4>1, <4>2
    <3> QED BY <2>1, <3>2 DEF Fresh
  <2> QED BY <2>2, <2>4, <2>5
<1>8. ASSUME NEW n \in Node, Overtake(n)
      PROVE  Fresh'
  <2>1. UNCHANGED <<table, answered, call>> /\ strayed' = strayed \cup {n}
    BY <1>8 DEF Overtake
  <2>2. \A m \in Node \ {n} : net'[m] = net[m]
    BY <1>8, OvertakeSwaps
  <2> QED BY <2>1, <2>2 DEF Fresh
<1>9. CASE Unreached \/ Replied \/ Expire
  BY <1>9, CallEnds, EndsFresh
<1>10. CASE UNCHANGED vars
  BY <1>1, <1>10 DEF vars
<1>11. CASE \E v \in Vpc : PostVpc(v) \/ DeleteVpc(v)
  BY <1>1, <1>11 DEF PostVpc, DeleteVpc
<1>12. CASE \E n \in Node : UnloadNode(n) \/ Restart(n)
  BY <1>1, <1>12 DEF UnloadNode, Restart
<1>13. CASE (\E ps \in Requests : Post(ps)) \/ \E p \in Port : DeletePort(p)
  BY <1>1, <1>13 DEF Post, DeletePort
<1>14. CASE CommitPorts \/ CommitEps \/ Finish
  BY <1>1, <1>14 DEF CommitPorts, CommitEps, Finish
<1>15. CASE OrphanEnds \/ Crash
  BY <1>1, <1>15 DEF OrphanEnds, Crash
<1> QED
  BY <1>2, <1>3, <1>4, <1>5, <1>6, <1>7, <1>8, <1>9, <1>10, <1>11, <1>12, <1>13, <1>14, <1>15
     DEF Next, Manager, Cli

\* NeverOlder: a map keeps what its daemon answered or newer, through copies sent again,
\* lost, left in the socket, batches cut short and CLIs that outlive their worker.
THEOREM NodesNeverOlder == Spec => []NeverOlder
<1>. DEFINE I == Shaped /\ Ahead /\ Numbered /\ InOrder /\ Fresh
<1>1. Init => I
  <2>. SUFFICES ASSUME Init PROVE I
    OBVIOUS
  <2>1. Ahead /\ Numbered /\ InOrder
    BY DEF Init, Ahead, Numbered, InOrder
  <2>2. Fresh
    BY DEF Init, Fresh, None
  <2> QED BY <2>1, <2>2, InitShaped
<1>2. I /\ [Next]_vars => I'
  BY ShapedStep, AheadStep, NumberedStep, InOrderStep, FreshStep
<1>3. I => NeverOlder
  BY DEF Fresh, NeverOlder
<1> QED BY <1>1, <1>2, <1>3, PTL DEF Spec

=============================================================================
