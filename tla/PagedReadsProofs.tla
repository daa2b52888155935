-------------------------- MODULE PagedReadsProofs --------------------------
(***************************************************************************)
(* Theorems about PagedReads, for every set of merchants, scanners,        *)
(* readers, page sizes and live rows.                                      *)
(***************************************************************************)
EXTENDS PagedReads, FiniteSetTheorems, WellFoundedInduction, NaturalsInduction, TLAPS

\* Rows and observations.
Row == [id : Nat \ {0}, merchant : Merchants, latest : Nat \ {0}]
Obs == [id : Nat \ {0}, incident : Nat \ {0}]

Txs == [Scanners -> [merchant : Merchants \cup {None}, incidents : SUBSET Row,
                     observations : SUBSET Obs]]

StoreTyped ==
  /\ incidents \in SUBSET Row
  /\ observations \in SUBSET Obs
  /\ feed \in SUBSET (Nat \ {0}) /\ \E n \in Nat : \A k \in feed : k <= n
  /\ lastIncident \in Nat /\ lastObservation \in Nat
  /\ lock \in [Merchants -> Scanners \cup {None}]
  /\ tx \in Txs

Bounds == Nat \cup {None}
Requests == [resource : Resources, limit : Nat, after : Nat, upper : Bounds, first : BOOLEAN]
Replies == [latest : Nat, items : SUBSET Nat, more : BOOLEAN, opening : Nat]
Cursors == [resource : Resources, upper : Bounds, after : Nat] \cup {None}
Traversals == [resource : Resources, goal : SUBSET Nat, sent : SUBSET Nat, done : BOOLEAN]

Labels == {"idle", "row", "upper", "page", "opening", "reply"}

ReadersTyped ==
  /\ pc \in [Readers -> Labels]
  /\ request \in [Readers -> Requests]
  /\ reply \in [Readers -> Replies]
  /\ cursor \in [Readers -> Cursors]
  /\ traversal \in [Readers -> Traversals]

-----------------------------------------------------------------------------
(* The inductive invariant.                                                *)

\* A scan works on the merchant whose lock it holds.
Serial ==
  /\ \A p \in Scanners, m \in Merchants : tx[p].merchant = m <=> lock[m] = p
  /\ \A p \in Scanners : tx[p].merchant = None => tx[p] = NoTx

\* Every row has its latest observation and every observation its row.
Linked(rows, obs) ==
  /\ \A row \in rows : row.id <= lastIncident
  /\ \A row \in rows : \E o \in obs : o.id = row.latest /\ o.incident = row.id
  /\ \A o \in obs : o.id <= lastObservation
  /\ \A o \in obs : \E row \in rows : row.id = o.incident

AllLinked ==
  /\ Linked(incidents, observations)
  /\ \A p \in Scanners : Linked(tx[p].incidents, tx[p].observations)
  /\ \A p \in Scanners : \A w \in tx[p].incidents : w.merchant = tx[p].merchant

\* The rows with one id are of one merchant.
Agree(rows, others) ==
  \A row \in rows, other \in others : row.id = other.id => row.merchant = other.merchant

Owned ==
  /\ Agree(incidents, incidents)
  /\ \A p \in Scanners : Agree(tx[p].incidents, incidents)
  /\ \A p, q \in Scanners : Agree(tx[p].incidents, tx[q].incidents)

\* What a scan adds comes after all that its merchant has.
Fresh ==
  \A p \in Scanners :
    /\ \A w \in tx[p].incidents : w.id \notin ListIds(tx[p].merchant) =>
         \A x \in ListIds(tx[p].merchant) : x < w.id
    /\ \A o \in tx[p].observations, x \in observations :
         (\E row \in incidents : row.id = x.incident /\ row.merchant = tx[p].merchant)
           => x.id < o.id

StoreInv == Serial /\ AllLinked /\ Owned /\ Fresh

\* No id up to the bound is still to be committed.
ListBound(m, u) ==
  /\ u <= lastIncident
  /\ \A p \in Scanners : \A w \in tx[p].incidents :
       w.merchant = m /\ w.id <= u => w.id \in ListIds(m)

DetailBound(m, i, u) ==
  /\ Found(m, i) # {}
  /\ u <= lastObservation
  /\ \A p \in Scanners : \A o \in tx[p].observations : o.incident = i => u < o.id

Bound(s, u) == IF s \in Lists THEN ListBound(s[2], u) ELSE DetailBound(s[2], s[3], u)

\* A cursor or request stands after a, below the captured bound u, in t.
Position(s, a, u, t) ==
  /\ t.resource = s
  /\ \A y \in t.sent : y <= a
  /\ \A x \in t.goal : x <= a => x \in t.sent
  /\ s = Feed => t.goal \subseteq feed
  /\ s # Feed => u \in Nat /\ Bound(s, u) /\ t.goal = {x \in Ids(s) : x <= u}
  /\ s \in Details => u \in Ids(s)

\* The page y of the request q.
PageOf(q, y, t) ==
  /\ \A x \in y.items :
       q.after < x /\ x \in Ids(q.resource) /\ (q.resource # Feed => x <= q.upper)
  /\ \A x \in t.goal, z \in y.items : q.after < x /\ x \notin y.items => z < x
  /\ ~y.more => \A x \in t.goal : q.after < x => x \in y.items
  /\ y.more => \E x \in y.items : IsMax(x, y.items)

CursorInv(r) ==
  cursor[r] # None =>
    Position(cursor[r].resource, cursor[r].after, cursor[r].upper, traversal[r])

Placed(r) == Position(request[r].resource, request[r].after, request[r].upper, traversal[r])

RequestInv(r) ==
  LET q == request[r]
      y == reply[r]
  IN
  /\ pc[r] # "idle" => q.limit # 0
  /\ pc[r] # "idle" /\ q.first => cursor[r] = None /\ q.after = 0
  /\ pc[r] \in {"row", "opening"} => q.resource \in Details
  /\ pc[r] = "row" => IF q.first THEN q.upper = None ELSE Placed(r)
  /\ pc[r] = "upper" => q.first /\ q.resource \in Histories
  /\ pc[r] = "page" => Placed(r) \/ (q.resource = Feed /\ q.first)
  /\ pc[r] \in {"opening", "reply"} => Placed(r) /\ PageOf(q, y, traversal[r])
  /\ pc[r] \in {"upper", "page", "opening", "reply"} /\ q.first /\ q.resource \in Details =>
       /\ y.latest \in Ids(q.resource)
       /\ pc[r] # "upper" => y.latest <= q.upper
  /\ pc[r] = "reply" /\ q.resource \in Details => IsMin(y.opening, Ids(q.resource))

ReadersInv == \A r \in Readers : CursorInv(r) /\ RequestInv(r)

Inv == StoreTyped /\ ReadersTyped /\ StoreInv /\ ReadersInv

-----------------------------------------------------------------------------
(* The resources.                                                          *)

\* A resource is the feed, a merchant's list or an incident's history.
LEMMA ResourceCases ==
  ASSUME NEW s \in Resources
  PROVE  \/ s = Feed /\ s \notin Lists /\ s \notin Details /\ Ids(s) = feed
         \/ \E m \in Merchants :
              s = List(m) /\ s # Feed /\ s \in Lists /\ s \notin Details
              /\ s[2] = m /\ Ids(s) = ListIds(m)
         \/ \E m \in Merchants, i \in 1..MaxIncidents :
              s = Detail(m, i) /\ s # Feed /\ s \notin Lists /\ s \in Details
              /\ s[2] = m /\ s[3] = i /\ Ids(s) = DetailIds(m, i)
<1>1. CASE s = Feed
  BY <1>1 DEF Feed, Lists, Details, List, Detail, Ids
<1>2. CASE s \in Lists
  BY <1>2 DEF Feed, Lists, Details, List, Detail, Ids
<1>3. CASE s \in Details
  BY <1>3 DEF Feed, Lists, Details, List, Detail, Ids
<1> QED BY <1>1, <1>2, <1>3 DEF Resources, Histories

LEMMA IdsTyped ==
  ASSUME StoreTyped, NEW s \in Resources
  PROVE  Ids(s) \in SUBSET Nat /\ 0 \notin Ids(s)
<1>1. feed \in SUBSET Nat /\ 0 \notin feed
  BY DEF StoreTyped
<1>2. \A m \in Merchants : ListIds(m) \in SUBSET Nat /\ 0 \notin ListIds(m)
  BY DEF StoreTyped, ListIds, Row
<1>3. \A m, i : DetailIds(m, i) \in SUBSET Nat /\ 0 \notin DetailIds(m, i)
  BY DEF StoreTyped, DetailIds, Obs
<1>4. CASE Ids(s) = feed
  BY <1>1, <1>4
<1>5. CASE \E m \in Merchants : Ids(s) = ListIds(m)
  BY <1>2, <1>5
<1>6. CASE \E m, i : Ids(s) = DetailIds(m, i)
  BY <1>3, <1>6
<1> QED BY <1>4, <1>5, <1>6, ResourceCases

LEMMA IdsBounded ==
  ASSUME StoreTyped, AllLinked, NEW s \in Resources
  PROVE  \E n \in Nat : \A x \in Ids(s) : x <= n
<1>1. \A m \in Merchants : \A x \in ListIds(m) : x <= lastIncident
  BY DEF StoreTyped, ListIds, Row, AllLinked, Linked
<1>2. \A m, i : \A x \in DetailIds(m, i) : x <= lastObservation
  BY DEF StoreTyped, DetailIds, Obs, AllLinked, Linked
<1>3. /\ lastIncident \in Nat /\ lastObservation \in Nat
      /\ \E n \in Nat : \A k \in feed : k <= n
  BY DEF StoreTyped
<1>4. CASE Ids(s) = feed
  BY <1>3, <1>4
<1>5. CASE \E m \in Merchants : Ids(s) = ListIds(m)
  BY <1>1, <1>3, <1>5
<1>6. CASE \E m, i : Ids(s) = DetailIds(m, i)
  BY <1>2, <1>3, <1>6
<1> QED BY <1>4, <1>5, <1>6, ResourceCases

-----------------------------------------------------------------------------
(* Lowest and highest elements.                                            *)

\* Natural numbers have a lowest, and bounded ones a highest.
LEMMA MinExists ==
  ASSUME NEW S \in SUBSET Nat, S # {}
  PROVE  \E x \in S : IsMin(x, S)
<1>1. S \subseteq Nat
  OBVIOUS
<1>2. \E x \in S : \A y \in S : ~ (<<y, x>> \in OpToRel(<, Nat))
  BY <1>1, WFMin, NatLessThanWellFounded, Zenon
<1>3. PICK x \in S : \A y \in S : ~ (<<y, x>> \in OpToRel(<, Nat))
  BY <1>2, Zenon
<1>4. \A y \in S : ~ (y < x)
  BY <1>1, <1>3, Zenon DEF OpToRel
<1>5. \A y \in S : x <= y
  BY <1>4
<1> QED BY <1>5 DEF IsMin

LEMMA MaxExists ==
  ASSUME NEW S \in SUBSET Nat, NEW n \in Nat, \A z \in S : z <= n, S # {}
  PROVE  \E x \in S : IsMax(x, S)
<1> DEFINE T == {n - x : x \in S}
<1>1. T \in SUBSET Nat /\ T # {}
  <2>1. \A x \in S : n - x \in Nat
    OBVIOUS
  <2>2. PICK x \in S : TRUE
    OBVIOUS
  <2>3. n - x \in T
    OBVIOUS
  <2> QED BY <2>1, <2>3
<1>2. PICK t \in T : IsMin(t, T)
  BY <1>1, MinExists
<1>3. PICK x \in S : t = n - x
  OBVIOUS
<1>4. ASSUME NEW y \in S PROVE y <= x
  <2>1. n - y \in T
    OBVIOUS
  <2>2. n - x <= n - y
    BY <1>2, <1>3, <2>1 DEF IsMin
  <2>3. x \in Nat /\ y \in Nat
    OBVIOUS
  <2> QED BY <2>2, <2>3
<1> QED BY <1>4 DEF IsMax

LEMMA PartFinite ==
  ASSUME NEW S \in SUBSET Nat, NEW n \in Nat, \A z \in S : z <= n, NEW T \in SUBSET S
  PROVE  IsFiniteSet(T) /\ Cardinality(T) \in Nat
<1>1. T \in SUBSET Nat /\ \A z \in T : z <= n
  OBVIOUS
<1>2. IsFiniteSet(T)
  BY <1>1, FS_BoundedSetOfNaturals
<1> QED BY <1>2, FS_CardinalityType

\* Lowest takes a prefix of the order.
LEMMA LowestBelow ==
  ASSUME NEW S \in SUBSET Nat, NEW n \in Nat, \A z \in S : z <= n, NEW k \in Nat,
         NEW x \in S, x \notin Lowest(S, k), NEW y \in Lowest(S, k)
  PROVE  y < x
<1> DEFINE B(z) == {w \in S : w < z}
<1>1. y \in S /\ Cardinality(B(y)) < k /\ ~(Cardinality(B(x)) < k)
  BY DEF Lowest
<1>2. B(y) \in SUBSET S /\ B(x) \in SUBSET S
  OBVIOUS
<1>3. IsFiniteSet(B(y)) /\ Cardinality(B(y)) \in Nat /\ Cardinality(B(x)) \in Nat
  BY <1>2, PartFinite
<1>4. SUFFICES ASSUME ~(y < x) PROVE FALSE
  OBVIOUS
<1>5. B(x) \in SUBSET B(y)
  <2>1. ASSUME NEW w \in B(x) PROVE w \in S /\ w < y
    <3>1. w \in Nat /\ x \in Nat /\ y \in Nat /\ w < x
      BY <1>1
    <3> QED BY <1>4, <3>1
  <2> QED BY <2>1
<1>6. Cardinality(B(x)) <= Cardinality(B(y))
  BY <1>3, <1>5, FS_Subset
<1> HIDE DEF B
<1> QED BY <1>1, <1>3, <1>6

\* One element more shows whether Lowest takes all.
LEMMA LowestAll ==
  ASSUME NEW S \in SUBSET Nat, NEW n \in Nat, \A z \in S : z <= n, NEW k \in Nat,
         ~(Cardinality(Lowest(S, k + 1)) > k)
  PROVE  S \subseteq Lowest(S, k)
<1> DEFINE R == S \ Lowest(S, k)
           B(z) == {w \in S : w < z}
<1>1. SUFFICES ASSUME R # {} PROVE FALSE
  OBVIOUS
<1>2. R \in SUBSET Nat
  OBVIOUS
<1>3. PICK x \in R : IsMin(x, R)
  BY <1>1, <1>2, MinExists
<1>4. ASSUME NEW w \in B(x) PROVE w \in Lowest(S, k)
  <2>1. w \in Nat /\ x \in Nat /\ w \in S /\ w < x
    OBVIOUS
  <2> QED BY <1>3, <2>1 DEF IsMin
<1>5. \A z : B(z) \in SUBSET S
  OBVIOUS
<1>6. \A z : IsFiniteSet(B(z)) /\ Cardinality(B(z)) \in Nat
  BY <1>5, PartFinite
<1>7. ~(Cardinality(B(x)) < k)
  BY DEF Lowest
<1>8. Cardinality(B(x)) <= k
  <2>1. CASE B(x) = {}
    BY <2>1, FS_EmptySet
  <2>2. CASE B(x) # {}
    <3>1. B(x) \in SUBSET Nat /\ \A z \in B(x) : z <= n
      OBVIOUS
    <3>2. PICK b \in B(x) : IsMax(b, B(x))
      BY <2>2, <3>1, MaxExists
    <3>3. B(x) = B(b) \cup {b}
      <4>1. b \in Nat /\ x \in Nat /\ b \in S /\ b < x
        BY <3>2
      <4>2. ASSUME NEW w \in S PROVE w < x <=> w < b \/ w = b
        <5>1. w \in Nat /\ (w < x => w <= b)
          BY <3>2 DEF IsMax
        <5> QED BY <4>1, <5>1
      <4> QED BY <4>1, <4>2
    <3>4. Cardinality(B(b)) < k
      BY <1>4, <3>2 DEF Lowest
    <3>5. Cardinality(B(b) \cup {b}) = Cardinality(B(b)) \/ Cardinality(B(b) \cup {b}) = Cardinality(B(b)) + 1
      BY <1>6, FS_AddElement
    <3>6. Cardinality(B(b)) \in Nat
      BY <1>6
    <3> HIDE DEF B
    <3> QED BY <3>3, <3>4, <3>5, <3>6
  <2> QED BY <2>1, <2>2
<1>9. B(x) \cup {x} \subseteq Lowest(S, k + 1)
  <2>1. x \in Lowest(S, k + 1)
    <3>1. Cardinality(B(x)) < k + 1
      <4>1. Cardinality(B(x)) \in Nat
        BY <1>6
      <4> HIDE DEF B
      <4> QED BY <1>8, <4>1
    <3> QED BY <3>1 DEF Lowest
  <2>2. ASSUME NEW z \in Lowest(S, k) PROVE z \in Lowest(S, k + 1)
    <3>1. Cardinality(B(z)) < k
      BY DEF Lowest
    <3>2. Cardinality(B(z)) < k + 1
      <4>1. Cardinality(B(z)) \in Nat
        BY <1>6
      <4> HIDE DEF B
      <4> QED BY <3>1, <4>1
    <3>3. z \in S
      BY DEF Lowest
    <3> QED BY <3>2, <3>3 DEF Lowest
  <2> QED BY <1>4, <2>1, <2>2
<1>10. Cardinality(B(x) \cup {x}) = Cardinality(B(x)) + 1
  <2>1. x \notin B(x)
    OBVIOUS
  <2> QED BY <1>6, <2>1, FS_AddElement
<1>11. Lowest(S, k + 1) \in SUBSET S
  BY DEF Lowest
<1>12. IsFiniteSet(Lowest(S, k + 1)) /\ Cardinality(Lowest(S, k + 1)) \in Nat
  BY <1>11, PartFinite
<1>13. Cardinality(B(x) \cup {x}) <= Cardinality(Lowest(S, k + 1))
  BY <1>9, <1>12, FS_Subset
<1>14. Cardinality(B(x)) \in Nat
  BY <1>6
<1> HIDE DEF B
<1> QED BY <1>7, <1>10, <1>12, <1>13, <1>14

\* A page that is followed by another has a last row to stand its cursor at.
LEMMA LowestSome ==
  ASSUME NEW S \in SUBSET Nat, NEW n \in Nat, \A z \in S : z <= n, NEW k \in Nat \ {0},
         Cardinality(Lowest(S, k + 1)) > k
  PROVE  \E x \in Lowest(S, k) : IsMax(x, Lowest(S, k))
<1>1. S # {}
  <2>1. SUFFICES ASSUME S = {} PROVE FALSE
    OBVIOUS
  <2>2. Lowest(S, k + 1) = {}
    BY <2>1 DEF Lowest
  <2>3. Cardinality({}) > k
    BY <2>2
  <2> QED BY <2>3, FS_EmptySet
<1>2. PICK x \in S : IsMin(x, S)
  BY <1>1, MinExists
<1>3. {w \in S : w < x} = {}
  <2>1. ASSUME NEW w \in S PROVE ~(w < x)
    <3>1. w \in Nat /\ x \in Nat /\ x <= w
      BY <1>2 DEF IsMin
    <3> QED BY <3>1
  <2> QED BY <2>1
<1>4. Cardinality({w \in S : w < x}) < k
  BY <1>3, FS_EmptySet
<1>5. x \in Lowest(S, k)
  BY <1>4 DEF Lowest
<1>6. Lowest(S, k) \in SUBSET Nat /\ \A z \in Lowest(S, k) : z <= n
  BY DEF Lowest
<1> QED BY <1>5, <1>6, MaxExists

-----------------------------------------------------------------------------
(* The store.                                                              *)

\* The scan p may have written anything it is typed to have written.
LEMMA TxTyped ==
  ASSUME StoreTyped, NEW p \in Scanners
  PROVE  /\ tx[p].merchant \in Merchants \cup {None}
         /\ tx[p].incidents \in SUBSET Row
         /\ tx[p].observations \in SUBSET Obs
BY DEF StoreTyped, Txs

LEMMA StoreInit == Init => StoreTyped /\ StoreInv
<1> SUFFICES ASSUME Init PROVE StoreTyped /\ StoreInv
  OBVIOUS
<1>1. StoreTyped
  <2>1. \E n \in Nat : \A k \in feed : k <= n
    <3>1. \A k \in feed : k <= 0
      BY DEF Init
    <3> QED BY <3>1
  <2> QED BY <2>1 DEF Init, StoreTyped, Txs, NoTx
<1>2. Serial
  BY NoneAssumption DEF Init, Serial, NoTx
<1>3. AllLinked
  BY DEF Init, AllLinked, Linked, NoTx
<1>4. Owned
  BY DEF Init, Owned, Agree, NoTx
<1>5. Fresh
  BY DEF Init, Fresh, NoTx
<1> QED BY <1>1, <1>2, <1>3, <1>4, <1>5 DEF StoreInv

\* A scan adds a row and an observation to what it has written.
AddsTo(p, w, o) ==
  tx' = [tx EXCEPT ![p].incidents = @ \cup {w}, ![p].observations = @ \cup {o}]

LEMMA Adding ==
  ASSUME tx \in Txs, NEW p \in Scanners, NEW w \in Row, NEW o \in Obs, AddsTo(p, w, o)
  PROVE  /\ tx' \in Txs
         /\ \A q \in Scanners : q # p => tx'[q] = tx[q]
         /\ tx'[p].merchant = tx[p].merchant
         /\ tx'[p].incidents = tx[p].incidents \cup {w}
         /\ tx'[p].observations = tx[p].observations \cup {o}
<1> DEFINE R == [merchant : Merchants \cup {None}, incidents : SUBSET Row,
                 observations : SUBSET Obs]
           new == [merchant |-> tx[p].merchant, incidents |-> tx[p].incidents \cup {w},
                   observations |-> tx[p].observations \cup {o}]
<1>1. tx[p] \in R
  BY DEF Txs
<1>2. tx' = [tx EXCEPT ![p] = new]
  <2>1. tx' = [q \in Scanners |-> IF q = p THEN tx'[p] ELSE tx[q]]
    BY DEF AddsTo, Txs
  <2>2. tx'[p] = [tx[p] EXCEPT !.incidents = @ \cup {w}, !.observations = @ \cup {o}]
    BY DEF AddsTo, Txs
  <2>3. tx'[p] = new
    BY <1>1, <2>2
  <2> QED BY <2>1, <2>3 DEF Txs
<1>3. new \in R
  BY <1>1
<1>4. tx' \in Txs
  BY <1>2, <1>3 DEF Txs
<1>5. tx'[p] = new
  BY <1>2 DEF Txs
<1>6. \A q \in Scanners : q # p => tx'[q] = tx[q]
  BY <1>2 DEF Txs
<1> QED BY <1>4, <1>5, <1>6

LEMMA Locking ==
  ASSUME StoreTyped, NEW p \in Scanners, LockMerchant(p)
  PROVE  \E m \in Merchants :
           /\ lock[m] = None /\ lock' = [lock EXCEPT ![m] = p]
           /\ tx' \in Txs
           /\ tx[p] = NoTx
           /\ tx'[p] = [merchant |-> m, incidents |-> {}, observations |-> {}]
           /\ \A q \in Scanners : q # p => tx'[q] = tx[q]
<1>1. PICK m \in Merchants :
        /\ lock[m] = None /\ lock' = [lock EXCEPT ![m] = p]
        /\ tx' = [tx EXCEPT ![p].merchant = m]
  BY DEF LockMerchant
<1> DEFINE new == [merchant |-> m, incidents |-> {}, observations |-> {}]
<1>2. tx[p] = NoTx /\ tx \in Txs
  BY DEF LockMerchant, StoreTyped, Txs
<1>3. tx' = [tx EXCEPT ![p] = new]
  <2>1. tx' = [q \in Scanners |-> IF q = p THEN tx'[p] ELSE tx[q]]
    BY <1>1, <1>2 DEF Txs
  <2>2. tx'[p] = [tx[p] EXCEPT !.merchant = m]
    BY <1>1, <1>2 DEF Txs
  <2>3. tx'[p] = new
    BY <1>2, <2>2 DEF NoTx
  <2> QED BY <1>2, <2>1, <2>3 DEF Txs
<1>4. new \in [merchant : Merchants \cup {None}, incidents : SUBSET Row,
               observations : SUBSET Obs]
  OBVIOUS
<1>5. tx' \in Txs
  BY <1>2, <1>3, <1>4 DEF Txs
<1>6. tx'[p] = new /\ \A q \in Scanners : q # p => tx'[q] = tx[q]
  BY <1>2, <1>3 DEF Txs
<1> QED BY <1>1, <1>2, <1>5, <1>6

LEMMA Creating ==
  ASSUME StoreTyped, NEW p \in Scanners, CreateIncident(p)
  PROVE  \E w \in Row, o \in Obs :
           /\ tx[p].merchant \in Merchants
           /\ AddsTo(p, w, o)
           /\ w.id = lastIncident + 1 /\ w.merchant = tx[p].merchant /\ w.latest = o.id
           /\ o.id = lastObservation + 1 /\ o.incident = w.id
<1> DEFINE w == Incident(lastIncident', tx[p].merchant, lastObservation')
           o == Observation(lastObservation', lastIncident')
<1>1. /\ lastIncident' \in Nat \ {0} /\ lastObservation' \in Nat \ {0}
      /\ tx[p].merchant \in Merchants
  BY TxTyped DEF CreateIncident, StoreTyped
<1>2. w \in Row /\ o \in Obs
  BY <1>1 DEF Incident, Observation, Row, Obs
<1>3. AddsTo(p, w, o)
  BY DEF CreateIncident, AddsTo
<1>4. /\ w.id = lastIncident + 1 /\ w.merchant = tx[p].merchant /\ w.latest = o.id
      /\ o.id = lastObservation + 1 /\ o.incident = w.id
  BY DEF CreateIncident, Incident, Observation
<1> QED BY <1>1, <1>2, <1>3, <1>4

LEMMA Updating ==
  ASSUME StoreTyped, NEW p \in Scanners, UpdateIncident(p)
  PROVE  \E w \in Row, o \in Obs, row \in incidents :
           /\ tx[p].merchant \in Merchants
           /\ AddsTo(p, w, o)
           /\ row.merchant = tx[p].merchant
           /\ w.id = row.id /\ w.merchant = row.merchant /\ w.latest = o.id
           /\ o.id = lastObservation + 1 /\ o.incident = w.id
<1>1. PICK row \in incidents :
        /\ row.merchant = tx[p].merchant
        /\ tx' = [tx EXCEPT
             ![p].incidents = @ \cup {Incident(row.id, row.merchant, lastObservation')},
             ![p].observations = @ \cup {Observation(lastObservation', row.id)}]
  BY DEF UpdateIncident
<1> DEFINE w == Incident(row.id, row.merchant, lastObservation')
           o == Observation(lastObservation', row.id)
<1>2. lastObservation' \in Nat \ {0} /\ tx[p].merchant \in Merchants
  BY TxTyped DEF UpdateIncident, StoreTyped
<1>3. w \in Row /\ o \in Obs
  BY <1>2 DEF StoreTyped, Incident, Observation, Row, Obs
<1>4. AddsTo(p, w, o)
  BY <1>1 DEF AddsTo
<1>5. /\ w.id = row.id /\ w.merchant = row.merchant /\ w.latest = o.id
      /\ o.id = lastObservation + 1 /\ o.incident = w.id
  BY DEF UpdateIncident, Incident, Observation
<1> QED BY <1>1, <1>2, <1>3, <1>4, <1>5

LEMMA Ending ==
  ASSUME StoreTyped, NEW p \in Scanners, Commit(p) \/ Rollback(p)
  PROVE  /\ tx' \in Txs
         /\ tx[p].merchant \in Merchants
         /\ tx'[p] = NoTx
         /\ \A q \in Scanners : q # p => tx'[q] = tx[q]
         /\ lock' = [m \in Merchants |-> IF lock[m] = p THEN None ELSE lock[m]]
<1>1. tx' = [tx EXCEPT ![p] = NoTx] /\ tx \in Txs
  BY DEF Commit, Rollback, StoreTyped, Txs
<1>2. NoTx \in [merchant : Merchants \cup {None}, incidents : SUBSET Row,
                observations : SUBSET Obs]
  BY DEF NoTx
<1>3. tx' \in Txs
  BY <1>1, <1>2 DEF Txs
<1>4. tx'[p] = NoTx /\ \A q \in Scanners : q # p => tx'[q] = tx[q]
  BY <1>1 DEF Txs
<1>5. tx[p].merchant \in Merchants
  BY TxTyped DEF Commit, Rollback
<1>6. lock' = [m \in Merchants |-> IF lock[m] = p THEN None ELSE lock[m]]
  BY DEF Commit, Rollback, Unlock
<1> QED BY <1>3, <1>4, <1>5, <1>6

LEMMA ScanTyped ==
  ASSUME StoreTyped, NEW p \in Scanners, Scan(p)
  PROVE  StoreTyped'
<1>1. tx \in Txs
  BY DEF StoreTyped, Txs
<1>2. CASE LockMerchant(p)
  <2>1. tx' \in Txs /\ lock' \in [Merchants -> Scanners \cup {None}]
    BY <1>2, Locking DEF StoreTyped
  <2> QED BY <1>2, <2>1 DEF LockMerchant, StoreTyped, Txs, db
<1>3. CASE CreateIncident(p)
  <2>1. tx' \in Txs
    BY <1>1, <1>3, Creating, Adding
  <2> QED BY <1>3, <2>1 DEF CreateIncident, StoreTyped, Txs, db
<1>4. CASE UpdateIncident(p)
  <2>1. tx' \in Txs
    BY <1>1, <1>4, Updating, Adding
  <2> QED BY <1>4, <2>1 DEF UpdateIncident, StoreTyped, Txs, db
<1>5. CASE Commit(p) \/ Rollback(p)
  <2>1. tx' \in Txs
    BY <1>5, Ending
  <2>2. lock' \in [Merchants -> Scanners \cup {None}]
    BY <1>5, Ending DEF StoreTyped
  <2>3. incidents' \in SUBSET Row /\ observations' \in SUBSET Obs
    BY <1>5, TxTyped DEF StoreTyped, Commit, Rollback, db
  <2> QED BY <1>5, <2>1, <2>2, <2>3 DEF Commit, Rollback, StoreTyped, Txs, db
<1> QED BY <1>2, <1>3, <1>4, <1>5 DEF Scan

LEMMA AppendTyped ==
  ASSUME StoreTyped, AppendLive
  PROVE  StoreTyped'
<1>1. PICK k \in FeedKeys : feed' = feed \cup {k}
  BY DEF AppendLive
<1>2. PICK n \in Nat : \A x \in feed : x <= n
  BY DEF StoreTyped
<1>3. k \in Nat \ {0}
  BY KeyAssumption
<1>4. feed' \in SUBSET (Nat \ {0})
  BY <1>1, <1>3 DEF StoreTyped
<1>5. \E z \in Nat : \A x \in feed' : x <= z
  <2>1. CASE k <= n
    <3>1. \A x \in feed' : x <= n
      BY <1>1, <1>2, <2>1
    <3> QED BY <3>1
  <2>2. CASE ~(k <= n)
    <3>1. \A x \in feed : x \in Nat
      BY DEF StoreTyped
    <3>2. \A x \in feed' : x <= k
      BY <1>1, <1>2, <1>3, <2>2, <3>1
    <3> QED BY <1>3, <3>2
  <2> QED BY <2>1, <2>2
<1> QED BY <1>4, <1>5 DEF AppendLive, writers, StoreTyped

LEMMA SerialStep ==
  ASSUME StoreTyped, Serial, NEW p \in Scanners, Scan(p)
  PROVE  Serial'
<1>1. tx \in Txs /\ lock \in [Merchants -> Scanners \cup {None}]
  BY DEF StoreTyped, Txs
<1>2. \A q \in Scanners : q # None
  BY NoneAssumption
<1>3. CASE LockMerchant(p)
  <2>1. PICK m \in Merchants :
          /\ lock[m] = None /\ lock' = [lock EXCEPT ![m] = p]
          /\ tx[p] = NoTx
          /\ tx'[p] = [merchant |-> m, incidents |-> {}, observations |-> {}]
          /\ \A q \in Scanners : q # p => tx'[q] = tx[q]
    BY <1>3, Locking
  <2>2. \A n \in Merchants : lock[n] # p
    BY <2>1, NoneAssumption DEF Serial, NoTx
  <2>3. \A n \in Merchants : lock'[n] = IF n = m THEN p ELSE lock[n]
    BY <1>1, <2>1
  <2>4. m # None
    BY NoneAssumption
  <2>5. tx'[p].merchant = m
    BY <2>1
  <2>6. ASSUME NEW q \in Scanners, NEW n \in Merchants
        PROVE tx'[q].merchant = n <=> lock'[n] = q
    <3>1. CASE q = p
      BY <2>2, <2>3, <2>5, <3>1
    <3>2. CASE q # p
      BY <1>2, <2>1, <2>3, <3>2 DEF Serial
    <3> QED BY <3>1, <3>2
  <2>7. ASSUME NEW q \in Scanners, tx'[q].merchant = None PROVE tx'[q] = NoTx
    BY <2>1, <2>4, <2>5, <2>7 DEF Serial
  <2> QED BY <2>6, <2>7 DEF Serial
<1>4. CASE CreateIncident(p) \/ UpdateIncident(p)
  <2>1. PICK w \in Row, o \in Obs : AddsTo(p, w, o)
    BY <1>4, Creating, Updating
  <2>2. \A q \in Scanners : tx'[q].merchant = tx[q].merchant /\ (q # p => tx'[q] = tx[q])
    BY <1>1, <2>1, Adding
  <2>3. tx[p].merchant # None /\ lock' = lock
    BY <1>4 DEF CreateIncident, UpdateIncident
  <2> QED BY <2>2, <2>3 DEF Serial
<1>5. CASE Commit(p) \/ Rollback(p)
  <2>1. /\ tx'[p] = NoTx
        /\ \A q \in Scanners : q # p => tx'[q] = tx[q]
        /\ lock' = [m \in Merchants |-> IF lock[m] = p THEN None ELSE lock[m]]
    BY <1>5, Ending
  <2>2. ASSUME NEW q \in Scanners, NEW n \in Merchants
        PROVE tx'[q].merchant = n <=> lock'[n] = q
    BY <1>2, <2>1, NoneAssumption DEF Serial, NoTx
  <2>3. ASSUME NEW q \in Scanners, tx'[q].merchant = None PROVE tx'[q] = NoTx
    BY <2>1, <2>3 DEF Serial
  <2> QED BY <2>2, <2>3 DEF Serial
<1> QED BY <1>3, <1>4, <1>5 DEF Scan

\* What every step of a scan does, whichever it is: it may add one row and one
\* observation to what it has written, of its merchant, of which either the
\* row is new or its id is that of a committed row; or it ends.
Writes(p, w, o) ==
  /\ w \in Row /\ o \in Obs
  /\ tx[p].merchant \in Merchants
  /\ AddsTo(p, w, o)
  /\ UNCHANGED <<incidents, observations, feed>>
  /\ w.merchant = tx[p].merchant /\ w.latest = o.id /\ o.incident = w.id
  /\ o.id = lastObservation + 1 /\ lastObservation' = lastObservation + 1
  /\ \/ w.id = lastIncident + 1 /\ lastIncident' = lastIncident + 1
     \/ /\ lastIncident' = lastIncident
        /\ \E row \in incidents : w.id = row.id /\ w.merchant = row.merchant

Locks(p) ==
  /\ UNCHANGED <<incidents, observations, feed, lastIncident, lastObservation>>
  /\ \E m \in Merchants : tx'[p] = [merchant |-> m, incidents |-> {}, observations |-> {}]
  /\ tx[p] = NoTx
  /\ \A q \in Scanners : q # p => tx'[q] = tx[q]

Ends(p) ==
  /\ tx[p].merchant \in Merchants
  /\ tx'[p] = NoTx
  /\ \A q \in Scanners : q # p => tx'[q] = tx[q]
  /\ UNCHANGED <<feed, lastIncident, lastObservation>>
  /\ \/ UNCHANGED <<incidents, observations>>
     \/ /\ incidents' = {row \in incidents : \A w \in tx[p].incidents : w.id # row.id}
                         \cup tx[p].incidents
        /\ observations' = observations \cup tx[p].observations

LEMMA ScanCases ==
  ASSUME StoreTyped, NEW p \in Scanners, Scan(p)
  PROVE  Locks(p) \/ (\E w, o : Writes(p, w, o)) \/ Ends(p)
<1>1. CASE LockMerchant(p)
  BY <1>1, Locking DEF Locks, LockMerchant, db
<1>2. CASE CreateIncident(p)
  <2>1. PICK w \in Row, o \in Obs :
           /\ tx[p].merchant \in Merchants
           /\ AddsTo(p, w, o)
           /\ w.id = lastIncident + 1 /\ w.merchant = tx[p].merchant /\ w.latest = o.id
           /\ o.id = lastObservation + 1 /\ o.incident = w.id
    BY <1>2, Creating
  <2>2. Writes(p, w, o)
    BY <1>2, <2>1 DEF Writes, CreateIncident, db
  <2> QED BY <2>2
<1>3. CASE UpdateIncident(p)
  <2>1. PICK w \in Row, o \in Obs, row \in incidents :
           /\ tx[p].merchant \in Merchants
           /\ AddsTo(p, w, o)
           /\ row.merchant = tx[p].merchant
           /\ w.id = row.id /\ w.merchant = row.merchant /\ w.latest = o.id
           /\ o.id = lastObservation + 1 /\ o.incident = w.id
    BY <1>3, Updating
  <2>2. Writes(p, w, o)
    BY <1>3, <2>1 DEF Writes, UpdateIncident, db
  <2> QED BY <2>2
<1>4. CASE Commit(p)
  BY <1>4, Ending DEF Ends, Commit
<1>5. CASE Rollback(p)
  BY <1>5, Ending DEF Ends, Rollback, db
<1> QED BY <1>1, <1>2, <1>3, <1>4, <1>5 DEF Scan

LEMMA Written ==
  ASSUME StoreTyped, NEW p \in Scanners, NEW w, NEW o, Writes(p, w, o)
  PROVE  /\ \A q \in Scanners : q # p => tx'[q] = tx[q]
         /\ tx'[p].merchant = tx[p].merchant
         /\ tx'[p].incidents = tx[p].incidents \cup {w}
         /\ tx'[p].observations = tx[p].observations \cup {o}
<1>1. tx \in Txs /\ w \in Row /\ o \in Obs /\ AddsTo(p, w, o)
  BY DEF StoreTyped, Txs, Writes
<1> QED BY <1>1, Adding

LEMMA LinkedLater ==
  ASSUME NEW rows \in SUBSET Row, NEW obs \in SUBSET Obs, Linked(rows, obs), StoreTyped,
         StoreTyped', lastIncident <= lastIncident', lastObservation <= lastObservation'
  PROVE  Linked(rows, obs)'
<1>1. /\ lastIncident \in Nat /\ lastIncident' \in Nat
      /\ lastObservation \in Nat /\ lastObservation' \in Nat
  BY DEF StoreTyped
<1>2. ASSUME NEW row \in rows PROVE row.id <= lastIncident'
  <2>1. row.id \in Nat /\ row.id <= lastIncident
    BY DEF Linked, Row
  <2> QED BY <1>1, <2>1
<1>3. ASSUME NEW o \in obs PROVE o.id <= lastObservation'
  <2>1. o.id \in Nat /\ o.id <= lastObservation
    BY DEF Linked, Obs
  <2> QED BY <1>1, <2>1
<1> QED BY <1>2, <1>3 DEF Linked

\* Rows and observations stay linked whatever a scan does, failing included.
LEMMA LinkedStep ==
  ASSUME StoreTyped, StoreTyped', AllLinked, NEW p \in Scanners, Scan(p)
  PROVE  AllLinked'
<1>1. CASE Locks(p)
  <2>1. /\ lastIncident \in Nat /\ lastObservation \in Nat
        /\ \A q \in Scanners : /\ tx[q].incidents \in SUBSET Row
                               /\ tx[q].observations \in SUBSET Obs
    BY TxTyped DEF StoreTyped
  <2>2. Linked({}, {})'
    BY DEF Linked
  <2>3. \A q \in Scanners : Linked(tx[q].incidents, tx[q].observations)'
    BY <1>1, <2>2 DEF Locks, AllLinked, Linked
  <2>4. \A q \in Scanners : \A w \in tx'[q].incidents : w.merchant = tx'[q].merchant
    BY <1>1 DEF Locks, AllLinked
  <2> QED BY <1>1, <2>3, <2>4 DEF AllLinked, Linked, Locks
<1>2. CASE \E w, o : Writes(p, w, o)
  <2>1. PICK w, o : Writes(p, w, o)
    BY <1>2
  <2>2. /\ lastIncident <= lastIncident' /\ lastObservation <= lastObservation'
        /\ lastIncident \in Nat /\ lastObservation \in Nat
        /\ w \in Row /\ o \in Obs
    BY <2>1 DEF Writes, StoreTyped
  <2>3. \A q \in Scanners : Linked(tx[q].incidents, tx[q].observations)
    BY DEF AllLinked
  <2>4. \A rows \in SUBSET Row, obs \in SUBSET Obs : Linked(rows, obs) => Linked(rows, obs)'
    BY <2>2, LinkedLater
  <2>5. Linked(incidents, observations)'
    BY <2>1, <2>4 DEF Writes, AllLinked, StoreTyped, Linked
  <2>6. ASSUME NEW q \in Scanners, q # p
        PROVE  Linked(tx[q].incidents, tx[q].observations)'
    <3>1. tx'[q] = tx[q]
      BY <2>1, <2>6, Written
    <3>2. PICK rows \in SUBSET Row, obs \in SUBSET Obs :
            rows = tx[q].incidents /\ obs = tx[q].observations
      BY TxTyped
    <3>3. Linked(rows, obs)'
      BY <2>3, <2>4, <3>2
    <3> QED BY <3>1, <3>2, <3>3 DEF Linked
  <2>7. Linked(tx[p].incidents, tx[p].observations)'
    <3>1. /\ tx'[p].incidents = tx[p].incidents \cup {w}
          /\ tx'[p].observations = tx[p].observations \cup {o}
      BY <2>1, Written
    <3>2. w.id <= lastIncident'
      <4>1. CASE w.id = lastIncident + 1 /\ lastIncident' = lastIncident + 1
        BY <2>2, <4>1
      <4>2. CASE \E row \in incidents : w.id = row.id
        BY <2>1, <2>5, <4>2 DEF Writes, Linked
      <4> QED BY <2>1, <4>1, <4>2 DEF Writes
    <3>3. o.id = lastObservation' /\ w.latest = o.id /\ o.incident = w.id
      BY <2>1 DEF Writes
    <3>4. o.id <= lastObservation'
      BY <2>2, <3>3 DEF Obs
    <3> DEFINE rows == tx[p].incidents
               obs == tx[p].observations
    <3>7. /\ \A x \in rows : x.id <= lastIncident'
          /\ \A x \in rows : \E y \in obs : y.id = x.latest /\ y.incident = x.id
          /\ \A y \in obs : y.id <= lastObservation'
          /\ \A y \in obs : \E x \in rows : x.id = y.incident
      <4>1. Linked(rows, obs)
        BY <2>3
      <4>2. rows \in SUBSET Row /\ obs \in SUBSET Obs
        BY TxTyped
      <4>3. lastIncident' \in Nat /\ lastObservation' \in Nat
        BY DEF StoreTyped
      <4> HIDE DEF rows, obs
      <4>4. \A x \in rows : x.id \in Nat /\ x.id <= lastIncident
        BY <4>1, <4>2 DEF Linked, Row
      <4>5. \A y \in obs : y.id \in Nat /\ y.id <= lastObservation
        BY <4>1, <4>2 DEF Linked, Obs
      <4>6. \A x \in rows : x.id <= lastIncident'
        BY <2>2, <4>3, <4>4
      <4>7. \A y \in obs : y.id <= lastObservation'
        BY <2>2, <4>3, <4>5
      <4> QED BY <4>1, <4>6, <4>7 DEF Linked
    <3> QED BY <3>1, <3>2, <3>3, <3>4, <3>7 DEF Linked
  <2>8. ASSUME NEW q \in Scanners
        PROVE  \A x \in tx'[q].incidents : x.merchant = tx'[q].merchant
    <3>1. tx[p].merchant = w.merchant
      BY <2>1 DEF Writes
    <3> QED BY <2>1, <3>1, Written DEF AllLinked
  <2> QED BY <2>5, <2>6, <2>7, <2>8 DEF AllLinked
<1>3. CASE Ends(p)
  <2>1. Linked(incidents, observations) /\ Linked(tx[p].incidents, tx[p].observations)
    BY DEF AllLinked
  <2>2. Linked(incidents, observations)'
    <3>1. CASE UNCHANGED <<incidents, observations>>
      BY <1>3, <2>1, <3>1 DEF Ends, Linked
    <3>2. CASE /\ incidents' = {row \in incidents : \A w \in tx[p].incidents : w.id # row.id}
                                \cup tx[p].incidents
               /\ observations' = observations \cup tx[p].observations
      <4>1. \A row \in incidents' : row \in incidents \/ row \in tx[p].incidents
        BY <3>2
      <4>2. \A row \in incidents : \E other \in incidents' : other.id = row.id
        BY <3>2
      <4>3. \A row \in incidents' : row.id <= lastIncident'
        BY <1>3, <2>1, <4>1 DEF Ends, Linked
      <4>4. \A row \in incidents' : \E o \in observations' :
              o.id = row.latest /\ o.incident = row.id
        BY <2>1, <3>2, <4>1 DEF Linked
      <4>5. \A o \in observations' : o.id <= lastObservation'
        BY <1>3, <2>1, <3>2 DEF Ends, Linked
      <4>6. \A o \in observations' : \E row \in incidents' : row.id = o.incident
        BY <2>1, <3>2, <4>2 DEF Linked
      <4> QED BY <4>3, <4>4, <4>5, <4>6 DEF Linked
    <3> QED BY <1>3, <3>1, <3>2 DEF Ends
  <2>3. \A q \in Scanners : Linked(tx[q].incidents, tx[q].observations)'
    BY <1>3 DEF Ends, AllLinked, Linked, NoTx
  <2>4. \A q \in Scanners : \A w \in tx'[q].incidents : w.merchant = tx'[q].merchant
    BY <1>3 DEF Ends, AllLinked, NoTx
  <2> QED BY <2>2, <2>3, <2>4 DEF AllLinked
<1> QED BY <1>1, <1>2, <1>3, ScanCases

\* An id never comes to stand for incidents of two merchants.
LEMMA OwnedStep ==
  ASSUME StoreTyped, Owned, AllLinked, NEW p \in Scanners, Scan(p)
  PROVE  Owned'
<1>1. CASE Locks(p)
  <2>1. tx'[p].incidents = {} /\ \A q \in Scanners : q # p => tx'[q] = tx[q]
    BY <1>1 DEF Locks
  <2>2. incidents' = incidents
    BY <1>1 DEF Locks
  <2>3. Agree(incidents, incidents)'
    BY <2>2 DEF Owned, Agree
  <2>4. \A q \in Scanners : Agree(tx[q].incidents, incidents)'
    BY <2>1, <2>2 DEF Owned, Agree
  <2>5. ASSUME NEW q \in Scanners, NEW z \in Scanners
        PROVE Agree(tx[q].incidents, tx[z].incidents)'
    BY <2>1 DEF Owned, Agree
  <2> QED BY <2>3, <2>4, <2>5 DEF Owned
<1>2. CASE \E w, o : Writes(p, w, o)
  <2>1. PICK w, o : Writes(p, w, o)
    BY <1>2
  <2>2. /\ tx'[p].incidents = tx[p].incidents \cup {w}
        /\ \A q \in Scanners : q # p => tx'[q] = tx[q]
        /\ incidents' = incidents
    BY <2>1, Written DEF Writes
  <2>3. Agree({w}, incidents) /\ \A q \in Scanners : Agree({w}, tx[q].incidents)
    <3>1. CASE w.id = lastIncident + 1
      <4>1. lastIncident \in Nat
        BY DEF StoreTyped
      <4>2. \A row \in incidents : row.id \in Nat /\ row.id <= lastIncident
        BY DEF StoreTyped, Row, AllLinked, Linked
      <4>3. \A q \in Scanners : \A row \in tx[q].incidents :
              row.id \in Nat /\ row.id <= lastIncident
        BY TxTyped DEF Row, AllLinked, Linked
      <4>4. \A row \in incidents : w.id # row.id
        BY <3>1, <4>1, <4>2
      <4>5. \A q \in Scanners : \A row \in tx[q].incidents : w.id # row.id
        BY <3>1, <4>1, <4>3
      <4> QED BY <4>4, <4>5 DEF Agree
    <3>2. CASE \E row \in incidents : w.id = row.id /\ w.merchant = row.merchant
      BY <3>2 DEF Owned, Agree
    <3> QED BY <2>1, <3>1, <3>2 DEF Writes
  <2>4. Agree(incidents, incidents)'
    BY <2>2 DEF Owned, Agree
  <2>5. \A q \in Scanners : Agree(tx[q].incidents, incidents)'
    BY <2>2, <2>3 DEF Owned, Agree
  <2>6. ASSUME NEW q \in Scanners, NEW z \in Scanners
        PROVE Agree(tx[q].incidents, tx[z].incidents)'
    <3>1. Agree(tx[q].incidents, tx[z].incidents)
      BY DEF Owned
    <3>2. /\ \A x \in tx'[q].incidents : x \in tx[q].incidents \/ x = w
          /\ \A x \in tx'[z].incidents : x \in tx[z].incidents \/ x = w
      BY <2>2
    <3> QED BY <2>3, <3>1, <3>2 DEF Agree
  <2> QED BY <2>4, <2>5, <2>6 DEF Owned
<1>3. CASE Ends(p)
  <2>1. \A row \in incidents' : row \in incidents \/ row \in tx[p].incidents
    BY <1>3 DEF Ends
  <2>2. \A q \in Scanners : \A w \in tx'[q].incidents : w \in tx[q].incidents
    BY <1>3 DEF Ends, NoTx
  <2>3. Agree(incidents, incidents)'
    BY <2>1 DEF Owned, Agree
  <2>4. ASSUME NEW q \in Scanners PROVE Agree(tx[q].incidents, incidents)'
    <3>1. Agree(tx[q].incidents, incidents) /\ Agree(tx[q].incidents, tx[p].incidents)
      BY DEF Owned
    <3> QED BY <2>1, <2>2, <3>1 DEF Agree
  <2>5. ASSUME NEW q \in Scanners, NEW z \in Scanners
        PROVE Agree(tx[q].incidents, tx[z].incidents)'
    <3>1. Agree(tx[q].incidents, tx[z].incidents)
      BY DEF Owned
    <3> QED BY <2>2, <3>1 DEF Agree
  <2> QED BY <2>3, <2>4, <2>5 DEF Owned
<1> QED BY <1>1, <1>2, <1>3, ScanCases

\* What a commit does to the ids of each merchant: its own keeps them and gets
\* those of the rows written; the others are left alone.
LEMMA CommitIds ==
  ASSUME StoreTyped, Owned, AllLinked, NEW p \in Scanners, Ends(p), NEW m \in Merchants
  PROVE  /\ ListIds(m) \subseteq ListIds(m)'
         /\ \A x \in ListIds(m)' : x \notin ListIds(m) =>
              \E w \in tx[p].incidents : w.id = x /\ w.merchant = m
<1>1. CASE UNCHANGED incidents
  BY <1>1 DEF ListIds
<1>2. CASE incidents' = {row \in incidents : \A w \in tx[p].incidents : w.id # row.id}
                          \cup tx[p].incidents
  <2>1. ASSUME NEW row \in incidents, row.merchant = m
        PROVE \E other \in incidents' : other.merchant = m /\ other.id = row.id
    <3>1. CASE \A w \in tx[p].incidents : w.id # row.id
      BY <1>2, <2>1, <3>1
    <3>2. CASE \E w \in tx[p].incidents : w.id = row.id
      BY <1>2, <2>1, <3>2 DEF Owned, Agree
    <3> QED BY <3>1, <3>2
  <2>2. \A x \in ListIds(m) : x \in ListIds(m)'
    BY <2>1 DEF ListIds
  <2>3. \A row \in incidents' : row \in incidents \/ row \in tx[p].incidents
    BY <1>2
  <2> QED BY <2>2, <2>3 DEF ListIds
<1> QED BY <1>1, <1>2 DEF Ends

\* What a scan has yet to commit stays behind all that its merchant has: the
\* others of the merchant wait for its lock, those of other merchants add
\* nothing the merchant can see.
LEMMA FreshStep ==
  ASSUME StoreTyped, StoreInv, NEW p \in Scanners, Scan(p)
  PROVE  Fresh'
<1>1. CASE Locks(p)
  <2>1. /\ tx'[p].incidents = {} /\ tx'[p].observations = {}
        /\ \A q \in Scanners : q # p => tx'[q] = tx[q]
        /\ UNCHANGED <<incidents, observations>>
    BY <1>1 DEF Locks
  <2>2. \A m : ListIds(m)' = ListIds(m)
    BY <2>1 DEF ListIds
  <2>3. ASSUME NEW q \in Scanners PROVE
    /\ \A w \in tx'[q].incidents : w.id \notin ListIds(tx[q].merchant)' =>
         \A x \in ListIds(tx[q].merchant)' : x < w.id
    /\ \A o \in tx'[q].observations, x \in observations' :
         (\E row \in incidents' : row.id = x.incident /\ row.merchant = tx'[q].merchant)
           => x.id < o.id
    <3>1. CASE q = p
      BY <2>1, <3>1
    <3>2. CASE q # p
      <4>1. ListIds(tx[q].merchant)' = ListIds(tx[q].merchant)
        BY <2>1, <3>2 DEF ListIds
      <4> QED BY <2>1, <3>2, <4>1 DEF StoreInv, Fresh
    <3> QED BY <3>1, <3>2
  <2> QED BY <2>3 DEF Fresh
<1>2. CASE \E w, o : Writes(p, w, o)
  <2>1. PICK w, o : Writes(p, w, o)
    BY <1>2
  <2>2. /\ tx'[p].incidents = tx[p].incidents \cup {w}
        /\ tx'[p].observations = tx[p].observations \cup {o}
        /\ tx'[p].merchant = tx[p].merchant
        /\ \A q \in Scanners : q # p => tx'[q] = tx[q]
        /\ UNCHANGED <<incidents, observations>>
    BY <2>1, Written DEF Writes
  <2>3. \A x \in observations : x.id < o.id
    <3>1. \A x \in observations : x.id \in Nat /\ x.id <= lastObservation
      BY DEF StoreTyped, Obs, StoreInv, AllLinked, Linked
    <3>2. o.id = lastObservation + 1 /\ lastObservation \in Nat
      BY <2>1 DEF Writes, StoreTyped
    <3> QED BY <3>1, <3>2
  <2>4. w.id \notin ListIds(tx[p].merchant) => \A x \in ListIds(tx[p].merchant) : x < w.id
    <3>1. CASE w.id = lastIncident + 1
      <4>1. \A row \in incidents : row.id \in Nat /\ row.id <= lastIncident
        BY DEF StoreTyped, Row, StoreInv, AllLinked, Linked
      <4>2. lastIncident \in Nat
        BY DEF StoreTyped
      <4> QED BY <3>1, <4>1, <4>2 DEF ListIds
    <3>2. CASE \E row \in incidents : w.id = row.id /\ w.merchant = row.merchant
      BY <2>1, <3>2 DEF Writes, ListIds
    <3> QED BY <2>1, <3>1, <3>2 DEF Writes
  <2>5. ASSUME NEW q \in Scanners PROVE
    /\ \A v \in tx'[q].incidents : v.id \notin ListIds(tx[q].merchant)' =>
         \A x \in ListIds(tx[q].merchant)' : x < v.id
    /\ \A z \in tx'[q].observations, x \in observations' :
         (\E row \in incidents' : row.id = x.incident /\ row.merchant = tx'[q].merchant)
           => x.id < z.id
    <3>1. ListIds(tx[q].merchant)' = ListIds(tx[q].merchant) /\ tx'[q].merchant = tx[q].merchant
      BY <2>2 DEF ListIds
    <3>2. /\ \A v \in tx[q].incidents : v.id \notin ListIds(tx[q].merchant) =>
               \A x \in ListIds(tx[q].merchant) : x < v.id
          /\ \A z \in tx[q].observations, x \in observations :
               (\E row \in incidents : row.id = x.incident /\ row.merchant = tx[q].merchant)
                 => x.id < z.id
      BY DEF StoreInv, Fresh
    <3>3. CASE q = p
      <4>1. \A v \in tx'[q].incidents : v \in tx[q].incidents \/ v = w
        BY <2>2, <3>3
      <4>2. \A z \in tx'[q].observations : z \in tx[q].observations \/ z = o
        BY <2>2, <3>3
      <4> QED BY <2>2, <2>3, <2>4, <3>1, <3>2, <3>3, <4>1, <4>2
    <3>4. CASE q # p
      BY <2>2, <3>1, <3>2, <3>4
    <3> QED BY <3>3, <3>4
  <2> QED BY <2>5 DEF Fresh
<1>3. CASE Ends(p)
  <2>1. ASSUME NEW q \in Scanners PROVE
    /\ \A v \in tx'[q].incidents : v.id \notin ListIds(tx[q].merchant)' =>
         \A x \in ListIds(tx[q].merchant)' : x < v.id
    /\ \A z \in tx'[q].observations, x \in observations' :
         (\E row \in incidents' : row.id = x.incident /\ row.merchant = tx'[q].merchant)
           => x.id < z.id
    <3>1. CASE q = p \/ tx[q].merchant = None
      <4>1. tx'[q] = NoTx
        BY <1>3, <3>1 DEF Ends, StoreInv, Serial
      <4> QED BY <4>1 DEF NoTx
    <3>2. CASE q # p /\ tx[q].merchant \in Merchants
      <4>1. tx'[q] = tx[q]
        BY <1>3, <3>2 DEF Ends
      <4>2. PICK m \in Merchants : m = tx[q].merchant
        BY <3>2
      <4>3. tx[p].merchant # m
        BY <1>3, <3>2, <4>2 DEF Ends, StoreInv, Serial
      <4>4. \A w \in tx[p].incidents : w.merchant # m
        BY <4>3 DEF StoreInv, AllLinked
      <4>5. ListIds(m)' = ListIds(m)
        <5>1. Owned /\ AllLinked
          BY DEF StoreInv
        <5>2. /\ ListIds(m) \subseteq ListIds(m)'
              /\ \A x \in ListIds(m)' : x \notin ListIds(m) =>
                   \E w \in tx[p].incidents : w.id = x /\ w.merchant = m
          BY <1>3, <5>1, CommitIds
        <5> QED BY <4>4, <5>2
      <4>6. ListIds(tx[q].merchant)' = ListIds(m)
        BY <4>1, <4>2, <4>5 DEF ListIds
      <4>7. ASSUME NEW x \in observations',
                   \E row \in incidents' : row.id = x.incident /\ row.merchant = m
            PROVE  x \in observations /\ \E row \in incidents :
                     row.id = x.incident /\ row.merchant = m
        <5>1. PICK row \in incidents' : row.id = x.incident /\ row.merchant = m
          BY <4>7
        <5>2. row \in incidents
          BY <1>3, <4>4, <5>1 DEF Ends
        <5>3. ASSUME x \in tx[p].observations PROVE FALSE
          <6>1. PICK w \in tx[p].incidents : w.id = x.incident
            BY <5>3 DEF StoreInv, AllLinked, Linked
          <6> QED BY <4>4, <5>1, <5>2, <6>1 DEF StoreInv, Owned, Agree
        <5> QED BY <1>3, <5>1, <5>2, <5>3 DEF Ends
      <4> QED BY <4>1, <4>2, <4>6, <4>7 DEF StoreInv, Fresh
    <3> QED BY <3>1, <3>2, TxTyped
  <2> QED BY <2>1 DEF Fresh
<1> QED BY <1>1, <1>2, <1>3, ScanCases

LEMMA StoreStep ==
  ASSUME StoreTyped, StoreInv, NEW p \in Scanners, Scan(p)
  PROVE  StoreTyped' /\ StoreInv'
<1>1. StoreTyped'
  BY ScanTyped
<1>2. Serial' /\ AllLinked' /\ Owned' /\ Fresh'
  BY <1>1, SerialStep, LinkedStep, OwnedStep, FreshStep DEF StoreInv
<1> QED BY <1>1, <1>2 DEF StoreInv

-----------------------------------------------------------------------------
(* What a step of the store means to those who read it: every resource     *)
(* grows, and nothing appears below a bound captured from it.              *)
GrowsFor(s) ==
  /\ \A x \in Ids(s) : x \in Ids(s)'
  /\ \A u \in Nat : s # Feed /\ Bound(s, u) =>
       Bound(s, u)' /\ \A x \in Ids(s)' : x <= u => x \in Ids(s)

Grows == \A s \in Resources : GrowsFor(s)

\* A captured bound of a merchant's list stays one: an uncommitted incident
\* below it is an update of one that is listed.
LEMMA ListGrows ==
  ASSUME StoreTyped, StoreInv, NEW p \in Scanners, Scan(p), NEW m \in Merchants
  PROVE  /\ \A x \in ListIds(m) : x \in ListIds(m)'
         /\ \A u \in Nat : ListBound(m, u) =>
              ListBound(m, u)' /\ \A x \in ListIds(m)' : x <= u => x \in ListIds(m)
<1>1. CASE Locks(p)
  <2>1. ListIds(m)' = ListIds(m)
    BY <1>1 DEF Locks, ListIds
  <2>2. ASSUME NEW u \in Nat, ListBound(m, u) PROVE ListBound(m, u)'
    <3>1. \A q \in Scanners : \A w \in tx'[q].incidents : w \in tx[q].incidents
      BY <1>1 DEF Locks
    <3> QED BY <1>1, <2>1, <2>2, <3>1 DEF Locks, ListBound
  <2> QED BY <2>1, <2>2
<1>2. CASE \E w, o : Writes(p, w, o)
  <2>1. PICK w, o : Writes(p, w, o)
    BY <1>2
  <2>2. ListIds(m)' = ListIds(m)
    BY <2>1 DEF Writes, ListIds
  <2>3. ASSUME NEW u \in Nat, ListBound(m, u) PROVE ListBound(m, u)'
    <3>1. lastIncident \in Nat /\ lastIncident <= lastIncident'
      BY <2>1 DEF Writes, StoreTyped
    <3>2. lastIncident' \in Nat
      BY <2>1 DEF Writes, StoreTyped
    <3>3. u <= lastIncident'
      BY <2>3, <3>1, <3>2 DEF ListBound
    <3>4. \A q \in Scanners : \A v \in tx'[q].incidents : v \in tx[q].incidents \/ v = w
      BY <2>1, Written
    <3>5. w.merchant = m /\ w.id <= u => w.id \in ListIds(m)
      <4>1. CASE w.id = lastIncident + 1
        BY <2>3, <3>1, <4>1 DEF ListBound
      <4>2. CASE \E row \in incidents : w.id = row.id /\ w.merchant = row.merchant
        BY <4>2 DEF ListIds
      <4> QED BY <2>1, <4>1, <4>2 DEF Writes
    <3> QED BY <2>2, <2>3, <3>3, <3>4, <3>5 DEF ListBound
  <2> QED BY <2>2, <2>3
<1>3. CASE Ends(p)
  <2>1. /\ ListIds(m) \subseteq ListIds(m)'
        /\ \A x \in ListIds(m)' : x \notin ListIds(m) =>
             \E w \in tx[p].incidents : w.id = x /\ w.merchant = m
    <3>1. Owned /\ AllLinked
      BY DEF StoreInv
    <3> QED BY <1>3, <3>1, CommitIds
  <2>2. ASSUME NEW u \in Nat, ListBound(m, u) PROVE ListBound(m, u)'
    <3>1. \A q \in Scanners : \A w \in tx'[q].incidents : w \in tx[q].incidents
      BY <1>3 DEF Ends, NoTx
    <3> QED BY <1>3, <2>1, <2>2, <3>1 DEF Ends, ListBound
  <2>3. ASSUME NEW u \in Nat, ListBound(m, u), NEW x \in ListIds(m)', x <= u
        PROVE  x \in ListIds(m)
    BY <2>1, <2>3 DEF ListBound
  <2> QED BY <2>1, <2>2, <2>3
<1> QED BY <1>1, <1>2, <1>3, ScanCases

\* A captured bound of an incident's history stays one: its uncommitted
\* observations are above it.
LEMMA DetailGrows ==
  ASSUME StoreTyped, StoreInv, NEW p \in Scanners, Scan(p), NEW m \in Merchants, NEW i \in Nat
  PROVE  /\ \A x \in DetailIds(m, i) : x \in DetailIds(m, i)'
         /\ \A u \in Nat : DetailBound(m, i, u) =>
              DetailBound(m, i, u)' /\ \A x \in DetailIds(m, i)' : x <= u => x \in DetailIds(m, i)
<1>1. CASE Locks(p)
  <2>1. DetailIds(m, i)' = DetailIds(m, i) /\ Found(m, i)' = Found(m, i)
    BY <1>1 DEF Locks, DetailIds, Found
  <2>2. ASSUME NEW u \in Nat, DetailBound(m, i, u) PROVE DetailBound(m, i, u)'
    <3>1. \A q \in Scanners : \A o \in tx'[q].observations : o \in tx[q].observations
      BY <1>1 DEF Locks
    <3> QED BY <1>1, <2>1, <2>2, <3>1 DEF Locks, DetailBound
  <2> QED BY <2>1, <2>2
<1>2. CASE \E w, o : Writes(p, w, o)
  <2>1. PICK w, o : Writes(p, w, o)
    BY <1>2
  <2>2. DetailIds(m, i)' = DetailIds(m, i) /\ Found(m, i)' = Found(m, i)
    BY <2>1 DEF Writes, DetailIds, Found
  <2>3. ASSUME NEW u \in Nat, DetailBound(m, i, u) PROVE DetailBound(m, i, u)'
    <3>1. lastObservation \in Nat /\ lastObservation' = lastObservation + 1
      BY <2>1 DEF Writes, StoreTyped
    <3>2. u <= lastObservation' /\ u < o.id
      BY <2>1, <2>3, <3>1 DEF DetailBound, Writes
    <3>3. \A q \in Scanners : \A z \in tx'[q].observations : z \in tx[q].observations \/ z = o
      BY <2>1, Written
    <3> QED BY <2>2, <2>3, <3>2, <3>3 DEF DetailBound
  <2> QED BY <2>2, <2>3
<1>3. CASE Ends(p)
  <2>1. Found(m, i) # {} => Found(m, i)' # {}
    <3>1. CASE UNCHANGED incidents
      BY <3>1 DEF Found
    <3>2. CASE incidents' = {row \in incidents : \A w \in tx[p].incidents : w.id # row.id}
                              \cup tx[p].incidents
      <4>1. ASSUME NEW row \in incidents, row.id = i, row.merchant = m
            PROVE \E other \in incidents' : other.id = i /\ other.merchant = m
        <5>1. CASE \A w \in tx[p].incidents : w.id # row.id
          BY <3>2, <4>1, <5>1
        <5>2. CASE \E w \in tx[p].incidents : w.id = row.id
          BY <3>2, <4>1, <5>2 DEF StoreInv, Owned, Agree
        <5> QED BY <5>1, <5>2
      <4> QED BY <4>1 DEF Found
    <3> QED BY <1>3, <3>1, <3>2 DEF Ends
  <2>2. observations \subseteq observations'
    BY <1>3 DEF Ends
  <2>3. \A x \in DetailIds(m, i) : x \in DetailIds(m, i)'
    BY <2>1, <2>2 DEF DetailIds
  <2>4. ASSUME NEW u \in Nat, DetailBound(m, i, u) PROVE DetailBound(m, i, u)'
    <3>1. \A q \in Scanners : \A o \in tx'[q].observations : o \in tx[q].observations
      BY <1>3 DEF Ends, NoTx
    <3> QED BY <1>3, <2>1, <2>4, <3>1 DEF Ends, DetailBound
  <2>5. ASSUME NEW u \in Nat, DetailBound(m, i, u), NEW x \in DetailIds(m, i)', x <= u
        PROVE  x \in DetailIds(m, i)
    <3>1. PICK o \in observations' : o.id = x /\ o.incident = i
      BY <2>5 DEF DetailIds
    <3>2. ASSUME o \in tx[p].observations PROVE FALSE
      <4>1. u < o.id
        BY <2>5, <3>1, <3>2 DEF DetailBound
      <4>2. o.id \in Nat
        BY <3>2, TxTyped DEF Obs
      <4> QED BY <2>5, <3>1, <4>1, <4>2
    <3>3. o \in observations
      BY <1>3, <3>1, <3>2 DEF Ends
    <3> QED BY <2>5, <3>1, <3>3 DEF DetailBound, DetailIds
  <2> QED BY <2>3, <2>4, <2>5
<1> QED BY <1>1, <1>2, <1>3, ScanCases

LEMMA ResourceGrows ==
  ASSUME NEW s \in Resources,
         feed \subseteq feed',
         \A m \in Merchants :
           /\ \A x \in ListIds(m) : x \in ListIds(m)'
           /\ \A u \in Nat : ListBound(m, u) =>
                ListBound(m, u)' /\ \A x \in ListIds(m)' : x <= u => x \in ListIds(m),
         \A m \in Merchants, i \in Nat :
           /\ \A x \in DetailIds(m, i) : x \in DetailIds(m, i)'
           /\ \A u \in Nat : DetailBound(m, i, u) =>
                DetailBound(m, i, u)' /\ \A x \in DetailIds(m, i)' : x <= u => x \in DetailIds(m, i)
  PROVE  GrowsFor(s)
<1>1. CASE s = Feed
  <2>1. Ids(s) = feed /\ Ids(s)' = feed'
    BY <1>1 DEF Ids
  <2> QED BY <1>1, <2>1 DEF GrowsFor
<1>2. ASSUME NEW m \in Merchants, s = List(m), s # Feed, s \in Lists, s[2] = m
      PROVE GrowsFor(s)
  <2>1. Ids(s) = ListIds(m) /\ Ids(s)' = ListIds(m)'
    BY <1>2 DEF Ids
  <2>2. \A u : (Bound(s, u) <=> ListBound(m, u)) /\ (Bound(s, u)' <=> ListBound(m, u)')
    BY <1>2 DEF Bound
  <2> QED BY <2>1, <2>2 DEF GrowsFor
<1>3. ASSUME NEW m \in Merchants, NEW i \in 1..MaxIncidents,
             s = Detail(m, i), s # Feed, s \notin Lists, s[2] = m, s[3] = i
      PROVE GrowsFor(s)
  <2>1. Ids(s) = DetailIds(m, i) /\ Ids(s)' = DetailIds(m, i)'
    BY <1>3 DEF Ids
  <2>2. \A u : (Bound(s, u) <=> DetailBound(m, i, u)) /\ (Bound(s, u)' <=> DetailBound(m, i, u)')
    BY <1>3 DEF Bound
  <2>3. i \in Nat
    OBVIOUS
  <2> QED BY <2>1, <2>2, <2>3 DEF GrowsFor
<1> QED BY <1>1, <1>2, <1>3, ResourceCases

LEMMA ScanGrows ==
  ASSUME StoreTyped, StoreInv, NEW p \in Scanners, Scan(p)
  PROVE  Grows
<1>1. feed \subseteq feed'
  BY ScanCases DEF Locks, Writes, Ends
<1> QED BY <1>1, ListGrows, DetailGrows, ResourceGrows DEF Grows

LEMMA OtherGrows ==
  ASSUME feed \subseteq feed', UNCHANGED <<incidents, observations, writers>>
  PROVE  Grows
<1>1. ASSUME NEW m \in Merchants PROVE
        /\ ListIds(m)' = ListIds(m)
        /\ \A u : ListBound(m, u)' <=> ListBound(m, u)
  BY DEF writers, ListIds, ListBound
<1>2. ASSUME NEW m \in Merchants, NEW i \in Nat PROVE
        /\ DetailIds(m, i)' = DetailIds(m, i)
        /\ \A u : DetailBound(m, i, u)' <=> DetailBound(m, i, u)
  BY DEF writers, DetailIds, Found, DetailBound
<1> QED BY <1>1, <1>2, ResourceGrows DEF Grows

LEMMA OtherStore ==
  ASSUME StoreTyped, StoreInv, UNCHANGED <<incidents, observations, writers>>,
         AppendLive \/ UNCHANGED feed
  PROVE  StoreTyped' /\ StoreInv'
<1>1. StoreTyped'
  <2>1. CASE AppendLive
    BY <2>1, AppendTyped
  <2>2. CASE UNCHANGED feed
    BY <2>2 DEF StoreTyped, writers
  <2> QED BY <2>1, <2>2
<1>2. Serial'
  BY DEF StoreInv, Serial, writers
<1>3. AllLinked'
  BY DEF StoreInv, AllLinked, Linked, writers
<1>4. Owned'
  BY DEF StoreInv, Owned, Agree, writers
<1>5. Fresh'
  BY DEF StoreInv, Fresh, ListIds, writers
<1> QED BY <1>1, <1>2, <1>3, <1>4, <1>5 DEF StoreInv

-----------------------------------------------------------------------------
(* The readers: what other processes' steps leave them.                    *)

LEMMA PositionKept ==
  ASSUME Grows, feed \subseteq feed', NEW s \in Resources, NEW a, NEW u, NEW t,
         Position(s, a, u, t)
  PROVE  Position(s, a, u, t)'
<1>1. GrowsFor(s)
  BY DEF Grows
<1>2. s # Feed => Bound(s, u)' /\ t.goal = {x \in Ids(s)' : x <= u}
  BY <1>1 DEF GrowsFor, Position
<1>3. s \in Details => u \in Ids(s)'
  BY <1>1 DEF GrowsFor, Position
<1> QED BY <1>2, <1>3 DEF Position

LEMMA PageKept ==
  ASSUME Grows, NEW q, q.resource \in Resources, NEW y, NEW t, PageOf(q, y, t)
  PROVE  PageOf(q, y, t)'
<1>1. \A x \in Ids(q.resource) : x \in Ids(q.resource)'
  BY DEF Grows, GrowsFor
<1> QED BY <1>1 DEF PageOf, IsMax

\* The lowest of a history stays its lowest.
LEMMA IdsTypedNext ==
  ASSUME StoreTyped', NEW s \in Resources
  PROVE  Ids(s)' \in SUBSET Nat
<1>1. feed' \in SUBSET Nat
  BY DEF StoreTyped
<1>2. \A m \in Merchants : ListIds(m)' \in SUBSET Nat
  BY DEF StoreTyped, ListIds, Row
<1>3. \A m, i : DetailIds(m, i)' \in SUBSET Nat
  BY DEF StoreTyped, DetailIds, Obs
<1>4. CASE s \in Lists
  <2>1. PICK m \in Merchants : s[2] = m
    BY <1>4 DEF Lists, List
  <2>2. Ids(s)' \in {feed', ListIds(m)'}
    BY <1>4, <2>1 DEF Ids
  <2> QED BY <1>1, <1>2, <2>2
<1>5. CASE s \notin Lists
  <2>1. Ids(s)' \in {feed', DetailIds(s[2], s[3])'}
    BY <1>5 DEF Ids
  <2> QED BY <1>1, <1>3, <2>1
<1> QED BY <1>4, <1>5

LEMMA MinKept ==
  ASSUME Grows, StoreTyped, StoreTyped', NEW s \in Details, NEW a, NEW u, NEW t,
         Position(s, a, u, t), NEW x, IsMin(x, Ids(s))
  PROVE  IsMin(x, Ids(s)')
<1>1. s \in Resources /\ s # Feed
  BY DEF Resources, Histories, Details, Detail, Feed
<1>2. GrowsFor(s) /\ Bound(s, u) /\ u \in Nat /\ u \in Ids(s)
  BY <1>1 DEF Grows, Position
<1>3. Ids(s) \in SUBSET Nat
  BY <1>1, IdsTyped
<1>4. Ids(s)' \in SUBSET Nat
  BY <1>1, IdsTypedNext
<1>5. x \in Ids(s)'
  BY <1>2 DEF GrowsFor, IsMin
<1>6. ASSUME NEW z \in Ids(s)' PROVE x <= z
  <2>1. CASE z \in Ids(s)
    BY <2>1 DEF IsMin
  <2>2. CASE z \notin Ids(s)
    <3>1. ~(z <= u)
      BY <1>1, <1>2, <2>2 DEF GrowsFor
    <3>2. x <= u /\ x \in Nat /\ z \in Nat
      BY <1>2, <1>3, <1>4 DEF IsMin
    <3> QED BY <1>2, <3>1, <3>2
  <2> QED BY <2>1, <2>2
<1> QED BY <1>5, <1>6 DEF IsMin

LEMMA ReaderKept ==
  ASSUME StoreTyped, StoreTyped', ReadersTyped, Grows, feed \subseteq feed',
         NEW r \in Readers, CursorInv(r), RequestInv(r),
         pc'[r] = pc[r], request'[r] = request[r], reply'[r] = reply[r],
         cursor'[r] = cursor[r], traversal'[r] = traversal[r]
  PROVE  CursorInv(r)' /\ RequestInv(r)'
<1> DEFINE q == request[r]
           y == reply[r]
           t == traversal[r]
           c == cursor[r]
<1>1. /\ q.resource \in Resources
      /\ c # None => c.resource \in Resources
  BY DEF ReadersTyped, Requests, Cursors
<1>2. \A s \in Resources : \A a, u, z : Position(s, a, u, z) => Position(s, a, u, z)'
  BY PositionKept
<1>3. CursorInv(r)'
  <2>1. ASSUME c # None PROVE Position(c.resource, c.after, c.upper, t)'
    BY <1>1, <1>2, <2>1 DEF CursorInv
  <2>2. ASSUME cursor'[r] # None
        PROVE  Position(cursor[r].resource, cursor[r].after, cursor[r].upper, traversal[r])'
    BY <2>1, <2>2 DEF Position
  <2> QED BY <2>2 DEF CursorInv
<1>4. Placed(r) => Placed(r)'
  BY <1>1, <1>2 DEF Placed
<1>5. PageOf(q, y, t) => PageOf(q, y, t)'
  BY <1>1, PageKept
<1>6. pc[r] = "reply" /\ q.resource \in Details => IsMin(y.opening, Ids(q.resource))'
  BY MinKept DEF RequestInv, Placed
<1>7. \A x \in Ids(q.resource) : x \in Ids(q.resource)'
  BY <1>1 DEF Grows, GrowsFor
<1>8. RequestInv(r)'
  BY <1>4, <1>5, <1>6, <1>7 DEF RequestInv
<1> QED BY <1>3, <1>8

-----------------------------------------------------------------------------
(* The steps of a request.                                                 *)

\* A step of r leaves the other requests alone.
Only(r) ==
  /\ UNCHANGED <<db, writers>>
  /\ \A z \in Readers : z # r =>
       /\ pc'[z] = pc[z] /\ request'[z] = request[z] /\ reply'[z] = reply[z]
       /\ cursor'[z] = cursor[z] /\ traversal'[z] = traversal[z]
  /\ pc' \in [Readers -> Labels]
  /\ request' \in [Readers -> Requests]
  /\ reply' \in [Readers -> Replies]
  /\ cursor' \in [Readers -> Cursors]
  /\ traversal' \in [Readers -> Traversals]

LEMMA ReaderTyped ==
  ASSUME ReadersTyped, NEW r \in Readers
  PROVE  /\ pc \in [Readers -> Labels] /\ pc[r] \in Labels
         /\ request \in [Readers -> Requests] /\ request[r] \in Requests
         /\ reply \in [Readers -> Replies] /\ reply[r] \in Replies
         /\ cursor \in [Readers -> Cursors] /\ cursor[r] \in Cursors
         /\ traversal \in [Readers -> Traversals] /\ traversal[r] \in Traversals
BY DEF ReadersTyped, Requests, Replies, Cursors, Traversals

LEMMA FirstStepTyped ==
  ASSUME NEW s, NEW u
  PROVE  FirstStep(s, u) \in {"row", "upper", "page"}
BY DEF FirstStep

LEMMA Finishing ==
  ASSUME ReadersTyped, NEW r \in Readers, Finish(r)
  PROVE  /\ pc' \in [Readers -> Labels] /\ pc'[r] = "idle"
         /\ request' \in [Readers -> Requests]
         /\ reply' \in [Readers -> Replies]
         /\ \A z \in Readers : z # r =>
              pc'[z] = pc[z] /\ request'[z] = request[z] /\ reply'[z] = reply[z]
<1>1. NoRequest \in Requests
  BY DEF NoRequest, Request, Requests, Bounds, Resources
<1>2. NoReply \in Replies
  BY DEF NoReply, Replies
<1>3. /\ pc \in [Readers -> Labels] /\ request \in [Readers -> Requests]
      /\ reply \in [Readers -> Replies]
  BY ReaderTyped
<1>4. pc' \in [Readers -> Labels] /\ pc'[r] = "idle" /\ \A z \in Readers : z # r => pc'[z] = pc[z]
  BY <1>3 DEF Finish, Goto, Labels
<1>5. request' \in [Readers -> Requests] /\ \A z \in Readers : z # r => request'[z] = request[z]
  BY <1>1, <1>3 DEF Finish
<1>6. reply' \in [Readers -> Replies] /\ \A z \in Readers : z # r => reply'[z] = reply[z]
  BY <1>2, <1>3 DEF Finish
<1> QED BY <1>4, <1>5, <1>6

LEMMA Going ==
  ASSUME ReadersTyped, NEW r \in Readers, NEW l \in Labels, Goto(r, l)
  PROVE  /\ pc' \in [Readers -> Labels] /\ pc'[r] = l
         /\ \A z \in Readers : z # r => pc'[z] = pc[z]
BY ReaderTyped DEF Goto

\* What each step does to its own request.
LEMMA Beginning ==
  ASSUME ReadersTyped, NEW r \in Readers, Begin(r)
  PROVE  /\ Only(r)
         /\ \E s \in Resources, n \in Limits :
              request'[r] = Request(s, n, 0, None, TRUE) /\ pc'[r] = FirstStep(s, None)
         /\ cursor'[r] = None
<1>1. PICK s \in Resources, n \in Limits :
        /\ request' = [request EXCEPT ![r] = Request(s, n, 0, None, TRUE)]
        /\ Goto(r, FirstStep(s, None))
  BY DEF Begin
<1>2. Request(s, n, 0, None, TRUE) \in Requests
  BY LimitAssumption DEF Request, Requests, Bounds
<1>3. FirstStep(s, None) \in Labels
  BY FirstStepTyped DEF Labels
<1>4. /\ pc' \in [Readers -> Labels] /\ pc'[r] = FirstStep(s, None)
      /\ \A z \in Readers : z # r => pc'[z] = pc[z]
  BY <1>1, <1>3, Going
<1>5. /\ request' \in [Readers -> Requests] /\ request'[r] = Request(s, n, 0, None, TRUE)
      /\ \A z \in Readers : z # r => request'[z] = request[z]
  BY <1>1, <1>2, ReaderTyped
<1>6. /\ cursor' \in [Readers -> Cursors] /\ cursor'[r] = None
      /\ \A z \in Readers : z # r => cursor'[z] = cursor[z]
  BY ReaderTyped DEF Begin, Cursors
<1>7. UNCHANGED <<db, writers, reply, traversal>>
  BY DEF Begin
<1>8. Only(r)
  BY <1>4, <1>5, <1>6, <1>7, ReaderTyped DEF Only
<1> QED BY <1>4, <1>5, <1>6, <1>8

LEMMA Continuing ==
  ASSUME ReadersTyped, NEW r \in Readers, Continue(r)
  PROVE  /\ Only(r)
         /\ cursor[r] # None
         /\ \E n \in Limits :
              request'[r] = Request(cursor[r].resource, n, cursor[r].after, cursor[r].upper, FALSE)
         /\ pc'[r] = FirstStep(cursor[r].resource, cursor[r].upper)
         /\ cursor'[r] = cursor[r] /\ traversal'[r] = traversal[r]
<1>1. PICK s \in Resources, n \in Limits :
        /\ CursorValid(cursor[r], s)
        /\ request' = [request EXCEPT ![r] = Request(s, n, cursor[r].after, cursor[r].upper, FALSE)]
        /\ Goto(r, FirstStep(s, cursor[r].upper))
  BY DEF Continue
<1>2. cursor[r] # None /\ s = cursor[r].resource
  BY <1>1 DEF CursorValid
<1>3. Request(s, n, cursor[r].after, cursor[r].upper, FALSE) \in Requests
  BY <1>2, ReaderTyped, LimitAssumption DEF Request, Requests, Cursors
<1>4. FirstStep(s, cursor[r].upper) \in Labels
  BY FirstStepTyped DEF Labels
<1>5. /\ pc' \in [Readers -> Labels] /\ pc'[r] = FirstStep(s, cursor[r].upper)
      /\ \A z \in Readers : z # r => pc'[z] = pc[z]
  BY <1>1, <1>4, Going
<1>6. /\ request' \in [Readers -> Requests]
      /\ request'[r] = Request(s, n, cursor[r].after, cursor[r].upper, FALSE)
      /\ \A z \in Readers : z # r => request'[z] = request[z]
  BY <1>1, <1>3, ReaderTyped
<1>7. UNCHANGED <<db, writers, reply, cursor, traversal>>
  BY DEF Continue
<1>8. Only(r)
  BY <1>5, <1>6, <1>7, ReaderTyped DEF Only
<1> QED BY <1>2, <1>5, <1>6, <1>7, <1>8

LEMMA ReadingRow ==
  ASSUME StoreTyped, ReadersTyped, NEW r \in Readers, ReadRow(r)
  PROVE  /\ Only(r)
         /\ cursor'[r] = cursor[r] /\ traversal'[r] = traversal[r]
         /\ pc[r] = "row"
         /\ \/ pc'[r] = "idle"
            \/ \E row \in Found(request[r].resource[2], request[r].resource[3]) :
                 /\ reply'[r].latest = row.latest
                 /\ request'[r] = request[r]
                 /\ pc'[r] = IF request[r].upper = None THEN "upper" ELSE "page"
<1> DEFINE s == request[r].resource
<1>1. UNCHANGED <<db, writers, cursor, traversal>> /\ pc[r] = "row"
  BY DEF ReadRow
<1>2. CASE Finish(r)
  <2>1. Only(r)
    BY <1>1, <1>2, Finishing, ReaderTyped DEF Only
  <2> QED BY <1>1, <1>2, <2>1, Finishing
<1>3. CASE \E row \in Found(s[2], s[3]) :
             /\ reply' = [reply EXCEPT ![r].latest = row.latest]
             /\ Goto(r, IF request[r].upper = None THEN "upper" ELSE "page")
             /\ UNCHANGED request
  <2>1. PICK row \in Found(s[2], s[3]) :
             /\ reply' = [reply EXCEPT ![r].latest = row.latest]
             /\ Goto(r, IF request[r].upper = None THEN "upper" ELSE "page")
             /\ UNCHANGED request
    BY <1>3
  <2>2. row.latest \in Nat
    BY DEF Found, StoreTyped, Row
  <2>3. /\ reply' \in [Readers -> Replies] /\ reply'[r].latest = row.latest
        /\ \A z \in Readers : z # r => reply'[z] = reply[z]
    <3>1. /\ reply'[r] = [reply[r] EXCEPT !.latest = row.latest]
          /\ \A z \in Readers : z # r => reply'[z] = reply[z]
          /\ reply' = [z \in Readers |-> IF z = r THEN reply'[r] ELSE reply[z]]
      BY <2>1, ReaderTyped
    <3>2. reply'[r] \in Replies /\ reply'[r].latest = row.latest
      BY <2>2, <3>1, ReaderTyped DEF Replies
    <3> QED BY <3>1, <3>2, ReaderTyped
  <2>4. (IF request[r].upper = None THEN "upper" ELSE "page") \in Labels
    BY DEF Labels
  <2>5. /\ pc' \in [Readers -> Labels]
        /\ pc'[r] = IF request[r].upper = None THEN "upper" ELSE "page"
        /\ \A z \in Readers : z # r => pc'[z] = pc[z]
    BY <2>1, <2>4, Going
  <2>6. Only(r)
    BY <1>1, <2>1, <2>3, <2>5, ReaderTyped DEF Only
  <2> QED BY <1>1, <2>1, <2>3, <2>5, <2>6
<1> QED BY <1>2, <1>3 DEF ReadRow

LEMMA ReadingUpper ==
  ASSUME StoreTyped, ReadersTyped, NEW r \in Readers, ReadUpper(r)
  PROVE  /\ Only(r)
         /\ pc[r] = "upper" /\ pc'[r] = "page"
         /\ \E u \in Nat :
              /\ IsMax(u, Ids(request[r].resource) \cup {0})
              /\ request'[r].upper = u
         /\ request'[r].resource = request[r].resource
         /\ request'[r].limit = request[r].limit
         /\ request'[r].after = request[r].after
         /\ request'[r].first = request[r].first
         /\ traversal'[r] = Traversal(request[r].resource, Ids(request[r].resource))
         /\ traversal' = [traversal EXCEPT ![r] =
              Traversal(request[r].resource, Ids(request[r].resource))]
         /\ reply'[r] = reply[r] /\ cursor'[r] = cursor[r]
<1> DEFINE s == request[r].resource
<1>1. UNCHANGED <<db, writers, reply, cursor>> /\ pc[r] = "upper"
  BY DEF ReadUpper
<1>2. PICK u \in Ids(s) \cup {0} :
        /\ IsMax(u, Ids(s) \cup {0})
        /\ request' = [request EXCEPT ![r].upper = u]
  BY DEF ReadUpper
<1>3. s \in Resources /\ Ids(s) \in SUBSET Nat
  BY ReaderTyped, IdsTyped DEF Requests
<1>4. u \in Nat
  BY <1>3
<1>5. /\ request' \in [Readers -> Requests]
      /\ request'[r] = [request[r] EXCEPT !.upper = u]
      /\ \A z \in Readers : z # r => request'[z] = request[z]
  <2>1. /\ request'[r] = [request[r] EXCEPT !.upper = u]
        /\ \A z \in Readers : z # r => request'[z] = request[z]
        /\ request' = [z \in Readers |-> IF z = r THEN request'[r] ELSE request[z]]
    BY <1>2, ReaderTyped
  <2>2. request'[r] \in Requests
    BY <1>4, <2>1, ReaderTyped DEF Requests, Bounds
  <2> QED BY <2>1, <2>2, ReaderTyped
<1>6. /\ request'[r].upper = u /\ request'[r].resource = s
      /\ request'[r].limit = request[r].limit /\ request'[r].after = request[r].after
      /\ request'[r].first = request[r].first
  BY <1>5, ReaderTyped DEF Requests
<1>7. Traversal(s, Ids(s)) \in Traversals
  BY <1>3 DEF Traversal, Traversals
<1>8. /\ traversal' \in [Readers -> Traversals] /\ traversal'[r] = Traversal(s, Ids(s))
      /\ \A z \in Readers : z # r => traversal'[z] = traversal[z]
      /\ traversal' = [traversal EXCEPT ![r] = Traversal(s, Ids(s))]
  BY <1>7, ReaderTyped DEF ReadUpper
<1>9. /\ pc' \in [Readers -> Labels] /\ pc'[r] = "page"
      /\ \A z \in Readers : z # r => pc'[z] = pc[z]
  BY Going DEF ReadUpper, Labels
<1>10. Only(r)
  BY <1>1, <1>5, <1>8, <1>9, ReaderTyped DEF Only
<1> QED BY <1>1, <1>2, <1>4, <1>6, <1>8, <1>9, <1>10

LEMMA RangeTyped ==
  ASSUME StoreTyped, AllLinked, ReadersTyped, NEW r \in Readers
  PROVE  /\ InRange(r) \in SUBSET Nat
         /\ \E n \in Nat : \A x \in InRange(r) : x <= n
<1>1. request[r].resource \in Resources
  BY ReaderTyped DEF Requests
<1>2. PICK n \in Nat : \A x \in Ids(request[r].resource) : x <= n
  BY <1>1, IdsBounded
<1>3. Ids(request[r].resource) \in SUBSET Nat
  BY <1>1, IdsTyped
<1> QED BY <1>2, <1>3 DEF InRange

LEMMA ReadingPage ==
  ASSUME StoreTyped, AllLinked, ReadersTyped, NEW r \in Readers, ReadPage(r)
  PROVE  /\ Only(r)
         /\ pc[r] = "page"
         /\ pc'[r] = IF request[r].resource \in Details THEN "opening" ELSE "reply"
         /\ request'[r] = request[r] /\ cursor'[r] = cursor[r]
         /\ reply'[r].latest = reply[r].latest
         /\ reply'[r].items = Lowest(InRange(r), request[r].limit)
         /\ reply'[r].more =
              (Cardinality(Lowest(InRange(r), request[r].limit + 1)) > request[r].limit)
         /\ IF request[r].resource = Feed /\ request[r].first
            THEN traversal'[r] = Traversal(Feed, feed) /\
                 traversal' = [traversal EXCEPT ![r] = Traversal(Feed, feed)]
            ELSE traversal' = traversal
<1> DEFINE s == request[r].resource
           n == request[r].limit
           more == Cardinality(Lowest(InRange(r), n + 1)) > n
           items == Lowest(InRange(r), n)
<1>1. UNCHANGED <<db, writers, request, cursor>> /\ pc[r] = "page"
  BY DEF ReadPage
<1>2. items \in SUBSET Nat
  BY RangeTyped DEF Lowest
<1>3. more \in BOOLEAN
  OBVIOUS
<1>4. reply' = [reply EXCEPT ![r].items = items, ![r].more = more]
  BY DEF ReadPage
<1> HIDE DEF items, more
<1>5. /\ reply' \in [Readers -> Replies]
      /\ \A z \in Readers : z # r => reply'[z] = reply[z]
      /\ reply'[r].latest = reply[r].latest
      /\ reply'[r].items = items /\ reply'[r].more = more
  <2>1. /\ reply'[r] = [reply[r] EXCEPT !.items = items, !.more = more]
        /\ \A z \in Readers : z # r => reply'[z] = reply[z]
        /\ reply' = [z \in Readers |-> IF z = r THEN reply'[r] ELSE reply[z]]
    BY <1>4, ReaderTyped
  <2>2. /\ reply'[r] \in Replies
        /\ reply'[r].latest = reply[r].latest
        /\ reply'[r].items = items /\ reply'[r].more = more
    BY <1>2, <1>3, <2>1, ReaderTyped DEF Replies
  <2> QED BY <2>1, <2>2, ReaderTyped
<1>6. feed \in SUBSET Nat
  BY DEF StoreTyped
<1>7. Traversal(Feed, feed) \in Traversals
  BY <1>6 DEF Traversal, Traversals, Resources
<1>8. /\ traversal' \in [Readers -> Traversals]
      /\ \A z \in Readers : z # r => traversal'[z] = traversal[z]
      /\ IF s = Feed /\ request[r].first
         THEN traversal'[r] = Traversal(Feed, feed) /\
              traversal' = [traversal EXCEPT ![r] = Traversal(Feed, feed)]
         ELSE traversal' = traversal
  BY <1>7, ReaderTyped DEF ReadPage
<1>9. /\ pc' \in [Readers -> Labels]
      /\ pc'[r] = IF s \in Details THEN "opening" ELSE "reply"
      /\ \A z \in Readers : z # r => pc'[z] = pc[z]
  <2>1. (IF s \in Details THEN "opening" ELSE "reply") \in Labels
    BY DEF Labels
  <2>2. Goto(r, IF s \in Details THEN "opening" ELSE "reply")
    BY DEF ReadPage
  <2> QED BY <2>1, <2>2, Going
<1>10. Only(r)
  BY <1>1, <1>5, <1>8, <1>9, ReaderTyped DEF Only
<1> QED BY <1>1, <1>5, <1>8, <1>9, <1>10 DEF items, more

LEMMA ReadingOpening ==
  ASSUME StoreTyped, ReadersTyped, NEW r \in Readers, ReadOpening(r)
  PROVE  /\ Only(r)
         /\ pc[r] = "opening" /\ pc'[r] = "reply"
         /\ request'[r] = request[r] /\ cursor'[r] = cursor[r] /\ traversal' = traversal
         /\ reply'[r].latest = reply[r].latest
         /\ reply'[r].items = reply[r].items
         /\ reply'[r].more = reply[r].more
         /\ IsMin(reply'[r].opening, Ids(request[r].resource))
<1>1. UNCHANGED <<db, writers, request, cursor, traversal>> /\ pc[r] = "opening"
  BY DEF ReadOpening
<1>2. PICK x \in Ids(request[r].resource) :
        /\ IsMin(x, Ids(request[r].resource))
        /\ reply' = [reply EXCEPT ![r].opening = x]
  BY DEF ReadOpening
<1>3. x \in Nat
  BY ReaderTyped, IdsTyped DEF Requests
<1>4. /\ reply' \in [Readers -> Replies]
      /\ \A z \in Readers : z # r => reply'[z] = reply[z]
      /\ reply'[r].latest = reply[r].latest
      /\ reply'[r].items = reply[r].items /\ reply'[r].more = reply[r].more
      /\ reply'[r].opening = x
  <2>1. /\ reply'[r] = [reply[r] EXCEPT !.opening = x]
        /\ \A z \in Readers : z # r => reply'[z] = reply[z]
        /\ reply' = [z \in Readers |-> IF z = r THEN reply'[r] ELSE reply[z]]
    BY <1>2, ReaderTyped
  <2>2. /\ reply'[r] \in Replies
        /\ reply'[r].latest = reply[r].latest
        /\ reply'[r].items = reply[r].items /\ reply'[r].more = reply[r].more
        /\ reply'[r].opening = x
    BY <1>3, <2>1, ReaderTyped DEF Replies
  <2> QED BY <2>1, <2>2, ReaderTyped
<1>5. /\ pc' \in [Readers -> Labels] /\ pc'[r] = "reply"
      /\ \A z \in Readers : z # r => pc'[z] = pc[z]
  BY Going DEF ReadOpening, Labels
<1>6. Only(r)
  BY <1>1, <1>4, <1>5, ReaderTyped DEF Only
<1> QED BY <1>1, <1>2, <1>4, <1>5, <1>6

\* The cursor an answer carries.
LEMMA CursorTyped ==
  ASSUME ReadersTyped, NEW r \in Readers,
         reply[r].more => \E x \in reply[r].items : IsMax(x, reply[r].items)
  PROVE  /\ NextCursor(r) \in Cursors
         /\ IF reply[r].more
            THEN /\ NextCursor(r).resource = request[r].resource
                 /\ NextCursor(r).upper = request[r].upper
                 /\ IsMax(NextCursor(r).after, reply[r].items)
            ELSE NextCursor(r) = None
<1> DEFINE x == CHOOSE z \in reply[r].items : IsMax(z, reply[r].items)
<1>1. CASE reply[r].more
  <2>1. x \in reply[r].items /\ IsMax(x, reply[r].items)
    BY <1>1
  <2>2. x \in Nat
    BY <2>1, ReaderTyped DEF Replies
  <2>3. NextCursor(r) = [resource |-> request[r].resource, upper |-> request[r].upper,
                         after |-> x]
    BY <1>1 DEF NextCursor
  <2> HIDE DEF x
  <2>4. NextCursor(r) \in Cursors
    BY <2>2, <2>3, ReaderTyped DEF Cursors, Requests
  <2> QED BY <1>1, <2>1, <2>3, <2>4
<1>2. CASE ~reply[r].more
  BY <1>2 DEF NextCursor, Cursors
<1> QED BY <1>1, <1>2

LEMMA Responding ==
  ASSUME ReadersTyped, NEW r \in Readers, Respond(r),
         reply[r].more => \E x \in reply[r].items : IsMax(x, reply[r].items)
  PROVE  /\ Only(r)
         /\ pc[r] = "reply" /\ pc'[r] = "idle"
         /\ cursor'[r] = NextCursor(r)
         /\ traversal'[r].resource = traversal[r].resource
         /\ traversal'[r].goal = traversal[r].goal
         /\ traversal'[r].sent = traversal[r].sent \cup reply[r].items
         /\ traversal' = [traversal EXCEPT
              ![r].sent = traversal[r].sent \cup reply[r].items, ![r].done = ~reply[r].more]
<1>1. UNCHANGED <<db, writers>> /\ pc[r] = "reply" /\ Finish(r)
  BY DEF Respond
<1>2. NextCursor(r) \in Cursors
  BY CursorTyped
<1>3. /\ cursor' \in [Readers -> Cursors] /\ cursor'[r] = NextCursor(r)
      /\ \A z \in Readers : z # r => cursor'[z] = cursor[z]
  BY <1>2, ReaderTyped DEF Respond
<1>4. traversal' = [traversal EXCEPT
        ![r].sent = traversal[r].sent \cup reply[r].items, ![r].done = ~reply[r].more]
  BY ReaderTyped DEF Respond
<1>5. /\ traversal' \in [Readers -> Traversals]
      /\ \A z \in Readers : z # r => traversal'[z] = traversal[z]
      /\ traversal'[r].resource = traversal[r].resource
      /\ traversal'[r].goal = traversal[r].goal
      /\ traversal'[r].sent = traversal[r].sent \cup reply[r].items
  <2>1. /\ traversal'[r] = [traversal[r] EXCEPT
             !.sent = traversal[r].sent \cup reply[r].items, !.done = ~reply[r].more]
        /\ \A z \in Readers : z # r => traversal'[z] = traversal[z]
        /\ traversal' = [z \in Readers |-> IF z = r THEN traversal'[r] ELSE traversal[z]]
    BY <1>4, ReaderTyped
  <2>2. traversal[r].sent \cup reply[r].items \in SUBSET Nat
    <3>1. traversal[r].sent \in SUBSET Nat
      BY ReaderTyped DEF Traversals
    <3>2. reply[r].items \in SUBSET Nat
      BY ReaderTyped DEF Replies
    <3> QED BY <3>1, <3>2
  <2>3. /\ traversal'[r] \in Traversals
        /\ traversal'[r].resource = traversal[r].resource
        /\ traversal'[r].goal = traversal[r].goal
        /\ traversal'[r].sent = traversal[r].sent \cup reply[r].items
    BY <2>1, <2>2, ReaderTyped DEF Traversals
  <2> QED BY <2>1, <2>3, ReaderTyped
<1>6. Only(r)
  BY <1>1, <1>3, <1>5, Finishing DEF Only
<1> QED BY <1>1, <1>3, <1>4, <1>5, <1>6, Finishing

LEMMA Losing ==
  ASSUME ReadersTyped, NEW r \in Readers, Lose(r)
  PROVE  Only(r) /\ pc'[r] = "idle" /\ cursor'[r] = cursor[r] /\ traversal' = traversal
<1>1. UNCHANGED <<db, writers, cursor, traversal>> /\ Finish(r)
  BY DEF Lose
<1>2. Only(r)
  BY <1>1, Finishing, ReaderTyped DEF Only
<1> QED BY <1>1, <1>2, Finishing

-----------------------------------------------------------------------------
(* Each step of a request leaves its reader in a state of the invariant.   *)

LEMMA SameStore ==
  ASSUME UNCHANGED <<db, writers>>
  PROVE  /\ \A s : Ids(s)' = Ids(s)
         /\ Grows
         /\ \A s \in Resources : \A a, u, t : Position(s, a, u, t) => Position(s, a, u, t)'
         /\ \A s, u : Bound(s, u)' <=> Bound(s, u)
<1>1. UNCHANGED <<incidents, observations, feed, writers>>
  BY DEF db
<1>2. Grows
  BY <1>1, OtherGrows
<1>3. \A s : Ids(s)' = Ids(s)
  BY <1>1 DEF Ids, ListIds, DetailIds, Found
<1>4. \A s \in Resources : \A a, u, t : Position(s, a, u, t) => Position(s, a, u, t)'
  BY <1>1, <1>2, PositionKept
<1>5. \A s, u : Bound(s, u)' <=> Bound(s, u)
  BY <1>1 DEF writers, Bound, ListBound, DetailBound, ListIds, Found
<1> QED BY <1>2, <1>3, <1>4, <1>5

LEMMA CursorKept ==
  ASSUME ReadersTyped, NEW r \in Readers, CursorInv(r), UNCHANGED <<db, writers>>,
         cursor'[r] = cursor[r], cursor[r] # None => traversal'[r] = traversal[r]
  PROVE  CursorInv(r)'
<1>1. ASSUME cursor[r] # None
      PROVE  Position(cursor[r].resource, cursor[r].after, cursor[r].upper, traversal[r])'
  <2> DEFINE c == cursor[r]
  <2>1. c.resource \in Resources
    BY <1>1, ReaderTyped DEF Cursors
  <2>2. Position(c.resource, c.after, c.upper, traversal[r])
    BY <1>1 DEF CursorInv
  <2>3. PICK s, a, u, t :
          s \in Resources /\ s = c.resource /\ a = c.after /\ u = c.upper /\ t = traversal[r]
    BY <2>1
  <2>4. Position(s, a, u, t)'
    BY <2>2, <2>3, SameStore
  <2> QED BY <1>1, <2>3, <2>4
<1> QED BY <1>1 DEF CursorInv

\* A step that keeps what places a request keeps it placed.
LEMMA PlacedKept ==
  ASSUME ReadersTyped, NEW r \in Readers, Placed(r), UNCHANGED <<db, writers>>,
         request'[r].resource = request[r].resource, request'[r].after = request[r].after,
         request'[r].upper = request[r].upper, traversal'[r] = traversal[r]
  PROVE  Placed(r)'
<1>1. PICK s, a, u, t :
        /\ s \in Resources
        /\ s = request[r].resource /\ a = request[r].after
        /\ u = request[r].upper /\ t = traversal[r]
  BY ReaderTyped DEF Requests
<1>2. Position(s, a, u, t)'
  BY <1>1, SameStore DEF Placed
<1> QED BY <1>1, <1>2 DEF Placed

LEMMA IdleInv ==
  ASSUME NEW r, pc'[r] = "idle"
  PROVE  RequestInv(r)'
BY DEF RequestInv

LEMMA Kinds ==
  ASSUME NEW s \in Resources
  PROVE  /\ s \in Details => s # Feed /\ s \notin Lists
         /\ s \in Lists => s # Feed /\ s \in Histories /\ s \notin Details
         /\ s \notin Lists /\ s \notin Details => s = Feed
         /\ s \in Details => s \in Histories
         /\ s \in Histories => s # Feed
<1>1. Feed \notin Lists /\ Feed \notin Details /\ \A z \in Lists : z \notin Details
  BY DEF Feed, Lists, Details, List, Detail
<1> QED BY <1>1 DEF Resources, Histories

LEMMA BeginStep ==
  ASSUME ReadersTyped, NEW r \in Readers, Begin(r)
  PROVE  CursorInv(r)' /\ RequestInv(r)'
<1>1. PICK s \in Resources, n \in Limits :
        request'[r] = Request(s, n, 0, None, TRUE) /\ pc'[r] = FirstStep(s, None)
  BY Beginning
<1>2. cursor'[r] = None
  BY Beginning
<1>3. CursorInv(r)'
  BY <1>2 DEF CursorInv
<1>4. /\ request'[r].resource = s /\ request'[r].limit = n /\ request'[r].after = 0
      /\ request'[r].upper = None /\ request'[r].first = TRUE /\ n # 0
  BY <1>1, LimitAssumption DEF Request
<1>5. CASE s \in Details
  <2>1. pc'[r] = "row"
    BY <1>1, <1>5 DEF FirstStep
  <2> QED BY <1>2, <1>3, <1>4, <1>5, <2>1 DEF RequestInv
<1>6. CASE s \in Lists
  <2>1. s \notin Details /\ s \in Histories
    BY <1>6, Kinds
  <2>2. pc'[r] = "upper"
    BY <1>1, <1>6, <2>1 DEF FirstStep
  <2> QED BY <1>2, <1>3, <1>4, <2>1, <2>2 DEF RequestInv
<1>7. CASE s \notin Details /\ s \notin Lists
  <2>1. s = Feed
    BY <1>7, Kinds
  <2>2. pc'[r] = "page"
    BY <1>1, <1>7 DEF FirstStep
  <2> QED BY <1>2, <1>3, <1>4, <1>7, <2>1, <2>2 DEF RequestInv
<1> QED BY <1>5, <1>6, <1>7

LEMMA ContinueStep ==
  ASSUME ReadersTyped, NEW r \in Readers, CursorInv(r), Continue(r)
  PROVE  CursorInv(r)' /\ RequestInv(r)'
<1> DEFINE c == cursor[r]
<1>1. /\ Only(r) /\ c # None
      /\ pc'[r] = FirstStep(c.resource, c.upper)
      /\ cursor'[r] = c /\ traversal'[r] = traversal[r]
  BY Continuing
<1>2. PICK n \in Limits : request'[r] = Request(c.resource, n, c.after, c.upper, FALSE)
  BY Continuing
<1>3. UNCHANGED <<db, writers>>
  BY <1>1 DEF Only
<1>4. CursorInv(r)'
  BY <1>1, <1>3, CursorKept
<1>5. c.resource \in Resources
  BY <1>1, ReaderTyped DEF Cursors
<1>6. /\ request'[r].resource = c.resource /\ request'[r].limit = n
      /\ request'[r].after = c.after /\ request'[r].upper = c.upper
      /\ request'[r].first = FALSE /\ n # 0
  BY <1>2, LimitAssumption DEF Request
<1>7. Position(c.resource, c.after, c.upper, traversal[r])
  BY <1>1 DEF CursorInv
<1>8. Placed(r)'
  <2>1. PICK s, a, u, t :
          s \in Resources /\ s = c.resource /\ a = c.after /\ u = c.upper /\ t = traversal[r]
    BY <1>5
  <2>2. Position(s, a, u, t)'
    BY <1>3, <1>7, <2>1, SameStore
  <2> QED BY <1>1, <1>6, <2>1, <2>2 DEF Placed
<1>9. c.resource # Feed => c.upper # None
  BY <1>7, NoneAssumption DEF Position
<1>10. CASE c.resource \in Details
  <2>1. pc'[r] = "row"
    BY <1>1, <1>10 DEF FirstStep
  <2> QED BY <1>4, <1>6, <1>8, <1>10, <2>1 DEF RequestInv
<1>11. CASE c.resource \notin Details
  <2>1. pc'[r] = "page"
    BY <1>1, <1>5, <1>9, <1>11, Kinds DEF FirstStep
  <2> QED BY <1>4, <1>6, <1>8, <1>11, <2>1 DEF RequestInv
<1> QED BY <1>10, <1>11

LEMMA RowStep ==
  ASSUME StoreTyped, AllLinked, ReadersTyped, NEW r \in Readers, CursorInv(r), RequestInv(r),
         ReadRow(r)
  PROVE  CursorInv(r)' /\ RequestInv(r)'
<1> DEFINE s == request[r].resource
<1>1. Only(r) /\ cursor'[r] = cursor[r] /\ traversal'[r] = traversal[r] /\ pc[r] = "row"
  BY ReadingRow
<1>2. UNCHANGED <<db, writers>>
  BY <1>1 DEF Only
<1>3. CursorInv(r)'
  BY <1>1, <1>2, CursorKept
<1>4. CASE pc'[r] = "idle"
  BY <1>3, <1>4, IdleInv
<1>5. CASE \E row \in Found(s[2], s[3]) :
             /\ reply'[r].latest = row.latest
             /\ request'[r] = request[r]
             /\ pc'[r] = IF request[r].upper = None THEN "upper" ELSE "page"
  <2>1. PICK row \in Found(s[2], s[3]) :
             /\ reply'[r].latest = row.latest
             /\ request'[r] = request[r]
             /\ pc'[r] = IF request[r].upper = None THEN "upper" ELSE "page"
    BY <1>5
  <2>2. s \in Details /\ s \in Resources /\ s # Feed /\ s \notin Lists /\ s \in Histories
    BY <1>1, ReaderTyped, Kinds DEF RequestInv, Requests
  <2>3. row.latest \in Ids(s)
    <3>1. row \in incidents /\ row.id = s[3]
      BY DEF Found
    <3>2. PICK o \in observations : o.id = row.latest /\ o.incident = row.id
      BY <3>1 DEF AllLinked, Linked
    <3>3. Ids(s) = DetailIds(s[2], s[3])
      BY <2>2 DEF Ids
    <3> QED BY <3>1, <3>2, <3>3 DEF DetailIds
  <2>4. reply'[r].latest \in Ids(s)'
    BY <1>2, <2>1, <2>3, SameStore
  <2>5. request[r].limit # 0 /\ (request[r].first => cursor[r] = None /\ request[r].after = 0)
    BY <1>1 DEF RequestInv
  <2>6. CASE request[r].first
    <3>1. pc'[r] = "upper"
      BY <1>1, <2>1, <2>6 DEF RequestInv
    <3> QED BY <1>1, <1>3, <2>1, <2>2, <2>4, <2>5, <2>6, <3>1 DEF RequestInv
  <2>7. CASE ~request[r].first
    <3>1. Placed(r)
      BY <1>1, <2>7 DEF RequestInv
    <3>2. request[r].upper # None
      BY <2>2, <3>1, NoneAssumption DEF Placed, Position
    <3>3. pc'[r] = "page"
      BY <2>1, <3>2
    <3>4. Placed(r)'
      BY <1>1, <1>2, <2>1, <3>1, PlacedKept
    <3> QED BY <1>1, <1>3, <2>1, <2>2, <2>4, <2>5, <2>7, <3>3, <3>4 DEF RequestInv
  <2> QED BY <2>6, <2>7
<1> QED BY <1>4, <1>5, ReadingRow

\* The highest committed id is a bound: the lock keeps what is not committed
\* yet above it, although ids are taken before rows commit.
LEMMA UpperBound ==
  ASSUME StoreTyped, StoreInv, NEW s \in Histories, NEW u \in Nat, IsMax(u, Ids(s) \cup {0}),
         s \in Details => Ids(s) # {}
  PROVE  Bound(s, u)
<1>0. s \in Resources
  BY DEF Resources
<1>1. ASSUME NEW m \in Merchants, s \in Lists, s[2] = m, Ids(s) = ListIds(m)
      PROVE Bound(s, u)
  <2>1. \A x \in ListIds(m) : x <= lastIncident
    BY DEF ListIds, StoreInv, AllLinked, Linked
  <2>2. u <= lastIncident
    <3>1. CASE u = 0
      BY <3>1 DEF StoreTyped
    <3>2. CASE u \in ListIds(m)
      BY <2>1, <3>2
    <3> QED BY <1>1, <3>1, <3>2 DEF IsMax
  <2>3. ASSUME NEW p \in Scanners, NEW w \in tx[p].incidents, w.merchant = m, w.id <= u,
               w.id \notin ListIds(m)
        PROVE FALSE
    <3>1. tx[p].merchant = m
      BY <2>3 DEF StoreInv, AllLinked
    <3>2. \A x \in ListIds(m) : x < w.id
      BY <2>3, <3>1 DEF StoreInv, Fresh
    <3>3. w.id \in Nat /\ w.id # 0
      BY TxTyped DEF Row
    <3>4. u = 0 \/ u \in ListIds(m)
      BY <1>1 DEF IsMax
    <3>5. u < w.id
      BY <3>2, <3>3, <3>4
    <3> QED BY <2>3, <3>3, <3>5
  <2> QED BY <1>1, <2>2, <2>3 DEF Bound, ListBound
<1>2. ASSUME NEW m \in Merchants, NEW i \in Nat, s \notin Lists, s \in Details, s[2] = m,
             s[3] = i, Ids(s) = DetailIds(m, i)
      PROVE Bound(s, u)
  <2>1. Found(m, i) # {} /\ DetailIds(m, i) # {}
    BY <1>2 DEF DetailIds
  <2>2. DetailIds(m, i) \in SUBSET Nat /\ 0 \notin DetailIds(m, i)
    BY <1>0, <1>2, IdsTyped
  <2>3. u \in DetailIds(m, i)
    <3>1. PICK x \in DetailIds(m, i) : TRUE
      BY <2>1
    <3>2. x <= u /\ x \in Nat /\ x # 0
      BY <1>2, <2>2 DEF IsMax
    <3> QED BY <1>2, <3>2 DEF IsMax
  <2>4. u <= lastObservation
    BY <2>3 DEF DetailIds, StoreInv, AllLinked, Linked
  <2>5. ASSUME NEW p \in Scanners, NEW o \in tx[p].observations, o.incident = i
        PROVE u < o.id
    <3>1. PICK row \in tx[p].incidents : row.id = i
      BY <2>5 DEF StoreInv, AllLinked, Linked
    <3>2. PICK known \in incidents : known.id = i /\ known.merchant = m
      BY <2>1 DEF Found
    <3>3. tx[p].merchant = m
      BY <3>1, <3>2 DEF StoreInv, AllLinked, Owned, Agree
    <3>4. PICK x \in observations : x.id = u /\ x.incident = i
      BY <2>3 DEF DetailIds
    <3> QED BY <3>2, <3>3, <3>4 DEF StoreInv, Fresh
  <2> QED BY <1>2, <2>1, <2>4, <2>5 DEF Bound, DetailBound
<1> QED BY <1>0, <1>1, <1>2, ResourceCases, Kinds

LEMMA UpperStep ==
  ASSUME StoreTyped, StoreInv, ReadersTyped, NEW r \in Readers, CursorInv(r), RequestInv(r),
         ReadUpper(r)
  PROVE  CursorInv(r)' /\ RequestInv(r)'
<1> DEFINE s == request[r].resource
<1>1. /\ Only(r)
      /\ pc[r] = "upper" /\ pc'[r] = "page"
      /\ request'[r].resource = s
      /\ request'[r].limit = request[r].limit
      /\ request'[r].after = request[r].after
      /\ request'[r].first = request[r].first
      /\ traversal'[r] = Traversal(s, Ids(s))
      /\ reply'[r] = reply[r] /\ cursor'[r] = cursor[r]
  BY ReadingUpper
<1>2. PICK u \in Nat : IsMax(u, Ids(s) \cup {0}) /\ request'[r].upper = u
  BY ReadingUpper
<1>3. UNCHANGED <<db, writers>>
  BY <1>1 DEF Only
<1>4. /\ request[r].limit # 0 /\ request[r].first /\ s \in Histories
      /\ cursor[r] = None /\ request[r].after = 0
      /\ s \in Details => reply[r].latest \in Ids(s)
  BY <1>1 DEF RequestInv
<1>5. CursorInv(r)'
  BY <1>1, <1>3, <1>4, CursorKept
<1>6. s \in Resources /\ s # Feed /\ Ids(s) \in SUBSET Nat /\ 0 \notin Ids(s)
  BY <1>4, IdsTyped, Kinds DEF Resources
<1>7. Bound(s, u)
  BY <1>2, <1>4, UpperBound
<1>8. Position(s, 0, u, Traversal(s, Ids(s)))
  <2>1. \A x \in Ids(s) : ~(x <= 0) /\ x <= u
    BY <1>2, <1>6 DEF IsMax
  <2>2. Ids(s) = {x \in Ids(s) : x <= u}
    BY <2>1
  <2>3. s \in Details => u \in Ids(s)
    <3>1. ASSUME NEW x \in Ids(s) PROVE u \in Ids(s)
      <4>1. x <= u /\ x \in Nat /\ x # 0
        BY <1>6, <2>1
      <4> QED BY <1>2, <4>1 DEF IsMax
    <3> QED BY <1>4, <3>1
  <2> QED BY <1>6, <1>7, <2>1, <2>2, <2>3 DEF Position, Traversal
<1>9. Placed(r)'
  <2>1. PICK t : t = Traversal(s, Ids(s))
    OBVIOUS
  <2>2. PICK z \in Resources : z = s
    BY <1>6
  <2>3. Position(z, 0, u, t)'
    BY <1>3, <1>8, <2>1, <2>2, SameStore
  <2> QED BY <1>1, <1>2, <1>4, <2>1, <2>2, <2>3 DEF Placed
<1>10. s \in Details => reply'[r].latest \in Ids(s)' /\ reply'[r].latest <= u
  BY <1>1, <1>2, <1>3, <1>4, SameStore DEF IsMax
<1>11. (Ids(request[r].resource))' = Ids(s)'
  BY <1>1 DEF Ids
<1> QED BY <1>1, <1>2, <1>4, <1>5, <1>9, <1>10, <1>11 DEF RequestInv

\* Reading one row more than the page shows is enough to know whether the
\* traversal is at its end.
LEMMA PageStep ==
  ASSUME StoreTyped, StoreInv, ReadersTyped, NEW r \in Readers, CursorInv(r), RequestInv(r),
         ReadPage(r)
  PROVE  CursorInv(r)' /\ RequestInv(r)'
<1> DEFINE q == request[r]
           s == q.resource
           t == traversal'[r]
           S == InRange(r)
<1>1. /\ Only(r) /\ pc[r] = "page"
      /\ pc'[r] = IF s \in Details THEN "opening" ELSE "reply"
      /\ request'[r] = q /\ cursor'[r] = cursor[r]
      /\ reply'[r].latest = reply[r].latest
      /\ reply'[r].items = Lowest(S, q.limit)
      /\ reply'[r].more = (Cardinality(Lowest(S, q.limit + 1)) > q.limit)
      /\ IF s = Feed /\ q.first THEN t = Traversal(Feed, feed) ELSE traversal' = traversal
  BY ReadingPage DEF StoreInv
<1>2. UNCHANGED <<db, writers>>
  BY <1>1 DEF Only
<1>3. /\ q.limit # 0
      /\ q.first => cursor[r] = None /\ q.after = 0
      /\ Placed(r) \/ (s = Feed /\ q.first)
      /\ q.first /\ s \in Details => reply[r].latest \in Ids(s) /\ reply[r].latest <= q.upper
  BY <1>1 DEF RequestInv
<1>4. CursorInv(r)'
  BY <1>1, <1>2, <1>3, CursorKept
<1>5. s \in Resources /\ q.limit \in Nat \ {0} /\ q.after \in Nat
  BY <1>3, ReaderTyped DEF Requests
<1>6. Position(s, q.after, q.upper, t)
  <2>1. CASE s = Feed /\ q.first
    <3>1. t = Traversal(Feed, feed) /\ q.after = 0
      BY <1>1, <1>3, <2>1
    <3>2. \A x \in feed : ~(x <= 0)
      BY DEF StoreTyped
    <3>3. Feed \notin Details
      BY <1>5, <2>1, Kinds
    <3> QED BY <2>1, <3>1, <3>2, <3>3 DEF Position, Traversal
  <2>2. CASE ~(s = Feed /\ q.first)
    BY <1>1, <1>3, <2>2 DEF Placed
  <2> QED BY <2>1, <2>2
<1>7. Placed(r)'
  <2>1. PICK z, a, u, tt : z \in Resources /\ z = s /\ a = q.after /\ u = q.upper /\ tt = t
    BY <1>5
  <2>2. Position(z, a, u, tt)'
    BY <1>2, <1>6, <2>1, SameStore
  <2> QED BY <1>1, <2>1, <2>2 DEF Placed
<1>8. S \in SUBSET Nat /\ \E n \in Nat : \A x \in S : x <= n
  BY RangeTyped DEF StoreInv
<1>9. PICK n \in Nat : \A x \in S : x <= n
  BY <1>8
<1>10. \A x \in S : q.after < x /\ x \in Ids(s) /\ (s # Feed => x <= q.upper)
  <2>1. Ids(s) \in SUBSET Nat
    BY <1>5, IdsTyped
  <2> QED BY <1>5, <2>1 DEF InRange
<1>11. \A x \in t.goal : q.after < x => x \in S
  <2>1. t.goal \in SUBSET Nat
    BY <1>1 DEF Only, Traversals
  <2>2. CASE s = Feed
    <3>1. t.goal \subseteq Ids(s)
      BY <1>6, <2>2 DEF Position, Ids
    <3> QED BY <1>5, <2>1, <2>2, <3>1 DEF InRange
  <2>3. CASE s # Feed
    <3>1. t.goal = {x \in Ids(s) : x <= q.upper}
      BY <1>6, <2>3 DEF Position
    <3> QED BY <1>5, <2>1, <3>1 DEF InRange
  <2> QED BY <2>2, <2>3
<1> DEFINE y == reply'[r]
<1>12. \A x \in y.items : x \in S
  BY <1>1 DEF Lowest
<1>13. \A x \in S, z \in y.items : x \notin y.items => z < x
  BY <1>1, <1>5, <1>8, <1>9, LowestBelow
<1>14. ~y.more => \A x \in S : x \in y.items
  <2>1. ASSUME ~y.more PROVE S \subseteq Lowest(S, q.limit)
    <3>1. ~(Cardinality(Lowest(S, q.limit + 1)) > q.limit)
      BY <1>1, <2>1
    <3> QED BY <1>5, <1>8, <1>9, <3>1, LowestAll
  <2> QED BY <1>1, <2>1
<1>15. y.more => \E x \in y.items : IsMax(x, y.items)
  <2>1. ASSUME y.more PROVE \E x \in Lowest(S, q.limit) : IsMax(x, Lowest(S, q.limit))
    <3>1. Cardinality(Lowest(S, q.limit + 1)) > q.limit
      BY <1>1, <2>1
    <3> QED BY <1>5, <1>8, <1>9, <3>1, LowestSome
  <2> QED BY <1>1, <2>1
<1>16. PageOf(request[r], reply[r], traversal[r])'
  <2>1. PICK id : id = s
    OBVIOUS
  <2>2. (Ids(request[r].resource))' = Ids(s)
    <3>1. Ids(id)' = Ids(id)
      BY <1>2, SameStore
    <3> QED BY <1>1, <2>1, <3>1
  <2> HIDE DEF S
  <2>3. \A x \in y.items : q.after < x /\ x \in Ids(s) /\ (s # Feed => x <= q.upper)
    BY <1>10, <1>12
  <2>4. \A x \in t.goal, z \in y.items : q.after < x /\ x \notin y.items => z < x
    BY <1>11, <1>13
  <2>5. ~y.more => \A x \in t.goal : q.after < x => x \in y.items
    BY <1>11, <1>14
  <2> QED BY <1>1, <1>15, <2>2, <2>3, <2>4, <2>5 DEF PageOf
<1>17. s \in Details /\ q.first =>
         reply'[r].latest \in (Ids(request[r].resource))' /\ reply'[r].latest <= q.upper
  <2>1. (Ids(request[r].resource))' = Ids(s)
    <3>1. PICK z : z = s
      OBVIOUS
    <3>2. Ids(z)' = Ids(z)
      BY <1>2, SameStore
    <3> QED BY <1>1, <3>1, <3>2
  <2> QED BY <1>1, <1>3, <2>1
<1> HIDE DEF S, y, t
<1> QED BY <1>1, <1>3, <1>4, <1>7, <1>16, <1>17 DEF RequestInv

LEMMA OpeningStep ==
  ASSUME StoreTyped, ReadersTyped, NEW r \in Readers, CursorInv(r), RequestInv(r),
         ReadOpening(r)
  PROVE  CursorInv(r)' /\ RequestInv(r)'
<1> DEFINE q == request[r]
           s == q.resource
<1>1. /\ Only(r)
      /\ pc[r] = "opening" /\ pc'[r] = "reply"
      /\ request'[r] = q /\ cursor'[r] = cursor[r] /\ traversal' = traversal
      /\ reply'[r].latest = reply[r].latest
      /\ reply'[r].items = reply[r].items
      /\ reply'[r].more = reply[r].more
      /\ IsMin(reply'[r].opening, Ids(s))
  BY ReadingOpening
<1>2. UNCHANGED <<db, writers>>
  BY <1>1 DEF Only
<1>3. /\ q.limit # 0
      /\ q.first => cursor[r] = None /\ q.after = 0
      /\ Placed(r) /\ PageOf(q, reply[r], traversal[r])
      /\ q.first /\ s \in Details => reply[r].latest \in Ids(s) /\ reply[r].latest <= q.upper
  BY <1>1 DEF RequestInv
<1>4. CursorInv(r)'
  BY <1>1, <1>2, CursorKept
<1>5. Placed(r)'
  BY <1>1, <1>2, <1>3, PlacedKept
<1>6. (Ids(request[r].resource))' = Ids(s)
  <2>1. PICK z : z = s
    OBVIOUS
  <2>2. Ids(z)' = Ids(z)
    BY <1>2, SameStore
  <2> QED BY <1>1, <2>1, <2>2
<1>7. PageOf(request[r], reply[r], traversal[r])'
  BY <1>1, <1>3, <1>6 DEF PageOf
<1> QED BY <1>1, <1>3, <1>4, <1>5, <1>6, <1>7 DEF RequestInv

\* A cursor at the last row of the page continues where the page ended.
LEMMA RespondStep ==
  ASSUME StoreTyped, ReadersTyped, NEW r \in Readers, RequestInv(r), Respond(r)
  PROVE  CursorInv(r)' /\ RequestInv(r)'
<1> DEFINE q == request[r]
           s == q.resource
           y == reply[r]
           c == cursor'[r]
           old == traversal[r]
           t == traversal'[r]
<1>1. pc[r] = "reply"
  BY DEF Respond
<1>2. Placed(r) /\ PageOf(q, y, old)
  BY <1>1 DEF RequestInv
<1>3. y.more => \E x \in y.items : IsMax(x, y.items)
  BY <1>2 DEF PageOf
<1>4. /\ Only(r) /\ pc'[r] = "idle" /\ c = NextCursor(r)
      /\ t.resource = old.resource /\ t.goal = old.goal /\ t.sent = old.sent \cup y.items
  BY <1>3, Responding
<1>5. UNCHANGED <<db, writers>>
  BY <1>4 DEF Only
<1>6. ASSUME c # None
      PROVE  Position(cursor[r].resource, cursor[r].after, cursor[r].upper, traversal[r])'
  <2>1. c.resource = s /\ c.upper = q.upper /\ IsMax(c.after, y.items)
    BY <1>3, <1>4, <1>6, CursorTyped
  <2>2. /\ old.resource = s
        /\ \A z \in old.sent : z <= q.after
        /\ \A x \in old.goal : x <= q.after => x \in old.sent
        /\ s = Feed => old.goal \subseteq feed
        /\ s # Feed => /\ q.upper \in Nat /\ Bound(s, q.upper)
                       /\ old.goal = {x \in Ids(s) : x <= q.upper}
        /\ s \in Details => q.upper \in Ids(s)
    BY <1>2 DEF Placed, Position
  <2>3. /\ \A x \in y.items : q.after < x
        /\ \A x \in old.goal, z \in y.items : q.after < x /\ x \notin y.items => z < x
    BY <1>2 DEF PageOf
  <2>4. /\ y.items \in SUBSET Nat /\ old.goal \in SUBSET Nat /\ old.sent \in SUBSET Nat
        /\ q.after \in Nat /\ s \in Resources
    BY ReaderTyped DEF Replies, Traversals, Requests
  <2>5. c.after \in y.items /\ c.after \in Nat /\ \A z \in y.items : z <= c.after
    BY <2>1, <2>4 DEF IsMax
  <2>6. q.after < c.after
    BY <2>3, <2>5
  <2>7. ASSUME NEW z \in t.sent PROVE z <= c.after
    <3>1. CASE z \in old.sent
      <4>1. z \in Nat /\ z <= q.after
        BY <2>2, <2>4, <3>1
      <4> QED BY <2>4, <2>5, <2>6, <4>1
    <3>2. CASE z \in y.items
      BY <2>5, <3>2
    <3> QED BY <1>4, <3>1, <3>2
  <2>8. ASSUME NEW x \in t.goal, x <= c.after PROVE x \in t.sent
    <3>1. x \in old.goal /\ x \in Nat
      BY <1>4, <2>4
    <3>2. CASE x <= q.after
      BY <1>4, <2>2, <3>1, <3>2
    <3>3. CASE ~(x <= q.after)
      <4>1. q.after < x
        BY <2>4, <3>1, <3>3
      <4>2. ASSUME x \notin y.items PROVE FALSE
        <5>1. c.after < x
          BY <2>3, <2>5, <3>1, <4>1, <4>2
        <5> QED BY <2>5, <2>8, <3>1, <5>1
      <4> QED BY <1>4, <4>2
    <3> QED BY <3>2, <3>3
  <2>9. Position(s, c.after, q.upper, t)
    BY <1>4, <2>2, <2>7, <2>8 DEF Position
  <2>10. PICK z, a, u, tt : z \in Resources /\ z = s /\ a = c.after /\ u = q.upper /\ tt = t
    BY <2>4
  <2>11. Position(z, a, u, tt)'
    BY <1>5, <2>9, <2>10, SameStore
  <2> QED BY <2>1, <2>10, <2>11
<1>7. CursorInv(r)'
  BY <1>6 DEF CursorInv
<1> QED BY <1>4, <1>7, IdleInv

LEMMA LoseStep ==
  ASSUME ReadersTyped, NEW r \in Readers, CursorInv(r), Lose(r)
  PROVE  CursorInv(r)' /\ RequestInv(r)'
<1>1. Only(r) /\ pc'[r] = "idle" /\ cursor'[r] = cursor[r] /\ traversal' = traversal
  BY Losing
<1>2. UNCHANGED <<db, writers>>
  BY <1>1 DEF Only
<1>3. CursorInv(r)'
  BY <1>1, <1>2, CursorKept
<1> QED BY <1>1, <1>3, IdleInv

-----------------------------------------------------------------------------
(* The invariant.                                                          *)

LEMMA InvInit == Init => Inv
<1> SUFFICES ASSUME Init PROVE Inv
  OBVIOUS
<1>1. StoreTyped /\ StoreInv
  BY StoreInit
<1>2. ReadersTyped
  <2>1. Feed \in Resources
    BY DEF Resources
  <2>2. NoRequest \in [resource : Resources, limit : Nat, after : Nat, upper : Bounds,
                       first : BOOLEAN]
    BY <2>1 DEF NoRequest, Request, Bounds
  <2>3. NoReply \in [latest : Nat, items : SUBSET Nat, more : BOOLEAN, opening : Nat]
    BY DEF NoReply
  <2>4. Traversal(Feed, {}) \in [resource : Resources, goal : SUBSET Nat, sent : SUBSET Nat,
                                 done : BOOLEAN]
    BY <2>1 DEF Traversal
  <2> QED BY <2>2, <2>3, <2>4 DEF Init, ReadersTyped, Labels, Requests, Replies, Cursors, Traversals
<1>3. ASSUME NEW r \in Readers PROVE CursorInv(r) /\ RequestInv(r)
  <2>1. pc[r] = "idle" /\ cursor[r] = None
    BY DEF Init
  <2> QED BY <2>1 DEF CursorInv, RequestInv
<1> QED BY <1>1, <1>2, <1>3 DEF Inv, ReadersInv

\* Steps that are not of a reader.
LEMMA WriterStep ==
  ASSUME Inv, AppendLive \/ (\E p \in Scanners : Scan(p)) \/ UNCHANGED vars
  PROVE  Inv'
<1>1. StoreTyped /\ StoreInv /\ ReadersTyped /\ ReadersInv
  BY DEF Inv
<1>2. UNCHANGED readers
  BY DEF AppendLive, Scan, LockMerchant, CreateIncident, UpdateIncident, Commit, Rollback,
         vars, readers
<1>3. StoreTyped' /\ StoreInv' /\ Grows /\ feed \subseteq feed'
  <2>1. CASE AppendLive \/ UNCHANGED vars
    <3>1. UNCHANGED <<incidents, observations, writers>> /\ (AppendLive \/ UNCHANGED feed)
      BY <2>1 DEF AppendLive, vars, writers
    <3>2. feed \subseteq feed'
      BY <2>1 DEF AppendLive, vars
    <3> QED BY <1>1, <3>1, <3>2, OtherGrows, OtherStore
  <2>2. ASSUME NEW p \in Scanners, Scan(p)
        PROVE StoreTyped' /\ StoreInv' /\ Grows /\ feed \subseteq feed'
    <3>1. feed \subseteq feed'
      BY <1>1, <2>2, ScanCases DEF Locks, Writes, Ends
    <3> QED BY <1>1, <2>2, <3>1, StoreStep, ScanGrows
  <2> QED BY <2>1, <2>2
<1>4. ReadersTyped'
  BY <1>1, <1>2 DEF ReadersTyped, readers
<1>5. ASSUME NEW r \in Readers PROVE CursorInv(r)' /\ RequestInv(r)'
  <2>1. /\ pc'[r] = pc[r] /\ request'[r] = request[r] /\ reply'[r] = reply[r]
        /\ cursor'[r] = cursor[r] /\ traversal'[r] = traversal[r]
    BY <1>2 DEF readers
  <2> QED BY <1>1, <1>3, <2>1, ReaderKept DEF ReadersInv
<1> QED BY <1>3, <1>4, <1>5 DEF Inv, ReadersInv

\* Steps of a reader.
LEMMA ReadOnly ==
  ASSUME Inv, NEW r \in Readers, Read(r)
  PROVE  Only(r) /\ CursorInv(r)' /\ RequestInv(r)'
<1>1. StoreTyped /\ StoreInv /\ ReadersTyped /\ AllLinked /\ CursorInv(r) /\ RequestInv(r)
  BY DEF Inv, StoreInv, ReadersInv
<1>2. CASE Begin(r)
  BY <1>1, <1>2, Beginning, BeginStep
<1>3. CASE Continue(r)
  BY <1>1, <1>3, Continuing, ContinueStep
<1>4. CASE ReadRow(r)
  BY <1>1, <1>4, ReadingRow, RowStep
<1>5. CASE ReadUpper(r)
  BY <1>1, <1>5, ReadingUpper, UpperStep
<1>6. CASE ReadPage(r)
  BY <1>1, <1>6, ReadingPage, PageStep
<1>7. CASE ReadOpening(r)
  BY <1>1, <1>7, ReadingOpening, OpeningStep
<1>8. CASE Respond(r)
  <2>1. reply[r].more => \E x \in reply[r].items : IsMax(x, reply[r].items)
    BY <1>1, <1>8 DEF Respond, RequestInv, PageOf
  <2> QED BY <1>1, <1>8, <2>1, Responding, RespondStep
<1>9. CASE Lose(r)
  BY <1>1, <1>9, Losing, LoseStep
<1> QED BY <1>2, <1>3, <1>4, <1>5, <1>6, <1>7, <1>8, <1>9 DEF Read

LEMMA ReadStep ==
  ASSUME Inv, NEW r \in Readers, Read(r)
  PROVE  Inv'
<1>1. StoreTyped /\ StoreInv /\ ReadersTyped /\ ReadersInv
  BY DEF Inv
<1>2. Only(r) /\ CursorInv(r)' /\ RequestInv(r)'
  BY ReadOnly
<1>3. UNCHANGED <<incidents, observations, feed, writers>>
  BY <1>2 DEF Only, db
<1>4. StoreTyped' /\ StoreInv' /\ Grows /\ feed \subseteq feed'
  BY <1>1, <1>3, OtherGrows, OtherStore
<1>5. ReadersTyped'
  BY <1>2 DEF Only, ReadersTyped, Requests, Replies, Cursors, Traversals
<1>6. ASSUME NEW z \in Readers PROVE CursorInv(z)' /\ RequestInv(z)'
  <2>1. CASE z = r
    BY <1>2, <2>1
  <2>2. CASE z # r
    <3>1. /\ pc'[z] = pc[z] /\ request'[z] = request[z] /\ reply'[z] = reply[z]
          /\ cursor'[z] = cursor[z] /\ traversal'[z] = traversal[z]
      BY <1>2, <2>2 DEF Only
    <3> QED BY <1>1, <1>4, <3>1, ReaderKept DEF ReadersInv
  <2> QED BY <2>1, <2>2
<1> QED BY <1>4, <1>5, <1>6 DEF Inv, ReadersInv

\* The invariant holds in every reachable state.
THEOREM Invariance == Spec => []Inv
<1>1. Init => Inv
  BY InvInit
<1>2. Inv /\ [Next]_vars => Inv'
  BY WriterStep, ReadStep DEF Next
<1> QED BY <1>1, <1>2, PTL DEF Spec

-----------------------------------------------------------------------------
\* DetailCoherent, for every number of merchants, scans and clients: the
\* answer of get_detail is coherent whatever committed between its statements.
THEOREM DetailIsCoherent == Spec => []DetailCoherent
<1>1. Inv => DetailCoherent
  <2> SUFFICES ASSUME Inv, NEW r \in Readers, pc[r] = "reply", request[r].resource \in Details
               PROVE  LET history == {x \in Ids(request[r].resource) : x <= request[r].upper}
                      IN  /\ IsMin(reply[r].opening, history)
                          /\ request[r].first => reply[r].latest \in history
    BY DEF DetailCoherent
  <2> DEFINE s == request[r].resource
             u == request[r].upper
  <2>1. Placed(r) /\ IsMin(reply[r].opening, Ids(s))
    BY DEF Inv, ReadersInv, RequestInv
  <2>2. u \in Ids(s)
    BY <2>1 DEF Placed, Position
  <2>3. reply[r].opening <= u /\ reply[r].opening \in Ids(s)
    BY <2>1, <2>2 DEF IsMin
  <2>4. request[r].first => reply[r].latest \in Ids(s) /\ reply[r].latest <= u
    BY DEF Inv, ReadersInv, RequestInv
  <2> QED BY <2>1, <2>3, <2>4 DEF IsMin
<1> QED BY <1>1, Invariance, PTL

-----------------------------------------------------------------------------
(* The refinement of PageContract.                                         *)

Tables == [s \in Resources |-> Ids(s)]

LEMMA ContractInitially == Init => Contract!ContractInit
<1> SUFFICES ASSUME Init PROVE Contract!ContractInit
  OBVIOUS
<1>1. ASSUME NEW s \in Resources PROVE Ids(s) = {}
  BY DEF Init, Ids, ListIds, DetailIds
<1>2. Feed \in Resources
  BY DEF Resources
<1>3. \A r \in Readers : traversal[r] = Contract!Traversal(Feed, {})
  BY DEF Init, Traversal, Contract!Traversal
<1> QED BY <1>1, <1>2, <1>3 DEF Contract!ContractInit

\* A step of the store only adds rows.
LEMMA WriterGrows ==
  ASSUME Inv, AppendLive \/ (\E p \in Scanners : Scan(p))
  PROVE  Contract!Grow
<1>1. UNCHANGED traversal
  BY DEF AppendLive, Scan, LockMerchant, CreateIncident, UpdateIncident, Commit, Rollback, readers
<1>2. Grows
  <2>1. CASE AppendLive
    <3>1. feed \subseteq feed' /\ UNCHANGED <<incidents, observations, writers>>
      BY <2>1 DEF AppendLive, writers
    <3> QED BY <3>1, OtherGrows
  <2>2. CASE \E p \in Scanners : Scan(p)
    BY <2>2, ScanGrows DEF Inv
  <2> QED BY <2>1, <2>2
<1>3. \A s \in Resources : \A x \in Ids(s) : x \in Ids(s)'
  BY <1>2 DEF Grows, GrowsFor
<1> QED BY <1>1, <1>3 DEF Contract!Grow

\* An answer is a page: what it holds is in order, repeats nothing and skips
\* nothing.
LEMMA RespondIsPage ==
  ASSUME Inv, NEW r \in Readers, Respond(r)
  PROVE  Contract!Page(r)
<1> DEFINE q == request[r]
           s == q.resource
           y == reply[r]
           t == traversal[r]
<1>1. StoreTyped /\ ReadersTyped /\ pc[r] = "reply" /\ Placed(r) /\ PageOf(q, y, t)
  BY DEF Inv, ReadersInv, RequestInv, Respond
<1>2. /\ s \in Resources /\ q.after \in Nat
      /\ y.items \in SUBSET Nat /\ y.more \in BOOLEAN
      /\ t.goal \in SUBSET Nat /\ t.sent \in SUBSET Nat
  BY <1>1, ReaderTyped DEF Requests, Replies, Traversals
<1>3. t.resource = s
  BY <1>1 DEF Placed, Position
<1>4. /\ Only(r)
      /\ traversal' = [traversal EXCEPT ![r].sent = t.sent \cup y.items, ![r].done = ~y.more]
  BY <1>1, Responding DEF PageOf
<1>5. ASSUME NEW z \in Resources PROVE Ids(z)' = Ids(z)
  BY <1>4, SameStore DEF Only
<1>6. y.items \in SUBSET (IF t.resource \in Histories THEN t.goal ELSE Tables[t.resource])
  <2>1. \A x \in y.items : x \in Ids(s) /\ (s # Feed => x <= q.upper)
    BY <1>1 DEF PageOf
  <2>2. s \in Histories => s # Feed
    BY <1>2, Kinds
  <2>3. s # Feed => t.goal = {x \in Ids(s) : x <= q.upper}
    BY <1>1 DEF Placed, Position
  <2> QED BY <1>2, <1>3, <2>1, <2>2, <2>3 DEF Tables
<1>7. \A x \in y.items, z \in t.sent : z < x
  <2>1. \A x \in y.items : q.after < x
    BY <1>1 DEF PageOf
  <2>2. \A z \in t.sent : z <= q.after
    BY <1>1 DEF Placed, Position
  <2> QED BY <1>2, <2>1, <2>2
<1>8. ASSUME NEW x \in t.goal \ (t.sent \cup y.items) PROVE q.after < x
  <2>1. ~(x <= q.after)
    BY <1>1, <1>8 DEF Placed, Position
  <2> QED BY <1>2, <2>1
<1>9. \A x \in t.goal \ (t.sent \cup y.items), z \in y.items : z < x
  BY <1>1, <1>8 DEF PageOf
<1>10. ~y.more => t.goal \subseteq t.sent \cup y.items
  BY <1>1, <1>8 DEF PageOf
<1>11. (~y.more) \in BOOLEAN
  BY <1>2
<1>12. [z \in Resources |-> Ids(z)]' = [z \in Resources |-> Ids(z)]
  BY <1>5
<1> HIDE DEF q, s, y, t
<1> QED BY <1>4, <1>6, <1>7, <1>9, <1>10, <1>11, <1>12 DEF Contract!Page, Tables, t

LEMMA OpenIsOpen ==
  ASSUME Inv, NEW r \in Readers, NEW s \in Resources, UNCHANGED <<db, writers>>,
         traversal' = [traversal EXCEPT ![r] = Traversal(s, Ids(s))]
  PROVE  Contract!Open(r)
<1>1. [z \in Resources |-> Ids(z)]' = [z \in Resources |-> Ids(z)]
  BY SameStore
<1>2. Tables[s] = Ids(s)
  BY DEF Tables
<1> QED BY <1>1, <1>2 DEF Contract!Open, Contract!Traversal, Traversal, Tables

\* Every step of a request is a step of the contract, or none.
LEMMA ReadImplements ==
  ASSUME Inv, NEW r \in Readers, Read(r)
  PROVE  Contract!Open(r) \/ Contract!Page(r) \/ UNCHANGED <<Tables, traversal>>
<1>1. Only(r) /\ UNCHANGED <<db, writers>>
  BY ReadOnly DEF Only
<1>2. Tables' = Tables
  BY <1>1, SameStore DEF Tables
<1>3. StoreTyped /\ AllLinked /\ ReadersTyped /\ RequestInv(r)
  BY DEF Inv, StoreInv, ReadersInv
<1>4. CASE Begin(r) \/ Continue(r) \/ ReadRow(r) \/ ReadOpening(r) \/ Lose(r)
  BY <1>2, <1>4 DEF Begin, Continue, ReadRow, ReadOpening, Lose
<1>5. CASE ReadUpper(r)
  <2>1. request[r].resource \in Resources
    BY <1>3, ReaderTyped DEF Requests
  <2>2. traversal' = [traversal EXCEPT ![r] =
          Traversal(request[r].resource, Ids(request[r].resource))]
    BY <1>3, <1>5, ReadingUpper
  <2> QED BY <1>1, <2>1, <2>2, OpenIsOpen
<1>6. CASE ReadPage(r)
  <2>1. CASE request[r].resource = Feed /\ request[r].first
    <3>1. traversal' = [traversal EXCEPT ![r] = Traversal(Feed, feed)]
      BY <1>3, <1>6, <2>1, ReadingPage
    <3>2. Feed \in Resources /\ Ids(Feed) = feed
      BY DEF Resources, Ids
    <3> QED BY <1>1, <3>1, <3>2, OpenIsOpen
  <2>2. CASE ~(request[r].resource = Feed /\ request[r].first)
    BY <1>2, <1>3, <1>6, <2>2, ReadingPage
  <2> QED BY <2>1, <2>2
<1>7. CASE Respond(r)
  BY <1>7, RespondIsPage
<1> QED BY <1>4, <1>5, <1>6, <1>7 DEF Read

LEMMA StepImplements ==
  ASSUME Inv, [Next]_vars
  PROVE  [Contract!ContractNext]_<<Tables, traversal>>
<1>1. CASE UNCHANGED vars
  BY <1>1 DEF vars, Tables, Ids, ListIds, DetailIds, Found
<1>2. CASE AppendLive \/ (\E p \in Scanners : Scan(p))
  BY <1>2, WriterGrows DEF Contract!ContractNext
<1>3. ASSUME NEW r \in Readers, Read(r)
      PROVE  [Contract!ContractNext]_<<Tables, traversal>>
  BY <1>3, ReadImplements DEF Contract!ContractNext
<1> QED BY <1>1, <1>2, <1>3 DEF Next

\* ImplementsContract, for every number of merchants, scans and clients: the
\* pages of get_list, get_detail and the dashboard's listings, cursors and
\* captured bounds included, keep the contract whatever commits between them.
THEOREM PagesKeepContract == Spec => ImplementsContract
<1>1. Init => Contract!ContractInit
  BY ContractInitially
<1>2. Inv /\ [Next]_vars => [Contract!ContractNext]_<<Tables, traversal>>
  BY StepImplements
<1>3. Inv /\ [Next]_vars =>
        [Contract!ContractNext]_<<[s \in Resources |-> Ids(s)], traversal>>
  BY <1>2 DEF Tables
<1> QED BY <1>1, <1>3, Invariance, PTL DEF Spec, ImplementsContract, Contract!ContractSpec
=============================================================================
