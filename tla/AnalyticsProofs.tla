--------------------------- MODULE AnalyticsProofs ---------------------------
(***************************************************************************)
(* Theorems about Analytics, for every set of deliveries and webhooks and  *)
(* every length of windows, days and delays.                               *)
(***************************************************************************)
EXTENDS Analytics, WellFoundedInduction, FunctionTheorems, FiniteSetTheorems, TLAPS

\* Rounding down to a multiple.
LEMMA RoundDown ==
  ASSUME NEW a \in Nat, NEW n \in Nat \ {0}
  PROVE  (a \div n) * n \in Nat /\ (a \div n) * n <= a
<1>1. a \div n \in Nat /\ a % n \in 0..(n - 1)
  BY SMT
<1>2. a = n * (a \div n) + (a % n)
  BY SMT
<1>3. n * (a \div n) = (a \div n) * n /\ (a \div n) * n \in Nat
  BY <1>1, SMT
<1> QED BY <1>1, <1>2, <1>3, SMT

\* A window has ended a completion delay before the moment it is computed for.
LEMMA WindowComplete ==
  ASSUME NEW asOf \in Nat, COMPLETION_DELAY <= asOf
  PROVE  \E end \in Nat : AnalyticsWindow(asOf) = Window(end) /\ end + COMPLETION_DELAY <= asOf
<1> DEFINE effective == asOf - COMPLETION_DELAY
           midnight == (effective \div Day) * Day
           completed == ((effective - midnight) \div OBSERVATION_DURATION) * OBSERVATION_DURATION
<1>1. COMPLETION_DELAY \in Nat /\ Day \in Nat \ {0} /\ OBSERVATION_DURATION \in Nat \ {0}
  BY DurationAssumption
<1>2. effective \in Nat
  BY <1>1
<1>3. midnight \in Nat /\ midnight <= effective
  BY <1>1, <1>2, RoundDown
<1>4. effective - midnight \in Nat
  BY <1>2, <1>3
<1>5. completed \in Nat /\ completed <= effective - midnight
  BY <1>1, <1>4, RoundDown
<1>6. AnalyticsWindow(asOf) = Window(midnight + completed)
  BY DEF AnalyticsWindow
<1> HIDE DEF midnight, completed
<1>7. midnight + completed \in Nat /\ midnight + completed + COMPLETION_DELAY <= asOf
  BY <1>1, <1>2, <1>3, <1>5
<1> QED BY <1>6, <1>7

-----------------------------------------------------------------------------
\* An analysis is of a window that was complete, and what it saw has nothing
\* to fear but late arrivals.
Complete(r) ==
  /\ \E end \in Nat : r.window = Window(end) /\ end + COMPLETION_DELAY <= now
  /\ \A x \in InSpan(Table, r.window) : ~x.late => x \in r.seen

Inv == now \in Nat /\ \A r \in reports : Complete(r)

\* What a window contains happened before its end.
LEMMA SpanEnds ==
  ASSUME NEW end \in Nat, NEW rows, NEW x \in InSpan(rows, Window(end)), x.occurred \in Nat
  PROVE  x \in rows /\ x.occurred < end
<1>1. OBSERVATION_DURATION \in Nat \ {0}
  BY DurationAssumption
<1>2. Window(end).observation_start = end - OBSERVATION_DURATION /\ Window(end).observation_end = end
  BY DEF Window
<1>3. x \in rows /\ (x.occurred < end - OBSERVATION_DURATION \/ x.occurred < end)
  BY <1>2 DEF InSpan, InBaseline, Observed
<1> QED BY <1>1, <1>3

LEMMA Delivered ==
  ASSUME Inv, NEW d \in Deliveries, Deliver(d), NEW x \in Table', x \notin Table
  PROVE  x.occurred = d.occurred /\ x.late = (now > d.occurred + COMPLETION_DELAY)
<1> DEFINE late == now > d.occurred + COMPLETION_DELAY
           Of(y) == CHOOSE e \in Deliveries : e.name = y.name
<1>1. stored' = stored \cup {[name |-> d.name, late |-> late]}
  BY DEF Deliver
<1>2. PICK y \in stored' : x = Row(Of(y), y.late)
  BY DEF Table
<1>3. y \notin stored
  BY <1>2 DEF Table
<1>4. y = [name |-> d.name, late |-> late]
  BY <1>1, <1>3
<1>5. Of(y) = d
  <2>1. d.name = y.name
    BY <1>4
  <2>2. Of(y) \in Deliveries /\ Of(y).name = y.name
    BY <2>1
  <2> QED BY <2>1, <2>2, DeliveryAssumption
<1>6. x.occurred = Of(y).occurred /\ x.late = y.late
  BY <1>2 DEF Row
<1> QED BY <1>4, <1>5, <1>6

LEMMA DeliverStep ==
  ASSUME Inv, NEW d \in Deliveries, Deliver(d)
  PROVE  Inv'
<1> DEFINE late == now > d.occurred + COMPLETION_DELAY
<1>1. /\ stored' = stored \cup {[name |-> d.name, late |-> late]}
      /\ now' = now /\ reports' = reports
  BY DEF Deliver
<1>2. now \in Nat
  BY DEF Inv
<1>3. ASSUME NEW r \in reports PROVE Complete(r)'
  <2>1. PICK end \in Nat : r.window = Window(end) /\ end + COMPLETION_DELAY <= now
    BY DEF Inv, Complete
  <2>2. ASSUME NEW x \in InSpan(Table', Window(end)), ~x.late PROVE x \in r.seen
    <3>1. x \in Table'
      BY DEF InSpan
    <3>2. CASE x \in Table
      <4>1. x \in InSpan(Table, Window(end))
        BY <3>2 DEF InSpan
      <4> QED BY <2>1, <2>2, <4>1 DEF Inv, Complete
    <3>3. CASE x \notin Table
      <4>1. x.occurred = d.occurred /\ x.late = late
        BY <3>1, <3>3, Delivered
      <4>2. d.occurred \in Nat /\ COMPLETION_DELAY \in Nat /\ now \in Nat
        BY DeliveryAssumption, DurationAssumption DEF Inv
      <4>3. x.occurred < end
        BY <4>1, <4>2, SpanEnds
      <4>4. now > d.occurred + COMPLETION_DELAY
        BY <2>1, <4>1, <4>2, <4>3
      <4> QED BY <2>2, <4>1, <4>4
    <3> QED BY <3>2, <3>3
  <2>3. \A x \in InSpan(Table', r.window) : ~x.late => x \in r.seen
    BY <2>1, <2>2
  <2> QED BY <1>1, <2>1, <2>3 DEF Complete
<1> QED BY <1>1, <1>2, <1>3 DEF Inv

LEMMA AnalyseStep ==
  ASSUME Inv, NEW asOf \in COMPLETION_DELAY..now, Analyse(asOf)
  PROVE  Inv'
<1> DEFINE w == AnalyticsWindow(asOf)
<1>1. /\ now' = now /\ stored' = stored
      /\ \A r \in reports' : r \in reports \/ (r.window = w /\ r.seen = Table)
  BY DEF Analyse
<1>2. Table' = Table
  BY <1>1 DEF Table
<1>3. now' \in Nat
  BY <1>1 DEF Inv
<1>4. COMPLETION_DELAY \in Nat /\ now \in Nat
  BY DurationAssumption DEF Inv
<1>5. asOf \in Nat /\ COMPLETION_DELAY <= asOf /\ asOf <= now
  BY <1>4
<1>6. PICK end \in Nat : w = Window(end) /\ end + COMPLETION_DELAY <= asOf
  BY <1>5, WindowComplete
<1>7. end + COMPLETION_DELAY <= now
  BY <1>4, <1>5, <1>6
<1>8. ASSUME NEW r \in reports' PROVE Complete(r)'
  <2>1. CASE r \in reports
    BY <1>1, <1>2, <2>1 DEF Inv, Complete
  <2>2. CASE r.window = w /\ r.seen = Table
    <3>1. \A x \in InSpan(Table, r.window) : x \in r.seen
      BY <2>2 DEF InSpan
    <3> QED BY <1>1, <1>2, <1>6, <1>7, <2>2, <3>1 DEF Complete
  <2> QED BY <1>1, <2>1, <2>2
<1> QED BY <1>3, <1>8 DEF Inv

LEMMA Step == Inv /\ [Next]_vars => Inv'
<1> SUFFICES ASSUME Inv, [Next]_vars PROVE Inv'
  OBVIOUS
<1>1. CASE UNCHANGED vars
  <2>1. now' = now /\ stored' = stored /\ reports' = reports
    BY <1>1 DEF vars
  <2>2. Table' = Table
    BY <2>1 DEF Table
  <2> QED BY <2>1, <2>2 DEF Inv, Complete
<1>2. CASE Tick
  <2>1. now' = now + 1 /\ stored' = stored /\ reports' = reports /\ now \in Nat
    BY <1>2 DEF Tick, Inv
  <2>2. Table' = Table
    BY <2>1 DEF Table
  <2>3. now' \in Nat
    BY <2>1
  <2>4. ASSUME NEW r \in reports PROVE Complete(r)'
    <3>1. PICK end \in Nat : r.window = Window(end) /\ end + COMPLETION_DELAY <= now
      BY DEF Inv, Complete
    <3>2. end + COMPLETION_DELAY <= now'
      BY <2>1, <3>1, DurationAssumption
    <3> QED BY <2>2, <3>1, <3>2 DEF Inv, Complete
  <2> QED BY <2>1, <2>3, <2>4 DEF Inv
<1>3. CASE \E d \in Deliveries : Deliver(d)
  BY <1>3, DeliverStep
<1>4. CASE \E asOf \in COMPLETION_DELAY..now : Analyse(asOf)
  BY <1>4, AnalyseStep
<1> QED BY <1>1, <1>2, <1>3, <1>4 DEF Next

\* PunctualEventsCounted, for every length of the windows and the delay: the
\* completion delay of calculate_analytics_window is what makes an analysis
\* final for all events but the late ones, at whatever moment it is made.
THEOREM PunctualCounted == Spec => []PunctualEventsCounted
<1>1. Init => Inv
  BY DEF Init, Inv
<1>2. Inv => PunctualEventsCounted
  BY DEF Inv, Complete, PunctualEventsCounted
<1> QED BY <1>1, <1>2, Step, PTL DEF Spec

-----------------------------------------------------------------------------
(* Windows tile the time line.                                             *)

\* Every window ends at a multiple of its length, since a day is one: the
\* count from midnight and the count from zero agree.
LEMMA WindowAligned ==
  ASSUME NEW asOf \in Nat, COMPLETION_DELAY <= asOf
  PROVE  \E k \in Nat : AnalyticsWindow(asOf) = Window(k * OBSERVATION_DURATION)
<1> DEFINE n == OBSERVATION_DURATION
           effective == asOf - COMPLETION_DELAY
           days == effective \div Day
           midnight == days * Day
           c == Day \div n
           j == (effective - midnight) \div n
<1>1. COMPLETION_DELAY \in Nat /\ Day \in Nat \ {0} /\ n \in Nat \ {0} /\ Day % n = 0
  BY DurationAssumption
<1>2. effective \in Nat
  BY <1>1
<1>3. midnight \in Nat /\ midnight <= effective
  BY <1>1, <1>2, RoundDown
<1>4. effective - midnight \in Nat
  BY <1>2, <1>3
<1> HIDE DEF effective
<1>5. days \in Nat /\ c \in Nat
  BY <1>1, <1>2, SMT
<1> HIDE DEF midnight
<1>6. j \in Nat
  BY <1>1, <1>4, SMT
<1>7. Day = c * n
  BY <1>1, SMT
<1> HIDE DEF n, days, c, j
<1>8. days * (c * n) + j * n = (days * c + j) * n /\ days * c + j \in Nat
  BY <1>1, <1>5, <1>6, SMT
<1>9. AnalyticsWindow(asOf) = Window(days * (c * n) + j * n)
  BY <1>7 DEF AnalyticsWindow, effective, midnight, n, days, j
<1> QED BY <1>8, <1>9 DEF n

-----------------------------------------------------------------------------
(***************************************************************************)
(* Sums.  MapThenSumSet adds what an operator makes of the members of a    *)
(* set, one chosen member after the other.  The lemmas below are about     *)
(* Sum(f, S), the same for a function; a count and a total of samples are  *)
(* such sums.  Each is shown by its least counterexample: no set of the    *)
(* smallest cardinality violates it.                                       *)
(***************************************************************************)
Chosen(s) == CHOOSE x \in s : TRUE

\* it adds f over every subset of S, one chosen member after the other.
Adds(it, f, S) ==
  it = [s \in SUBSET S |-> IF s = {} THEN 0 ELSE f[Chosen(s)] + it[s \ {Chosen(s)}]]

Sum(f, S) == (CHOOSE it : Adds(it, f, S))[S]

\* A set of naturals with a member has a least one.
LEMMA LeastNat ==
  ASSUME NEW N \in SUBSET Nat, NEW n \in N
  PROVE  \E m \in N : \A k \in N : ~(k < m)
<1>1. N \subseteq Nat /\ N # {}
  OBVIOUS
<1>2. \E m \in N : \A k \in N : ~(<<k, m>> \in OpToRel(<, Nat))
  BY <1>1, WFMin, NatLessThanWellFounded, Zenon
<1>3. PICK m \in N : \A k \in N : ~(<<k, m>> \in OpToRel(<, Nat))
  BY <1>2, Zenon
<1>4. \A k \in N : ~(k < m)
  BY <1>1, <1>3, Zenon DEF OpToRel
<1> QED BY <1>4

\* A property that fails for some finite subset of S fails for a smallest one.
LEMMA Smallest ==
  ASSUME NEW Bad, NEW s \in Bad, \A t \in Bad : IsFiniteSet(t)
  PROVE  \E t \in Bad : \A u \in Bad : Cardinality(t) <= Cardinality(u)
<1> DEFINE N == {Cardinality(t) : t \in Bad}
<1>1. N \in SUBSET Nat /\ Cardinality(s) \in N
  BY FS_CardinalityType
<1>2. \E m \in N : \A k \in N : ~(k < m)
  <2> HIDE DEF N
  <2> QED BY <1>1, LeastNat
<1>3. PICK t \in Bad : \A k \in N : ~(k < Cardinality(t))
  BY <1>2
<1>4. ASSUME NEW u \in Bad PROVE Cardinality(u) \in Nat
  BY FS_CardinalityType
<1>5. ASSUME NEW u \in Bad PROVE Cardinality(t) <= Cardinality(u)
  <2>1. ~(Cardinality(u) < Cardinality(t))
    BY <1>3
  <2> QED BY <1>4, <2>1
<1> QED BY <1>5

LEMMA Picked == ASSUME NEW s, s # {} PROVE Chosen(s) \in s
  BY DEF Chosen

LEMMA AddsAt ==
  ASSUME NEW it, NEW f, NEW S, Adds(it, f, S), NEW s \in SUBSET S
  PROVE  it[s] = IF s = {} THEN 0 ELSE f[Chosen(s)] + it[s \ {Chosen(s)}]
  BY DEF Adds

\* Removing a member makes a finite set smaller.
LEMMA Smaller ==
  ASSUME NEW s, IsFiniteSet(s), NEW x \in s
  PROVE  IsFiniteSet(s \ {x}) /\ Cardinality(s \ {x}) < Cardinality(s)
<1>1. IsFiniteSet(s \ {x}) /\ Cardinality(s \ {x}) = Cardinality(s) - 1 /\ Cardinality(s) \in Nat
  BY FS_RemoveElement, FS_CardinalityType
<1> QED BY <1>1

\* Two ways to add f agree where both are defined.
LEMMA AddsUnique ==
  ASSUME NEW f, NEW S, NEW T, NEW it, NEW jt, Adds(it, f, S), Adds(jt, f, T),
         NEW s \in SUBSET S, s \subseteq T, IsFiniteSet(s)
  PROVE  it[s] = jt[s]
<1> DEFINE Bad == {t \in SUBSET s : it[t] # jt[t]}
<1> SUFFICES ASSUME it[s] # jt[s] PROVE FALSE
  OBVIOUS
<1>1. s \in Bad
  OBVIOUS
<1>2. \A t \in Bad : IsFiniteSet(t)
  BY FS_Subset
<1>3. PICK t \in Bad : \A u \in Bad : Cardinality(t) <= Cardinality(u)
  <2> HIDE DEF Bad
  <2> QED BY <1>1, <1>2, Smallest
<1>4. t \subseteq S /\ t \subseteq T /\ t \subseteq s /\ it[t] # jt[t]
  OBVIOUS
<1>5. t # {}
  BY <1>4, AddsAt
<1> DEFINE p == Chosen(t)
           u == t \ {p}
<1>6. p \in t
  BY <1>5, Picked
<1>7. Cardinality(u) < Cardinality(t)
  BY <1>2, <1>6, Smaller
<1>8. Cardinality(u) \in Nat /\ Cardinality(t) \in Nat
  BY <1>2, <1>6, Smaller, FS_CardinalityType
<1>9. it[u] = jt[u]
  BY <1>3, <1>4, <1>7, <1>8
<1>10. it[t] = f[p] + it[u] /\ jt[t] = f[p] + jt[u]
  BY <1>4, <1>5, AddsAt
<1> QED BY <1>4, <1>9, <1>10

\* The recursion on the chosen member, once the way to add is there.
LEMMA SumFrom ==
  ASSUME NEW f, NEW S, IsFiniteSet(S), NEW it, Adds(it, f, S), NEW s \in SUBSET S
  PROVE  Sum(f, s) = it[s]
<1> DEFINE jt == CHOOSE j : Adds(j, f, s)
           kt == [u \in SUBSET s |-> it[u]]
<1>1. Adds(kt, f, s)
  <2>1. \A u \in SUBSET s : u # {} => u \ {Chosen(u)} \in SUBSET s
    OBVIOUS
  <2>2. \A u \in SUBSET s : kt[u] = IF u = {} THEN 0 ELSE f[Chosen(u)] + kt[u \ {Chosen(u)}]
    <3>1. \A u \in SUBSET s :
            it[u] = IF u = {} THEN 0 ELSE f[Chosen(u)] + it[u \ {Chosen(u)}]
      BY AddsAt
    <3> QED BY <2>1, <3>1
  <2> HIDE DEF kt
  <2>3. kt = [u \in SUBSET s |-> kt[u]]
    BY DEF kt
  <2> QED BY <2>2, <2>3 DEF Adds
<1>2. Adds(jt, f, s)
  BY <1>1
<1>3. IsFiniteSet(s)
  BY FS_Subset
<1>4. jt[s] = it[s]
  <2> HIDE DEF jt
  <2> QED BY <1>2, <1>3, AddsUnique
<1> QED BY <1>4 DEF Sum

\* There is a way to add over every finite set.
LEMMA AddsExists ==
  ASSUME NEW f, NEW S, IsFiniteSet(S)
  PROVE  \E it : Adds(it, f, S)
<1> DEFINE Bad == {t \in SUBSET S : ~ \E it : Adds(it, f, t)}
<1> SUFFICES ASSUME S \in Bad PROVE FALSE
  OBVIOUS
<1>1. \A t \in Bad : IsFiniteSet(t)
  BY FS_Subset
<1>2. PICK t \in Bad : \A u \in Bad : Cardinality(t) <= Cardinality(u)
  <2> HIDE DEF Bad
  <2> QED BY <1>1, Smallest
<1> DEFINE V(u) == IF u = {} THEN 0 ELSE f[Chosen(u)] + Sum(f, u \ {Chosen(u)})
           it == [u \in SUBSET t |-> V(u)]
<1>3. IsFiniteSet(t) /\ t \in SUBSET S /\ ~ \E jt : Adds(jt, f, t)
  BY <1>1
<1>4. ASSUME NEW u \in SUBSET t, u # t PROVE Sum(f, u) = V(u)
  <2>1. IsFiniteSet(u) /\ Cardinality(u) <= Cardinality(t) /\ Cardinality(u) # Cardinality(t)
    BY <1>3, <1>4, FS_Subset
  <2>2. Cardinality(u) \in Nat /\ Cardinality(t) \in Nat
    BY <1>3, <2>1, FS_CardinalityType
  <2>3. u \notin Bad
    BY <1>2, <2>1, <2>2
  <2>4. PICK jt : Adds(jt, f, u)
    BY <1>3, <2>3
  <2>5. Sum(f, u) = jt[u]
    BY <2>1, <2>4, SumFrom
  <2>6. u # {} => Sum(f, u \ {Chosen(u)}) = jt[u \ {Chosen(u)}]
    BY <2>1, <2>4, SumFrom
  <2> QED BY <2>4, <2>5, <2>6, AddsAt
<1>5. \A u \in SUBSET t : u # {} =>
        /\ u \ {Chosen(u)} \in SUBSET t /\ u \ {Chosen(u)} # t
        /\ it[u \ {Chosen(u)}] = Sum(f, u \ {Chosen(u)})
  <2> SUFFICES ASSUME NEW u \in SUBSET t, u # {}
               PROVE /\ u \ {Chosen(u)} \in SUBSET t /\ u \ {Chosen(u)} # t
                     /\ it[u \ {Chosen(u)}] = Sum(f, u \ {Chosen(u)})
    OBVIOUS
  <2> DEFINE v == u \ {Chosen(u)}
  <2>1. v \in SUBSET t /\ v # t
    BY Picked
  <2>2. it[v] = V(v)
    BY <2>1
  <2> QED BY <1>4, <2>1, <2>2
<1>6. \A u \in SUBSET t : it[u] = IF u = {} THEN 0 ELSE f[Chosen(u)] + it[u \ {Chosen(u)}]
  BY <1>5
<1>7. it = [u \in SUBSET t |-> it[u]]
  OBVIOUS
<1>8. Adds(it, f, t)
  <2> HIDE DEF it
  <2> QED BY <1>6, <1>7 DEF Adds
<1> QED BY <1>3, <1>8

LEMMA SumEmpty == ASSUME NEW f PROVE Sum(f, {}) = 0
<1>1. IsFiniteSet({})
  BY FS_EmptySet
<1>2. PICK it : Adds(it, f, {})
  BY <1>1, AddsExists
<1> QED BY <1>1, <1>2, SumFrom, AddsAt

LEMMA SumPicked ==
  ASSUME NEW f, NEW S, IsFiniteSet(S), S # {}
  PROVE  Sum(f, S) = f[Chosen(S)] + Sum(f, S \ {Chosen(S)})
<1>1. PICK it : Adds(it, f, S)
  BY AddsExists
<1>2. Sum(f, S) = it[S] /\ Sum(f, S \ {Chosen(S)}) = it[S \ {Chosen(S)}]
  BY <1>1, SumFrom
<1>3. it[S] = f[Chosen(S)] + it[S \ {Chosen(S)}]
  BY <1>1, AddsAt
<1> QED BY <1>2, <1>3

LEMMA SumType ==
  ASSUME NEW f, NEW S, IsFiniteSet(S), \A x \in S : f[x] \in Nat
  PROVE  Sum(f, S) \in Nat
<1> DEFINE Bad == {t \in SUBSET S : Sum(f, t) \notin Nat}
<1> SUFFICES ASSUME S \in Bad PROVE FALSE
  OBVIOUS
<1>1. \A t \in Bad : IsFiniteSet(t)
  BY FS_Subset
<1>2. PICK t \in Bad : \A u \in Bad : Cardinality(t) <= Cardinality(u)
  <2> HIDE DEF Bad
  <2> QED BY <1>1, Smallest
<1>3. t # {}
  BY SumEmpty
<1> DEFINE p == Chosen(t)
           u == t \ {p}
<1>4. p \in t /\ p \in S /\ u \in SUBSET S
  BY <1>3, Picked
<1>5. Cardinality(u) < Cardinality(t) /\ IsFiniteSet(u) /\ IsFiniteSet(t)
  BY <1>1, <1>4, Smaller
<1>6. Cardinality(u) \in Nat /\ Cardinality(t) \in Nat
  BY <1>5, FS_CardinalityType
<1>7. Sum(f, u) \in Nat
  BY <1>2, <1>4, <1>5, <1>6
<1>8. Sum(f, t) = f[p] + Sum(f, u)
  BY <1>3, <1>5, SumPicked
<1>9. Sum(f, t) \notin Nat
  OBVIOUS
<1> QED BY <1>4, <1>7, <1>8, <1>9

\* Any member can be taken out first.
LEMMA SumRemove ==
  ASSUME NEW f, NEW S, IsFiniteSet(S), \A x \in S : f[x] \in Nat, NEW y \in S
  PROVE  Sum(f, S) = f[y] + Sum(f, S \ {y})
<1> DEFINE Bad == {t \in SUBSET S : \E x \in t : Sum(f, t) # f[x] + Sum(f, t \ {x})}
<1> SUFFICES ASSUME S \in Bad PROVE FALSE
  OBVIOUS
<1>1. \A t \in Bad : IsFiniteSet(t)
  BY FS_Subset
<1>2. PICK t \in Bad : \A u \in Bad : Cardinality(t) <= Cardinality(u)
  <2> HIDE DEF Bad
  <2> QED BY <1>1, Smallest
<1>3. t \in SUBSET S /\ IsFiniteSet(t)
  BY <1>1
<1>4. PICK x \in t : Sum(f, t) # f[x] + Sum(f, t \ {x})
  OBVIOUS
<1> DEFINE p == Chosen(t)
           u == t \ {p}
           v == t \ {x}
           w == (t \ {p}) \ {x}
<1>5. p \in t /\ p \in S
  BY <1>3, <1>4, Picked
<1>6. Sum(f, t) = f[p] + Sum(f, u)
  BY <1>3, <1>4, SumPicked
<1>7. p # x
  BY <1>4, <1>6
<1>8. /\ IsFiniteSet(u) /\ IsFiniteSet(v) /\ Cardinality(u) < Cardinality(t)
      /\ Cardinality(v) < Cardinality(t)
  BY <1>3, <1>5, Smaller
<1>9. Cardinality(u) \in Nat /\ Cardinality(v) \in Nat /\ Cardinality(t) \in Nat
  BY <1>3, <1>8, FS_CardinalityType
<1>10. u \notin Bad /\ v \notin Bad
  <2> HIDE DEF Bad, u, v
  <2> QED BY <1>2, <1>8, <1>9
<1>11. Sum(f, u) = f[x] + Sum(f, w)
  BY <1>3, <1>7, <1>10
<1>12. w = v \ {p} /\ p \in v /\ v \in SUBSET S
  BY <1>3, <1>5, <1>7
<1>13. Sum(f, v) = f[p] + Sum(f, w)
  BY <1>10, <1>12
<1>14. IsFiniteSet(w) /\ w \subseteq S
  BY <1>3, FS_Subset
<1>15. Sum(f, w) \in Nat
  BY <1>14, SumType
<1>16. f[p] \in Nat /\ f[x] \in Nat
  BY <1>3, <1>5
<1> HIDE DEF p, u, v, w
<1> QED BY <1>4, <1>6, <1>11, <1>13, <1>15, <1>16 DEF v

LEMMA SumUnion ==
  ASSUME NEW f, NEW S, NEW T, IsFiniteSet(S), IsFiniteSet(T), S \cap T = {},
         \A x \in S \cup T : f[x] \in Nat
  PROVE  Sum(f, S \cup T) = Sum(f, S) + Sum(f, T)
<1> DEFINE Bad == {t \in SUBSET S : Sum(f, t \cup T) # Sum(f, t) + Sum(f, T)}
<1> SUFFICES ASSUME S \in Bad PROVE FALSE
  OBVIOUS
<1>1. \A t \in Bad : IsFiniteSet(t)
  BY FS_Subset
<1>2. PICK t \in Bad : \A u \in Bad : Cardinality(t) <= Cardinality(u)
  <2> HIDE DEF Bad
  <2> QED BY <1>1, Smallest
<1>3. t \in SUBSET S /\ IsFiniteSet(t) /\ Sum(f, t \cup T) # Sum(f, t) + Sum(f, T)
  BY <1>1
<1>4. Sum(f, T) \in Nat
  BY SumType
<1>5. t # {}
  <2>1. {} \cup T = T
    OBVIOUS
  <2> QED BY <1>3, <1>4, <2>1, SumEmpty
<1>6. PICK x \in t : TRUE
  BY <1>5
<1> DEFINE u == t \ {x}
<1>7. IsFiniteSet(u) /\ Cardinality(u) < Cardinality(t) /\ IsFiniteSet(t \cup T)
  BY <1>3, Smaller, FS_Union
<1>8. Cardinality(u) \in Nat /\ Cardinality(t) \in Nat
  BY <1>3, <1>7, FS_CardinalityType
<1>9. u \notin Bad
  <2> HIDE DEF Bad, u
  <2> QED BY <1>2, <1>7, <1>8
<1>10. Sum(f, u \cup T) = Sum(f, u) + Sum(f, T)
  BY <1>3, <1>9
<1>11. (t \cup T) \ {x} = u \cup T /\ x \in t \cup T /\ x \in S
  BY <1>3
<1>12. \A y \in t \cup T : f[y] \in Nat
  BY <1>3
<1>13. Sum(f, t \cup T) = f[x] + Sum(f, u \cup T)
  <2> HIDE DEF u
  <2> QED BY <1>7, <1>11, <1>12, SumRemove
<1>14. Sum(f, t) = f[x] + Sum(f, u)
  BY <1>3, <1>12, SumRemove
<1>15. Sum(f, u) \in Nat /\ f[x] \in Nat
  BY <1>7, <1>11, <1>12, SumType
<1> HIDE DEF u
<1> QED BY <1>3, <1>4, <1>10, <1>13, <1>14, <1>15

LEMMA SumSubset ==
  ASSUME NEW f, NEW S, IsFiniteSet(S), \A x \in S : f[x] \in Nat, NEW T \in SUBSET S
  PROVE  Sum(f, T) <= Sum(f, S) /\ Sum(f, T) \in Nat /\ Sum(f, S) \in Nat
<1>1. IsFiniteSet(T) /\ IsFiniteSet(S \ T)
  BY FS_Subset
<1>2. T \cup (S \ T) = S /\ T \cap (S \ T) = {}
  OBVIOUS
<1>3. \A x \in T \cup (S \ T) : f[x] \in Nat
  BY <1>2
<1>4. Sum(f, S) = Sum(f, T) + Sum(f, S \ T)
  BY <1>1, <1>2, <1>3, SumUnion
<1>5. Sum(f, T) \in Nat /\ Sum(f, S \ T) \in Nat
  BY <1>1, <1>3, SumType
<1> QED BY <1>4, <1>5

-----------------------------------------------------------------------------
(* Counts                                                                  *)

\* A count is the sum of the counts of the rows.
LEMMA CountIsSum ==
  ASSUME NEW rows, IsFiniteSet(rows)
  PROVE  Count(rows) = Sum([x \in rows |-> x.count], rows)
<1> DEFINE f == [x \in rows |-> x.count]
           Iterates(it) == it = [s \in SUBSET rows |->
             IF s = {} THEN 0
             ELSE (CHOOSE y \in s : TRUE).count + it[s \ {CHOOSE y \in s : TRUE}]]
           jt == CHOOSE it : Iterates(it)
<1>1. Count(rows) = jt[rows]
  BY Zenon DEF Count, MapThenSumSet, MapThenFoldSet
<1>2. ASSUME NEW it PROVE Iterates(it) <=> Adds(it, f, rows)
  <2>1. \A s \in SUBSET rows : s # {} => f[Chosen(s)] = (CHOOSE y \in s : TRUE).count
    <3>1. \A s \in SUBSET rows : s # {} => Chosen(s) \in rows
      BY Picked
    <3> QED BY <3>1 DEF Chosen
  <2> HIDE DEF f
  <2>2. \A s \in SUBSET rows :
          (IF s = {} THEN 0
           ELSE (CHOOSE y \in s : TRUE).count + it[s \ {CHOOSE y \in s : TRUE}])
          = (IF s = {} THEN 0 ELSE f[Chosen(s)] + it[s \ {Chosen(s)}])
    BY <2>1 DEF Chosen
  <2> QED BY <2>2 DEF Adds
<1>3. \E it : Iterates(it)
  <2> HIDE DEF f, Iterates
  <2> QED BY <1>2, AddsExists
<1>4. Iterates(jt)
  <2> HIDE DEF Iterates
  <2> QED BY <1>3, Zenon
<1>5. Adds(jt, f, rows)
  <2> HIDE DEF f, jt, Iterates
  <2> QED BY <1>2, <1>4
<1>6. Sum(f, rows) = jt[rows]
  <2> HIDE DEF f, jt, Iterates
  <2> QED BY <1>5, SumFrom
<1> QED BY <1>1, <1>6

\* Sums of functions that agree on the set.
LEMMA SumAgree ==
  ASSUME NEW f, NEW g, NEW S, IsFiniteSet(S), \A x \in S : f[x] = g[x]
  PROVE  Sum(f, S) = Sum(g, S)
<1>1. PICK it : Adds(it, f, S)
  BY AddsExists
<1>2. Adds(it, g, S)
  <2>1. \A s \in SUBSET S : s # {} => f[Chosen(s)] = g[Chosen(s)]
    <3>1. \A s \in SUBSET S : s # {} => Chosen(s) \in S
      BY Picked
    <3> QED BY <3>1
  <2>2. \A s \in SUBSET S :
          (IF s = {} THEN 0 ELSE f[Chosen(s)] + it[s \ {Chosen(s)}])
          = (IF s = {} THEN 0 ELSE g[Chosen(s)] + it[s \ {Chosen(s)}])
    BY <2>1
  <2> QED BY <1>1, <2>2 DEF Adds
<1> QED BY <1>1, <1>2, SumFrom

\* What a finite set of rows with counts satisfies.
Countable(rows) == IsFiniteSet(rows) /\ \A x \in rows : x.count \in Nat

LEMMA CountOf ==
  ASSUME NEW all, Countable(all), NEW rows \in SUBSET all
  PROVE  Countable(rows) /\ Count(rows) = Sum([x \in all |-> x.count], rows)
<1>1. IsFiniteSet(rows)
  BY FS_Subset DEF Countable
<1>2. Count(rows) = Sum([x \in rows |-> x.count], rows)
  BY <1>1, CountIsSum
<1>3. \A x \in rows : [y \in rows |-> y.count][x] = [y \in all |-> y.count][x]
  OBVIOUS
<1>4. Sum([x \in rows |-> x.count], rows) = Sum([x \in all |-> x.count], rows)
  BY <1>1, <1>3, SumAgree
<1> QED BY <1>1, <1>2, <1>4 DEF Countable

LEMMA CountSubset ==
  ASSUME NEW all, Countable(all), NEW rows \in SUBSET all
  PROVE  Count(rows) \in Nat /\ Count(all) \in Nat /\ Count(rows) <= Count(all)
<1> DEFINE f == [x \in all |-> x.count]
<1>1. \A x \in all : f[x] \in Nat
  BY DEF Countable
<1> HIDE DEF f
<1>2. Count(rows) = Sum(f, rows) /\ Count(all) = Sum(f, all)
  BY CountOf DEF f
<1> QED BY <1>1, <1>2, SumSubset DEF Countable

LEMMA CountUnion ==
  ASSUME NEW S, NEW T, Countable(S \cup T), S \cap T = {}
  PROVE  Count(S \cup T) = Count(S) + Count(T)
<1> DEFINE f == [x \in S \cup T |-> x.count]
<1>1. \A x \in S \cup T : f[x] \in Nat
  BY DEF Countable
<1> HIDE DEF f
<1>2. Count(S) = Sum(f, S) /\ Count(T) = Sum(f, T) /\ Count(S \cup T) = Sum(f, S \cup T)
  BY CountOf DEF f
<1>3. IsFiniteSet(S) /\ IsFiniteSet(T)
  BY CountOf DEF Countable
<1> QED BY <1>1, <1>2, <1>3, SumUnion

LEMMA CountEmpty == Count({}) = 0
  BY CountIsSum, SumEmpty, FS_EmptySet

-----------------------------------------------------------------------------
(* The rows of the table                                                   *)

\* A row was made of a delivery that an entry point and the table took.
RowOK(x) ==
  \E d \in Deliveries : Taken(d) /\ Storable(Event(d)) /\ x = Row(d, x.late)

RowsOK(rows) == IsFiniteSet(rows) /\ \A x \in rows : RowOK(x)

LEMMA BlankTexts == SqlBlank \subseteq PythonBlank
  BY Zenon DEF SqlBlank, PythonBlank

LEMMA MethodsNamed == \A m \in SUPPORTED_PAYMENT_METHODS : m \notin PythonBlank
<1>1. "card" \notin PythonBlank
  BY Zenon DEF PythonBlank
<1>2. "emi" \notin PythonBlank
  BY Zenon DEF PythonBlank
<1>3. "netbanking" \notin PythonBlank
  BY Zenon DEF PythonBlank
<1>4. "upi" \notin PythonBlank
  BY Zenon DEF PythonBlank
<1>5. "wallet" \notin PythonBlank
  BY Zenon DEF PythonBlank
<1> QED BY <1>1, <1>2, <1>3, <1>4, <1>5 DEF SUPPORTED_PAYMENT_METHODS

\* A dimension with what strip() leaves of a text is accepted.
LEMMA MadeDimension ==
  ASSUME NEW text
  PROVE  /\ Accepts(ProvidedOrMissing(text))
         /\ Stores(ProvidedOrMissing(text))
         /\ ProvidedOrMissing(text).availability \in {"provided", "missing"}
         /\ ProvidedOrMissing(text).value \in {None, text}
         /\ ProvidedOrMissing(text).value # None => text \notin PythonBlank
  BY NoneAssumption, BlankTexts DEF Accepts, Stores, ProvidedOrMissing, Dimension, Nonblank

LEMMA NoDimension ==
  ASSUME NEW a, a # "provided"
  PROVE  Accepts(Dimension(None, a)) /\ Stores(Dimension(None, a)) /\ Dimension(None, a).value = None
         /\ Dimension(None, a).availability = a
  BY DEF Accepts, Stores, Dimension

\* Whatever fields of a supported webhook were blank, its event passes the
\* constraints of the table, except for its amount and NUL characters, and the
\* constructors of the cohort.
LEMMA NormalizedAccepted ==
  ASSUME NEW w, WebhookVerdict(w) = "supported"
  PROVE  LET e == Normalize(w) IN
         /\ CohortAccepted(Cohort(e))
         /\ e.code.value # None => CodeAccepted(e.code.value)
         /\ e.code.value \in {None, w.error_code}
         /\ e.amount = w.amount
         /\ e.amount \in 1..MaxAmount /\ ~HoldsNul(e) => Storable(e)
<1>1. w.method \in SUPPORTED_PAYMENT_METHODS
  BY DEF WebhookVerdict
<1>2. Accepts(Issuer(w)) /\ Stores(Issuer(w))
  BY MadeDimension, NoDimension DEF Issuer, OfCard
<1>3. Accepts(Provider(w)) /\ Stores(Provider(w))
  BY MadeDimension, NoDimension DEF Provider, OfCard
<1> DEFINE e == Normalize(w)
<1>4. /\ e.method = w.method /\ e.issuer = Issuer(w) /\ e.provider = Provider(w) /\ e.amount = w.amount
      /\ e.status = IF Failed(w) THEN "failed" ELSE "success"
      /\ e.code = IF Failed(w) THEN ProvidedOrMissing(w.error_code) ELSE Dimension(None, "not_applicable")
      /\ e.reason = IF Failed(w) THEN Nonblank(w.error_reason) ELSE None
  BY Zenon DEF Normalize
<1>5. w.method \notin PythonBlank /\ w.method \notin SqlBlank
  BY <1>1, MethodsNamed, BlankTexts
<1>6. e.reason \notin SqlBlank
  BY <1>4, NoneAssumption, BlankTexts DEF Nonblank
<1>7. /\ Stores(e.code) /\ e.code.value \in {None, w.error_code}
      /\ e.code.value # None => CodeAccepted(e.code.value)
      /\ e.code.availability \in
           (IF e.status = "failed" THEN {"provided", "missing"} ELSE {"provided", "not_applicable"})
  BY <1>4, MadeDimension, NoDimension DEF CodeAccepted
<1>8. CohortAccepted(Cohort(e))
  BY <1>2, <1>3, <1>4, <1>5 DEF CohortAccepted, Cohort
<1>9. e.amount \in 1..MaxAmount /\ ~HoldsNul(e) => Storable(e)
  <2> HIDE DEF e
  <2> QED BY <1>2, <1>3, <1>4, <1>5, <1>6, <1>7 DEF Storable
<1> QED BY <1>4, <1>7, <1>8, <1>9

LEMMA RowFacts ==
  ASSUME NEW x, RowOK(x)
  PROVE  /\ x.count \in Nat \ {0} /\ x.occurred \in Nat
         /\ x.code # None => \E k \in DOMAIN CodeOrder : CodeOrder[k] = x.code
         /\ x.entry # "api" =>
              CohortAccepted(x.cohort) /\ (x.code # None => CodeAccepted(x.code))
<1>1. PICK d \in Deliveries : Taken(d) /\ x = Row(d, x.late)
  BY DEF RowOK
<1>2. /\ x.entry = d.entry /\ x.cohort = Cohort(Event(d)) /\ x.code = Event(d).code.value
      /\ x.count = d.count /\ x.occurred = d.occurred
  BY <1>1 DEF Row
<1>3. d.count \in Nat \ {0} /\ d.occurred \in Nat
  BY DeliveryAssumption
<1>4. CASE d.entry = "api"
  <2>1. x.code = d.message.error_code
    BY <1>2, <1>4 DEF Event, FromApi, Dimension
  <2> QED BY <1>2, <1>3, <1>4, <2>1, CodeAssumption
<1>5. CASE d.entry # "api"
  <2>1. WebhookVerdict(d.message) = "supported" /\ Event(d) = Normalize(d.message)
    BY <1>1, <1>5 DEF Taken, Event
  <2>2. x.code \in {None, d.message.error_code}
    BY <1>2, <2>1, NormalizedAccepted
  <2>3. CohortAccepted(x.cohort) /\ (x.code # None => CodeAccepted(x.code))
    BY <1>2, <2>1, NormalizedAccepted
  <2> QED BY <1>2, <1>3, <2>2, <2>3, CodeAssumption
<1> QED BY <1>4, <1>5

LEMMA RowsCountable ==
  ASSUME NEW rows, RowsOK(rows)
  PROVE  Countable(rows)
  BY RowFacts DEF RowsOK, Countable

-----------------------------------------------------------------------------
\* The image of a finite set.
LEMMA FiniteImage ==
  ASSUME NEW f, NEW S, IsFiniteSet(S), S = DOMAIN f, f = [x \in S |-> f[x]]
  PROVE  IsFiniteSet({f[x] : x \in S})
<1>1. f \in Surjection(S, {f[x] : x \in S})
  BY DEF Surjection
<1> QED BY <1>1, FS_Surjection

StoredOK ==
  /\ IsFiniteSet(stored)
  /\ \A y \in stored : \E d \in Deliveries :
       d.name = y.name /\ Taken(d) /\ Storable(Event(d))

LEMMA TableOK == ASSUME StoredOK PROVE RowsOK(Table)
<1> DEFINE Of(y) == CHOOSE d \in Deliveries : d.name = y.name
           f == [y \in stored |-> Row(Of(y), y.late)]
<1>1. IsFiniteSet({f[y] : y \in stored})
  <2>1. stored = DOMAIN f /\ f = [y \in stored |-> f[y]]
    OBVIOUS
  <2> HIDE DEF f
  <2> QED BY <2>1, FiniteImage DEF StoredOK
<1>2. Table = {f[y] : y \in stored}
  BY DEF Table
<1>3. ASSUME NEW x \in Table PROVE RowOK(x)
  <2>1. PICK y \in stored : x = Row(Of(y), y.late)
    BY DEF Table
  <2>2. PICK d \in Deliveries : d.name = y.name /\ Taken(d) /\ Storable(Event(d))
    BY DEF StoredOK
  <2>3. Of(y) = d
    <3>1. Of(y) \in Deliveries /\ Of(y).name = y.name
      BY <2>2
    <3> QED BY <2>2, <3>1, DeliveryAssumption
  <2>4. x.late = y.late
    BY <2>1 DEF Row
  <2> QED BY <2>1, <2>2, <2>3, <2>4 DEF RowOK
<1> QED BY <1>1, <1>2, <1>3 DEF RowsOK

\* A report is the aggregation of the rows that it saw, in an aligned window.
Reported(r) ==
  /\ RowsOK(r.seen)
  /\ \E k \in Nat : r.window = Window(k * OBSERVATION_DURATION)
  /\ r.raised <=> \E a \in Aggregates(r.seen, r.window) : ~Accepted(a)
  /\ r.cohorts = IF r.raised THEN {} ELSE Aggregates(r.seen, r.window)

AllReported == now \in Nat /\ StoredOK /\ \A r \in reports : Reported(r)

LEMMA ReportedStep == AllReported /\ [Next]_vars => AllReported'
<1> SUFFICES ASSUME AllReported, [Next]_vars PROVE AllReported'
  OBVIOUS
<1>1. CASE UNCHANGED vars \/ Tick
  BY <1>1 DEF vars, Tick, AllReported, StoredOK
<1>2. ASSUME NEW d \in Deliveries, Deliver(d) PROVE AllReported'
  <2> DEFINE y == [name |-> d.name, late |-> now > d.occurred + COMPLETION_DELAY]
  <2>1. stored' = stored \cup {y} /\ now' = now /\ reports' = reports /\ Taken(d) /\ Storable(Event(d))
    BY <1>2 DEF Deliver
  <2>2. d.name = y.name
    OBVIOUS
  <2> HIDE DEF y
  <2>3. IsFiniteSet(stored')
    BY <2>1, FS_AddElement DEF AllReported, StoredOK
  <2> QED BY <2>1, <2>2, <2>3 DEF AllReported, StoredOK
<1>3. ASSUME NEW asOf \in COMPLETION_DELAY..now, Analyse(asOf) PROVE AllReported'
  <2> DEFINE w == AnalyticsWindow(asOf)
             found == Aggregates(Table, w)
             raised == \E a \in found : ~Accepted(a)
             new == [window |-> w, seen |-> Table, raised |-> raised,
                     cohorts |-> IF raised THEN {} ELSE found]
  <2>1. now' = now /\ stored' = stored /\ reports' = reports \cup {new}
    BY <1>3 DEF Analyse
  <2>2. asOf \in Nat /\ COMPLETION_DELAY <= asOf
    BY DurationAssumption
  <2>3. \E k \in Nat : w = Window(k * OBSERVATION_DURATION)
    BY <2>2, WindowAligned
  <2>4. Reported(new)
    <3>1. RowsOK(Table)
      BY TableOK DEF AllReported
    <3> HIDE DEF w
    <3> QED BY <2>3, <3>1, Zenon DEF Reported
  <2> HIDE DEF new
  <2> QED BY <2>1, <2>4 DEF AllReported, StoredOK
<1> QED BY <1>1, <1>2, <1>3 DEF Next

LEMMA ReportedInit == Init => AllReported
  BY FS_EmptySet DEF Init, AllReported, StoredOK

-----------------------------------------------------------------------------
(* The ranks of error codes                                                *)

\* Failures whose codes the collation orders.
Rankable(failures) ==
  /\ Countable(failures)
  /\ \A c \in Codes(failures) : \E k \in DOMAIN CodeOrder : CodeOrder[k] = c

LEMMA PlaceOf ==
  ASSUME NEW c, \E k \in DOMAIN CodeOrder : CodeOrder[k] = c
  PROVE  Place(c) \in Nat /\ CodeOrder[Place(c)] = c
<1>1. Place(c) \in DOMAIN CodeOrder /\ CodeOrder[Place(c)] = c
  BY DEF Place
<1> QED BY <1>1, CodeAssumption

LEMMA ErrorCountType ==
  ASSUME NEW failures, Countable(failures), NEW code
  PROVE  ErrorCount(failures, code) \in Nat
  BY CountSubset DEF ErrorCount

\* The order of the ranks is total, strict and transitive.
LEMMA BeforeOrders ==
  ASSUME NEW failures, Rankable(failures),
         NEW c \in Codes(failures), NEW d \in Codes(failures), NEW e \in Codes(failures)
  PROVE  /\ ~Before(failures, c, c)
         /\ c # d => Before(failures, c, d) \/ Before(failures, d, c)
         /\ Before(failures, c, d) /\ Before(failures, d, e) => Before(failures, c, e)
         /\ Before(failures, c, d) => ErrorCount(failures, c) >= ErrorCount(failures, d)
<1>1. \A x \in Codes(failures) : ErrorCount(failures, x) \in Nat
  BY ErrorCountType DEF Rankable
<1>2. \A x \in Codes(failures) : Place(x) \in Nat /\ CodeOrder[Place(x)] = x
  BY PlaceOf DEF Rankable
<1>3. c # d => Place(c) # Place(d)
  BY <1>2
<1> QED BY <1>1, <1>2, <1>3 DEF Before

\* As many codes as there are at most rows, all different.
LEMMA CodesFinite ==
  ASSUME NEW failures, IsFiniteSet(failures)
  PROVE  IsFiniteSet(Codes(failures))
<1> DEFINE f == [x \in failures |-> x.code]
<1>1. IsFiniteSet({f[x] : x \in failures})
  <2>1. failures = DOMAIN f /\ f = [x \in failures |-> f[x]]
    OBVIOUS
  <2> HIDE DEF f
  <2> QED BY <2>1, FiniteImage
<1>2. Codes(failures) \subseteq {f[x] : x \in failures}
  BY DEF Codes
<1> QED BY <1>1, <1>2, FS_Subset

LEMMA RankRange ==
  ASSUME NEW failures, Rankable(failures), NEW c \in Codes(failures)
  PROVE  Rank(failures, c) \in 1..Cardinality(Codes(failures))
<1> DEFINE P == {d \in Codes(failures) : Before(failures, d, c)}
           n == Cardinality(Codes(failures))
<1>1. IsFiniteSet(Codes(failures))
  BY CodesFinite DEF Rankable, Countable
<1>2. P \in SUBSET Codes(failures) /\ c \notin P
  BY BeforeOrders
<1>3. IsFiniteSet(P) /\ Cardinality(P) <= n /\ (n = Cardinality(P) => Codes(failures) = P)
  <2> HIDE DEF P
  <2> QED BY <1>1, <1>2, FS_Subset
<1>4. Cardinality(P) \in Nat /\ n \in Nat
  BY <1>1, <1>3, FS_CardinalityType
<1>5. Cardinality(P) # n
  BY <1>2, <1>3
<1>6. Rank(failures, c) = 1 + Cardinality(P)
  BY DEF Rank
<1> HIDE DEF P, n
<1> QED BY <1>3, <1>4, <1>5, <1>6 DEF n

LEMMA RankOrders ==
  ASSUME NEW failures, Rankable(failures),
         NEW c \in Codes(failures), NEW d \in Codes(failures), Before(failures, c, d)
  PROVE  Rank(failures, c) < Rank(failures, d)
<1> DEFINE P(e) == {b \in Codes(failures) : Before(failures, b, e)}
<1>1. IsFiniteSet(Codes(failures))
  BY CodesFinite DEF Rankable, Countable
<1>2. P(c) \in SUBSET P(d) /\ c \in P(d) /\ c \notin P(c)
  BY BeforeOrders
<1>3. IsFiniteSet(P(d)) /\ IsFiniteSet(P(c))
  BY <1>1, FS_Subset
<1> DEFINE A == P(c)
           B == P(d)
<1> HIDE DEF A, B
<1>4. Cardinality(A) <= Cardinality(B) /\ Cardinality(A) # Cardinality(B)
  BY <1>2, <1>3, FS_Subset DEF A, B
<1>5. Cardinality(A) \in Nat /\ Cardinality(B) \in Nat
  BY <1>3, FS_CardinalityType DEF A, B
<1>6. Rank(failures, c) = 1 + Cardinality(A) /\ Rank(failures, d) = 1 + Cardinality(B)
  BY DEF Rank, A, B
<1> QED BY <1>4, <1>5, <1>6

\* Different codes have different ranks, and every rank up to the number of
\* the codes is taken.
LEMMA RanksTaken ==
  ASSUME NEW failures, Rankable(failures)
  PROVE  /\ \A c, d \in Codes(failures) : c # d => Rank(failures, c) # Rank(failures, d)
         /\ \A k \in 1..Cardinality(Codes(failures)) :
              \E c \in Codes(failures) : Rank(failures, c) = k
<1> DEFINE C == Codes(failures)
           n == Cardinality(C)
           f == [c \in C |-> Rank(failures, c)]
<1>1. IsFiniteSet(C) /\ n \in Nat
  BY CodesFinite, FS_CardinalityType DEF Rankable, Countable
<1>2. \A c, d \in C : c # d => Rank(failures, c) # Rank(failures, d)
  <2> SUFFICES ASSUME NEW c \in C, NEW d \in C, c # d PROVE Rank(failures, c) # Rank(failures, d)
    OBVIOUS
  <2>1. Before(failures, c, d) \/ Before(failures, d, c)
    BY BeforeOrders
  <2>2. Rank(failures, c) \in Int /\ Rank(failures, d) \in Int
    BY RankRange
  <2>3. Rank(failures, c) < Rank(failures, d) \/ Rank(failures, d) < Rank(failures, c)
    BY <2>1, RankOrders
  <2> QED BY <2>2, <2>3
<1>3. \A c \in C : Rank(failures, c) \in 1..n
  BY RankRange
<1>4. f \in Injection(C, 1..n)
  BY <1>2, <1>3 DEF Injection, IsInjective
<1>5. IsFiniteSet(1..n) /\ Cardinality(1..n) = n
  BY <1>1, FS_Interval
<1> HIDE DEF C, n
<1>6. f \in Surjection(C, 1..n)
  <2> HIDE DEF f
  <2> QED BY <1>1, <1>4, <1>5, FS_Injection DEF n
<1>7. \A k \in 1..n : \E c \in C : f[c] = k
  <2> HIDE DEF f
  <2> QED BY <1>6 DEF Surjection
<1> QED BY <1>2, <1>7 DEF C, n

\* The distribution has an entry for each rank up to its length.
LEMMA RankedEntries ==
  ASSUME NEW failures, Rankable(failures)
  PROVE  \E m \in Nat :
           /\ m <= Cardinality(Codes(failures)) /\ m <= MAX_ERROR_CODES_PER_COHORT
           /\ m = Cardinality(Codes(failures)) \/ m = MAX_ERROR_CODES_PER_COHORT
           /\ Ranked(failures) =
                [k \in 1..m |-> [code |-> OfRank(failures, k),
                                 count |-> ErrorCount(failures, OfRank(failures, k))]]
           /\ \A k \in 1..m : OfRank(failures, k) \in Codes(failures)
                              /\ Rank(failures, OfRank(failures, k)) = k
<1> DEFINE C == Codes(failures)
           n == Cardinality(C)
           max == MAX_ERROR_CODES_PER_COHORT
           m == IF n <= max THEN n ELSE max
           T == Top(failures)
           f == [c \in T |-> Rank(failures, c)]
<1>1. IsFiniteSet(C) /\ n \in Nat /\ max \in Nat \ {0}
  BY CodesFinite, FS_CardinalityType, CodeAssumption DEF Rankable, Countable
<1>2. T \in SUBSET C /\ \A c \in C : c \in T <=> Rank(failures, c) <= max
  BY DEF Top
<1>3. \A c \in C : Rank(failures, c) \in 1..n
  BY RankRange
<1>4. \A c, d \in C : c # d => Rank(failures, c) # Rank(failures, d)
  BY RanksTaken
<1>5. \A k \in 1..n : \E c \in C : Rank(failures, c) = k
  BY RanksTaken
<1> HIDE DEF C, n, max, T
<1>6. m \in Nat /\ m <= n /\ m <= max /\ (m = n \/ m = max)
  BY <1>1
<1>7. \A c \in T : Rank(failures, c) \in 1..m
  BY <1>1, <1>2, <1>3
<1>8. \A k \in 1..m : \E c \in T : Rank(failures, c) = k
  BY <1>1, <1>2, <1>5, <1>6
<1> HIDE DEF m
<1>9. f \in Injection(T, 1..m) /\ f \in Surjection(T, 1..m)
  BY <1>2, <1>4, <1>7, <1>8 DEF Injection, IsInjective, Surjection
<1>10. Cardinality(T) = m
  <2>1. IsFiniteSet(1..m) /\ Cardinality(1..m) = m
    BY <1>6, FS_Interval
  <2> HIDE DEF f
  <2> QED BY <1>9, <2>1, FS_Injection
<1>11. Ranked(failures) = [k \in 1..m |->
          [code |-> OfRank(failures, k), count |-> ErrorCount(failures, OfRank(failures, k))]]
  BY <1>10 DEF Ranked, T
<1>12. ASSUME NEW k \in 1..m
       PROVE OfRank(failures, k) \in Codes(failures) /\ Rank(failures, OfRank(failures, k)) = k
  <2>1. OfRank(failures, k) \in T /\ Rank(failures, OfRank(failures, k)) = k
    BY <1>8 DEF OfRank, T
  <2> QED BY <1>2, <2>1 DEF C
<1> QED BY <1>6, <1>11, <1>12 DEF C, n, max

\* What the distribution says of a code of the failures.
LEMMA CodeRanked ==
  ASSUME NEW failures, Rankable(failures), NEW code \in Codes(failures)
  PROVE  LET codes == Ranked(failures)
             count == ErrorCount(failures, code) IN
         /\ \/ \E k \in DOMAIN codes : codes[k] = [code |-> code, count |-> count]
            \/ /\ Len(codes) = MAX_ERROR_CODES_PER_COHORT
               /\ \A k \in DOMAIN codes : codes[k].count >= count
         /\ codes[1].count >= count
<1> DEFINE n == Cardinality(Codes(failures))
           Of(k) == OfRank(failures, k)
           Entry(k) == [code |-> Of(k), count |-> ErrorCount(failures, Of(k))]
           r == Rank(failures, code)
<1>1. PICK m \in Nat :
           /\ m <= n /\ m <= MAX_ERROR_CODES_PER_COHORT
           /\ m = n \/ m = MAX_ERROR_CODES_PER_COHORT
           /\ Ranked(failures) = [k \in 1..m |-> Entry(k)]
           /\ \A k \in 1..m : Of(k) \in Codes(failures) /\ Rank(failures, Of(k)) = k
  BY RankedEntries
<1>2. r \in 1..n /\ MAX_ERROR_CODES_PER_COHORT \in Nat \ {0}
  BY RankRange, CodeAssumption
<1>3. n \in Nat
  BY CodesFinite, FS_CardinalityType DEF Rankable, Countable
<1>4. ASSUME NEW k \in 1..m, k <= r PROVE ErrorCount(failures, Of(k)) >= ErrorCount(failures, code)
  <2>1. CASE Of(k) = code
    BY <2>1, ErrorCountType DEF Rankable
  <2>2. CASE Of(k) # code
    <3>1. Of(k) \in Codes(failures) /\ Rank(failures, Of(k)) = k
      BY <1>1
    <3>2. Before(failures, Of(k), code) \/ Before(failures, code, Of(k))
      BY <2>2, <3>1, BeforeOrders
    <3>3. ~Before(failures, code, Of(k))
      <4>1. SUFFICES ASSUME Before(failures, code, Of(k)) PROVE FALSE
        OBVIOUS
      <4>2. Rank(failures, code) < Rank(failures, Of(k))
        BY <3>1, <4>1, RankOrders
      <4> QED BY <1>2, <1>4, <3>1, <4>2
    <3> QED BY <3>1, <3>2, <3>3, BeforeOrders
  <2> QED BY <2>1, <2>2
<1>5. m >= 1
  BY <1>1, <1>2, <1>3
<1>6. DOMAIN Ranked(failures) = 1..m /\ Len(Ranked(failures)) = m
      /\ \A k \in 1..m : Ranked(failures)[k] = Entry(k)
  BY <1>1
<1>7. Ranked(failures)[1].count >= ErrorCount(failures, code)
  BY <1>2, <1>4, <1>5, <1>6
<1>8. CASE r <= m
  <2>1. r \in 1..m
    BY <1>2, <1>8
  <2>2. Of(r) = code
    BY <1>1, <2>1, RanksTaken
  <2> QED BY <1>6, <1>7, <2>1, <2>2
<1>9. CASE r > m
  <2>1. m = MAX_ERROR_CODES_PER_COHORT
    BY <1>1, <1>2, <1>3, <1>9
  <2>2. \A k \in 1..m : Ranked(failures)[k].count >= ErrorCount(failures, code)
    <3>1. ASSUME NEW k \in 1..m PROVE Ranked(failures)[k].count >= ErrorCount(failures, code)
      <4>1. k <= r
        BY <1>1, <1>2, <1>9, <3>1
      <4>2. Ranked(failures)[k] = Entry(k)
        BY <1>6, <3>1
      <4> QED BY <1>4, <4>1, <4>2
    <3> QED BY <3>1
  <2> QED BY <1>6, <1>7, <2>1, <2>2
<1>10. r <= m \/ r > m
  BY <1>1, <1>2, <1>3
<1> HIDE DEF r, n, Of, Entry
<1> QED BY <1>8, <1>9, <1>10

-----------------------------------------------------------------------------
LEMMA InSpanOf ==
  ASSUME NEW rows, NEW w
  PROVE  InSpan(rows, w) \subseteq rows
  BY DEF InSpan

LEMMA SpanOK ==
  ASSUME NEW rows, RowsOK(rows), NEW w
  PROVE  RowsOK(InSpan(rows, w)) /\ Countable(InSpan(rows, w))
<1>1. InSpan(rows, w) \subseteq rows
  BY DEF InSpan
<1>2. RowsOK(InSpan(rows, w))
  BY <1>1, FS_Subset DEF RowsOK
<1> QED BY <1>2, RowsCountable

Baseline(c, rows, w) == {x \in rows : x.cohort = c /\ InBaseline(x, w)}
Observation(c, rows, w) == {x \in rows : x.cohort = c /\ Observed(x, w)}
FailuresOf(c, rows, w) == {x \in OfStatus(rows, "failed") : x.cohort = c /\ Observed(x, w)}

\* A cohort's aggregate over the rows of the span.
LEMMA AggregateIs ==
  ASSUME NEW rows, NEW w, NEW c
  PROVE  Aggregate(c, InSpan(rows, w), w) =
           [cohort |-> c,
            sample |-> Sample(Count(Baseline(c, rows, w)),
                              Count(OfStatus(Baseline(c, rows, w), "success")),
                              Count(Observation(c, rows, w)),
                              Count(OfStatus(Observation(c, rows, w), "success"))),
            codes |-> Ranked(FailuresOf(c, rows, w))]
<1> DEFINE span == InSpan(rows, w)
           baseline == {x \in span : x.cohort = c /\ InBaseline(x, w)}
           observed == {x \in span : x.cohort = c /\ Observed(x, w)}
           joining == {x \in span : Joined(c, x.cohort) /\ Observed(x, w)}
<1>1. Aggregate(c, span, w) =
        [cohort |-> c,
         sample |-> Sample(Count(baseline), Count(OfStatus(baseline, "success")),
                           Count(observed), Count(OfStatus(observed, "success"))),
         codes |-> Ranked(OfStatus(joining, "failed"))]
  BY DEF Aggregate
<1>2. baseline = Baseline(c, rows, w)
  BY DEF InSpan, Baseline
<1>3. observed = Observation(c, rows, w)
  BY DEF InSpan, Observation
<1>4. OfStatus(joining, "failed") = FailuresOf(c, rows, w)
  BY DEF InSpan, OfStatus, Joined, FailuresOf
<1> HIDE DEF baseline, observed, joining
<1> QED BY <1>1, <1>2, <1>3, <1>4

LEMMA ReportAggregates ==
  ASSUME NEW r, Reported(r), NEW a \in r.cohorts
  PROVE  \E c : a = Aggregate(c, InSpan(r.seen, r.window), r.window)
                /\ \E x \in InSpan(r.seen, r.window) : x.cohort = c
  BY DEF Reported, Aggregates

LEMMA FailuresRankable ==
  ASSUME NEW rows, RowsOK(rows), NEW c, NEW w
  PROVE  Rankable(FailuresOf(c, rows, w))
<1>1. FailuresOf(c, rows, w) \in SUBSET rows
  BY DEF FailuresOf, OfStatus
<1>2. Countable(FailuresOf(c, rows, w))
  BY <1>1, RowsCountable, CountOf
<1>3. \A x \in FailuresOf(c, rows, w) : RowOK(x)
  BY <1>1 DEF RowsOK
<1> QED BY <1>2, <1>3, RowFacts DEF Rankable, Codes

LEMMA ReportedCodesKept == AllReported => CodesKept
<1> SUFFICES ASSUME AllReported, NEW r \in reports, NEW a \in r.cohorts,
                    NEW code \in Codes(FailuresOf(a.cohort, r.seen, r.window))
             PROVE  LET failures == FailuresOf(a.cohort, r.seen, r.window)
                        count == ErrorCount(failures, code) IN
               /\ \/ \E k \in DOMAIN a.codes : a.codes[k] = [code |-> code, count |-> count]
                  \/ /\ Len(a.codes) = MAX_ERROR_CODES_PER_COHORT
                     /\ \A k \in DOMAIN a.codes : a.codes[k].count >= count
               /\ a.codes[1].count >= count
  BY Zenon DEF CodesKept, FailuresOf
<1>1. Reported(r)
  BY DEF AllReported
<1>2. a.codes = Ranked(FailuresOf(a.cohort, r.seen, r.window))
  BY <1>1, ReportAggregates, AggregateIs
<1>3. Rankable(FailuresOf(a.cohort, r.seen, r.window))
  BY <1>1, FailuresRankable DEF Reported
<1> QED BY <1>2, <1>3, CodeRanked

\* CodesKept, for every distribution of codes over rows and every bound on
\* the entries: row_number() over the counts and the collation of the codes
\* (infrastructure/database/analytics.py) numbers the codes of a cohort
\* without gaps or repetitions, so that what the bound cuts off is never more
\* frequent than what is kept.
THEOREM CodesRanked == Spec => []CodesKept
  BY ReportedInit, ReportedStep, ReportedCodesKept, PTL DEF Spec

-----------------------------------------------------------------------------
\* The entries of a distribution are codes of failures.
LEMMA EntriesAreCodes ==
  ASSUME NEW failures, Rankable(failures), NEW k \in DOMAIN Ranked(failures)
  PROVE  Ranked(failures)[k].code \in Codes(failures)
<1>1. PICK m \in Nat :
           /\ Ranked(failures) =
                [j \in 1..m |-> [code |-> OfRank(failures, j),
                                 count |-> ErrorCount(failures, OfRank(failures, j))]]
           /\ \A j \in 1..m : OfRank(failures, j) \in Codes(failures)
  BY RankedEntries
<1> QED BY <1>1

LEMMA WebhooksUsable == Normalized = Usable
<1> SUFFICES ASSUME NEW e \in Normalized
             PROVE  /\ e.amount <= MaxAmount /\ ~HoldsNul(e) => Storable(e)
                    /\ CohortAccepted(Cohort(e))
                    /\ e.code.value # None => CodeAccepted(e.code.value)
  BY DEF Usable
<1>1. PICK w \in Webhooks : WebhookVerdict(w) = "supported" /\ e = Normalize(w)
  BY DEF Normalized
<1>2. e.amount \in Nat \ {0}
  BY <1>1, NormalizedAccepted, WebhookAssumption
<1>3. e.amount <= MaxAmount => e.amount \in 1..MaxAmount
  BY <1>2, AmountAssumption
<1> QED BY <1>1, <1>3, NormalizedAccepted

LEMMA RaisedByApi ==
  ASSUME NEW r, Reported(r), r.raised
  PROVE  \E x \in r.seen : x.entry = "api"
<1> SUFFICES ASSUME \A x \in r.seen : x.entry # "api" PROVE FALSE
  OBVIOUS
<1> DEFINE w == r.window
<1>1. RowsOK(r.seen)
  BY DEF Reported
<1>2. \A x \in r.seen : CohortAccepted(x.cohort) /\ (x.code # None => CodeAccepted(x.code))
  BY <1>1, RowFacts DEF RowsOK
<1>3. PICK x \in InSpan(r.seen, w) : ~Accepted(Aggregate(x.cohort, InSpan(r.seen, w), w))
  BY DEF Reported, Aggregates
<1> DEFINE F == FailuresOf(x.cohort, r.seen, w)
           a == Aggregate(x.cohort, InSpan(r.seen, w), w)
<1>4. a.cohort = x.cohort /\ a.codes = Ranked(F)
  BY AggregateIs
<1>5. Rankable(F)
  BY <1>1, FailuresRankable
<1>6. CohortAccepted(x.cohort)
  BY <1>2, InSpanOf
<1>7. ASSUME NEW k \in DOMAIN Ranked(F) PROVE CodeAccepted(Ranked(F)[k].code)
  <2>1. Ranked(F)[k].code \in Codes(F)
    BY <1>5, EntriesAreCodes
  <2>2. \A y \in F : y \in r.seen
    BY DEF FailuresOf, OfStatus
  <2>3. \A code \in Codes(F) : CodeAccepted(code)
    BY <1>2, <2>2 DEF Codes
  <2> QED BY <2>1, <2>3
<1> HIDE DEF F, a
<1> QED BY <1>3, <1>4, <1>6, <1>7 DEF Accepted, a

\* NormalizedUsable, for all webhooks and deliveries: whatever fields of a
\* webhook were absent or blank, normalize_webhook leaves nothing that the
\* CHECK constraints of payment_events or the constructors of the cohort
\* refuse; what cannot be stored has an amount beyond its column or a NUL
\* character in a text.  So only an API event can make an analysis raise.
THEOREM WebhooksNeverRaise == Spec => []NormalizedUsable
<1>1. AllReported => NormalizedUsable
  BY WebhooksUsable, RaisedByApi DEF AllReported, NormalizedUsable
<1> QED BY <1>1, ReportedInit, ReportedStep, PTL DEF Spec

-----------------------------------------------------------------------------
(* Every event of a span is counted in one cohort                          *)

Total(a) == a.sample.bn + a.sample.on

\* A sample's successes are among its events.
Proper(s) ==
  /\ s = Sample(s.bn, s.bs, s.on, s.os)
  /\ s.bn \in Nat /\ s.bs \in Nat /\ s.on \in Nat /\ s.os \in Nat
  /\ s.bs <= s.bn /\ s.os <= s.on

\* The totals of a cohort count its rows of the span, and its successes are
\* no more than its rows.
LEMMA SampleCounts ==
  ASSUME NEW rows, RowsOK(rows), NEW w, NEW c, w.baseline_start \in Int,
         w.observation_start \in Int, w.observation_end \in Int
  PROVE  /\ Proper(Aggregate(c, InSpan(rows, w), w).sample)
         /\ Total(Aggregate(c, InSpan(rows, w), w)) = Count({x \in InSpan(rows, w) : x.cohort = c})
<1> DEFINE B == Baseline(c, rows, w)
           O == Observation(c, rows, w)
           a == Aggregate(c, InSpan(rows, w), w)
           s == a.sample
<1>1. Countable(rows)
  BY RowsCountable
<1>2. /\ B \in SUBSET rows /\ O \in SUBSET rows
      /\ OfStatus(B, "success") \in SUBSET B /\ OfStatus(O, "success") \in SUBSET O
  BY DEF Baseline, Observation, OfStatus
<1>3. s = Sample(Count(B), Count(OfStatus(B, "success")), Count(O), Count(OfStatus(O, "success")))
  BY AggregateIs
<1>4. /\ s.bn = Count(B) /\ s.bs = Count(OfStatus(B, "success"))
      /\ s.on = Count(O) /\ s.os = Count(OfStatus(O, "success"))
  BY <1>3 DEF Sample
<1>5. Countable(B) /\ Countable(O)
  BY <1>1, <1>2, CountOf
<1>6. /\ Count(B) \in Nat /\ Count(OfStatus(B, "success")) \in Nat
      /\ Count(OfStatus(B, "success")) <= Count(B)
  BY <1>2, <1>5, CountSubset
<1>7. /\ Count(O) \in Nat /\ Count(OfStatus(O, "success")) \in Nat
      /\ Count(OfStatus(O, "success")) <= Count(O)
  BY <1>2, <1>5, CountSubset
<1>8. \A x \in rows : x.occurred \in Nat
  BY RowFacts DEF RowsOK
<1>9. B \cap O = {} /\ B \cup O = {x \in InSpan(rows, w) : x.cohort = c} /\ B \cup O \in SUBSET rows
  BY <1>8 DEF Baseline, Observation, InSpan, InBaseline, Observed
<1>10. Countable(B \cup O)
  BY <1>1, <1>9, CountOf
<1>11. Count(B \cup O) = Count(B) + Count(O)
  BY <1>9, <1>10, CountUnion
<1> HIDE DEF B, O, s
<1>12. Total(a) = s.bn + s.on
  BY DEF Total, s
<1>13. Proper(s)
  BY <1>3, <1>4, <1>6, <1>7 DEF Proper
<1> QED BY <1>4, <1>9, <1>11, <1>12, <1>13 DEF s

Totals(S) == MapThenSumSet(LAMBDA a : a.sample.bn + a.sample.on, S)

\* The sum of the samples' totals.
LEMMA TotalsAreSum ==
  ASSUME NEW S, IsFiniteSet(S)
  PROVE  Totals(S) = Sum([a \in S |-> Total(a)], S)
<1> DEFINE f == [a \in S |-> Total(a)]
           Iterates(it) == it = [s \in SUBSET S |->
             IF s = {} THEN 0
             ELSE ((CHOOSE y \in s : TRUE).sample.bn + (CHOOSE y \in s : TRUE).sample.on)
                    + it[s \ {CHOOSE y \in s : TRUE}]]
           jt == CHOOSE it : Iterates(it)
<1>1. Totals(S) = jt[S]
  BY Zenon DEF Totals, MapThenSumSet, MapThenFoldSet
<1>2. ASSUME NEW it PROVE Iterates(it) <=> Adds(it, f, S)
  <2>1. \A s \in SUBSET S : s # {} => f[Chosen(s)] = Total(Chosen(s))
    <3>1. \A s \in SUBSET S : s # {} => Chosen(s) \in S
      BY Picked
    <3> QED BY <3>1
  <2> HIDE DEF f
  <2>2. \A s \in SUBSET S :
          (IF s = {} THEN 0
           ELSE ((CHOOSE y \in s : TRUE).sample.bn + (CHOOSE y \in s : TRUE).sample.on)
                  + it[s \ {CHOOSE y \in s : TRUE}])
          = (IF s = {} THEN 0 ELSE f[Chosen(s)] + it[s \ {Chosen(s)}])
    BY <2>1 DEF Chosen, Total
  <2> QED BY <2>2 DEF Adds
<1>3. \E it : Iterates(it)
  <2> HIDE DEF f, Iterates
  <2> QED BY <1>2, AddsExists
<1>4. Iterates(jt)
  <2> HIDE DEF Iterates
  <2> QED BY <1>3, Zenon
<1>5. Adds(jt, f, S)
  <2> HIDE DEF f, jt, Iterates
  <2> QED BY <1>2, <1>4
<1>6. Sum(f, S) = jt[S]
  <2> HIDE DEF f, jt, Iterates
  <2> QED BY <1>5, SumFrom
<1> QED BY <1>1, <1>6

\* Groups that are told apart by their cohort and count the rows of theirs
\* count all rows that have one of their cohorts.
LEMMA Partition ==
  ASSUME NEW rows, Countable(rows), NEW A, IsFiniteSet(A),
         \A a \in A : Total(a) = Count({x \in rows : x.cohort = a.cohort}),
         \A a, b \in A : a.cohort = b.cohort => a = b
  PROVE  Sum([a \in A |-> Total(a)], A)
           = Count({x \in rows : \E a \in A : x.cohort = a.cohort})
<1> DEFINE f == [a \in A |-> Total(a)]
           Of(B) == {x \in rows : \E a \in B : x.cohort = a.cohort}
           Bad == {B \in SUBSET A : Sum(f, B) # Count(Of(B))}
<1> SUFFICES ASSUME A \in Bad PROVE FALSE
  OBVIOUS
<1>1. \A B \in Bad : IsFiniteSet(B)
  BY FS_Subset
<1>2. PICK B \in Bad : \A C \in Bad : Cardinality(B) <= Cardinality(C)
  <2> HIDE DEF Bad
  <2> QED BY <1>1, Smallest
<1>3. B \in SUBSET A /\ IsFiniteSet(B) /\ Sum(f, B) # Count(Of(B))
  BY <1>1
<1>4. B # {}
  <2>1. Of({}) = {}
    OBVIOUS
  <2> QED BY <1>3, <2>1, SumEmpty, CountEmpty
<1>5. PICK a \in B : TRUE
  BY <1>4
<1> DEFINE C == B \ {a}
           R == {x \in rows : x.cohort = a.cohort}
<1>6. IsFiniteSet(C) /\ Cardinality(C) < Cardinality(B)
  BY <1>3, Smaller
<1>7. Cardinality(C) \in Nat /\ Cardinality(B) \in Nat
  BY <1>3, <1>6, FS_CardinalityType
<1>8. C \notin Bad
  <2> HIDE DEF Bad, C
  <2> QED BY <1>2, <1>6, <1>7
<1>9. Sum(f, C) = Count(Of(C))
  BY <1>3, <1>8
<1>10. ASSUME NEW b \in A PROVE Total(b) \in Nat
  <2>1. {x \in rows : x.cohort = b.cohort} \in SUBSET rows
    OBVIOUS
  <2> QED BY <2>1, CountSubset
<1>11. \A b \in B : f[b] \in Nat /\ f[b] = Total(b)
  BY <1>3, <1>10
<1>12. Sum(f, B) = f[a] + Sum(f, C)
  <2> HIDE DEF f
  <2> QED BY <1>3, <1>11, SumRemove
<1>13. Of(B) = R \cup Of(C) /\ R \cap Of(C) = {} /\ Of(B) \in SUBSET rows
  BY <1>3
<1>14. Count(Of(B)) = Count(R) + Count(Of(C))
  <2> HIDE DEF R, Of
  <2>1. Countable(R \cup Of(C))
    BY <1>13, CountOf
  <2> QED BY <1>13, <2>1, CountUnion
<1>15. f[a] = Count(R)
  BY <1>3, <1>11
<1> QED BY <1>3, <1>9, <1>12, <1>14, <1>15

LEMMA AggregatesOf ==
  ASSUME NEW rows, NEW w
  PROVE  Aggregates(rows, w) = {Aggregate(x.cohort, InSpan(rows, w), w) : x \in InSpan(rows, w)}
<1> DEFINE P == InSpan(rows, w)
<1>1. Aggregates(rows, w) = {Aggregate(c, P, w) : c \in {x.cohort : x \in P}}
  BY DEF Aggregates
<1> HIDE DEF P
<1> QED BY <1>1 DEF P

LEMMA AggregatesFinite ==
  ASSUME NEW rows, IsFiniteSet(rows), NEW w
  PROVE  IsFiniteSet(Aggregates(rows, w))
<1> DEFINE P == InSpan(rows, w)
           f == [x \in P |-> Aggregate(x.cohort, P, w)]
<1>1. IsFiniteSet(P)
  BY InSpanOf, FS_Subset
<1>2. P = DOMAIN f /\ f = [x \in P |-> f[x]]
  OBVIOUS
<1>3. Aggregates(rows, w) = {f[x] : x \in P}
  <2>1. Aggregates(rows, w) = {Aggregate(x.cohort, P, w) : x \in P}
    BY AggregatesOf
  <2>2. \A x \in P : f[x] = Aggregate(x.cohort, P, w)
    OBVIOUS
  <2> HIDE DEF f, P
  <2> QED BY <2>1, <2>2
<1> HIDE DEF f, P
<1>4. IsFiniteSet({f[x] : x \in P})
  BY <1>1, <1>2, FiniteImage
<1> QED BY <1>3, <1>4

LEMMA WindowTyped ==
  ASSUME NEW k \in Nat
  PROVE  LET w == Window(k * OBSERVATION_DURATION) IN
         /\ w.baseline_start \in Int /\ w.observation_start \in Int /\ w.observation_end \in Int
<1>1. OBSERVATION_DURATION \in Nat /\ BASELINE_DURATION \in Nat
  BY DurationAssumption
<1>2. k * OBSERVATION_DURATION \in Nat
  BY <1>1, SMT
<1> QED BY <1>1, <1>2 DEF Window

LEMMA SpanCounted ==
  ASSUME NEW r, Reported(r), ~r.raised
  PROVE  Totals(r.cohorts) = Count(InSpan(r.seen, r.window))
<1> DEFINE w == r.window
           P == InSpan(r.seen, w)
           A == r.cohorts
<1>1. RowsOK(r.seen) /\ A = Aggregates(r.seen, w)
  BY DEF Reported
<1>2. w.baseline_start \in Int /\ w.observation_start \in Int /\ w.observation_end \in Int
  BY WindowTyped DEF Reported
<1>3. IsFiniteSet(A) /\ Countable(P)
  BY <1>1, AggregatesFinite, SpanOK DEF RowsOK
<1>4. ASSUME NEW a \in A
      PROVE  Total(a) = Count({x \in P : x.cohort = a.cohort}) /\ a = Aggregate(a.cohort, P, w)
  <2>1. PICK c : a = Aggregate(c, P, w)
    BY ReportAggregates
  <2>2. a.cohort = c
    BY <2>1, AggregateIs
  <2>3. Total(a) = Count({x \in P : x.cohort = c})
    BY <1>1, <1>2, <2>1, SampleCounts
  <2> QED BY <2>1, <2>2, <2>3
<1>5. \A a, b \in A : a.cohort = b.cohort => a = b
  BY <1>4
<1>6. \A x \in P : \E a \in A : x.cohort = a.cohort
  <2>1. A = {Aggregate(x.cohort, P, w) : x \in P}
    BY <1>1, AggregatesOf
  <2>2. ASSUME NEW x \in P PROVE Aggregate(x.cohort, P, w).cohort = x.cohort
    BY AggregateIs
  <2> HIDE DEF A, P, w
  <2> QED BY <2>1, <2>2
<1> HIDE DEF A, P, w
<1>7. {x \in P : \E a \in A : x.cohort = a.cohort} = P
  BY <1>6
<1>8. Sum([a \in A |-> Total(a)], A) = Count(P)
  BY <1>3, <1>4, <1>5, <1>7, Partition
<1> QED BY <1>3, <1>8, TotalsAreSum DEF A, P, w

\* The order of two aligned windows is at least one length.
LEMMA WindowsTile ==
  ASSUME NEW r, NEW q, Reported(r), Reported(q),
         r.window.observation_end < q.window.observation_end
  PROVE  /\ r.window.observation_end <= q.window.observation_start
         /\ r.window.observation_end \in Int /\ q.window.observation_start \in Int
         /\ q.window.baseline_start \in Int
<1> DEFINE n == OBSERVATION_DURATION
<1>1. n \in Nat \ {0} /\ BASELINE_DURATION \in Nat
  BY DurationAssumption
<1>2. PICK k \in Nat : r.window = Window(k * n)
  BY DEF Reported
<1>3. PICK j \in Nat : q.window = Window(j * n)
  BY DEF Reported
<1>4. r.window.observation_end = k * n /\ q.window.observation_end = j * n
      /\ q.window.observation_start = j * n - n
      /\ q.window.baseline_start = j * n - n - BASELINE_DURATION
  BY <1>2, <1>3 DEF Window
<1> HIDE DEF n
<1>5. k * n \in Nat /\ j * n \in Nat
  BY <1>1, SMT
<1>6. k < j
  <2>1. ASSUME j <= k PROVE j * n <= k * n
    BY <1>1, <2>1, SMT
  <2> QED BY <1>4, <1>5, <2>1
<1>7. (k + 1) * n <= j * n
  BY <1>1, <1>6, SMT
<1>8. (k + 1) * n = k * n + n
  BY <1>1, SMT
<1> QED BY <1>1, <1>4, <1>5, <1>7, <1>8

\* EventsCountedOnce, for every table and every length of windows and days:
\* the cohorts of an analysis share out the events of its span (GROUP BY with
\* NULL-safe dimensions), and an event that one window observes is baseline,
\* and nothing else, of the later ones until it is too old for them
\* (calculate_analytics_window; docs/incidents.md: adjacent windows).
THEOREM CountedOnce == Spec => []EventsCountedOnce
<1>1. ASSUME AllReported, NEW r \in reports PROVE r.raised \/ Totals(r.cohorts) = Count(InSpan(r.seen, r.window))
  BY <1>1, SpanCounted DEF AllReported
<1>2. ASSUME AllReported, NEW r \in reports, NEW q \in reports,
             r.window.observation_end < q.window.observation_end,
             NEW x \in r.seen, Observed(x, r.window)
      PROVE  /\ ~Observed(x, q.window)
             /\ InBaseline(x, q.window) <=> x.occurred >= q.window.baseline_start
  <2>1. Reported(r) /\ Reported(q)
    BY <1>2 DEF AllReported
  <2>2. x.occurred \in Nat
    BY <2>1, RowFacts DEF Reported, RowsOK
  <2> QED BY <1>2, <2>1, <2>2, WindowsTile DEF Observed, InBaseline
<1>3. AllReported => EventsCountedOnce
  BY <1>1, <1>2, Zenon DEF EventsCountedOnce, Totals
<1> QED BY <1>3, ReportedInit, ReportedStep, PTL DEF Spec

-----------------------------------------------------------------------------
(***************************************************************************)
(* The verdict is monotone                                                 *)
(***************************************************************************)
LEMMA Division ==
  ASSUME NEW a \in Nat, NEW b \in Nat \ {0}
  PROVE  /\ a \div b \in Nat /\ a % b \in Nat /\ a % b < b
         /\ a = b * (a \div b) + (a % b)
  BY SMT

LEMMA DivisionMonotone ==
  ASSUME NEW a \in Nat, NEW c \in Nat, NEW b \in Nat \ {0}, a <= c
  PROVE  a \div b <= c \div b
<1> DEFINE q == a \div b
           p == c \div b
           r == a % b
           s == c % b
<1>1. q \in Nat /\ r \in Nat /\ r < b /\ a = b * q + r
  BY Division
<1>2. p \in Nat /\ s \in Nat /\ s < b /\ c = b * p + s
  BY Division
<1> HIDE DEF q, p, r, s
<1>3. ASSUME p < q PROVE FALSE
  <2>1. b * (p + 1) <= b * q
    BY <1>1, <1>2, <1>3, SMT
  <2>2. b * (p + 1) = b * p + b
    BY <1>2, SMT
  <2>3. b * p \in Nat /\ b * q \in Nat
    BY <1>1, <1>2, SMT
  <2> QED BY <1>1, <1>2, <2>1, <2>2, <2>3
<1>4. q <= p
  BY <1>1, <1>2, <1>3
<1> QED BY <1>4 DEF q, p

\* Rounding keeps the order.
LEMMA RoundMonotone ==
  ASSUME NEW a \in Nat, NEW c \in Nat, NEW b \in Nat \ {0}, a <= c
  PROVE  /\ RoundHalfEven(a, b) \in Nat /\ RoundHalfEven(c, b) \in Nat
         /\ RoundHalfEven(a, b) <= RoundHalfEven(c, b)
<1> DEFINE q == a \div b
           p == c \div b
           r == a % b
           s == c % b
<1>1. q \in Nat /\ r \in Nat /\ r < b /\ a = b * q + r
  BY Division
<1>2. p \in Nat /\ s \in Nat /\ s < b /\ c = b * p + s
  BY Division
<1>3. q <= p
  BY DivisionMonotone
<1>4. RoundHalfEven(a, b) = IF 2 * r > b \/ (2 * r = b /\ q % 2 = 1) THEN q + 1 ELSE q
  BY DEF RoundHalfEven
<1>5. RoundHalfEven(c, b) = IF 2 * s > b \/ (2 * s = b /\ p % 2 = 1) THEN p + 1 ELSE p
  BY DEF RoundHalfEven
<1> HIDE DEF q, p, r, s
<1>6. CASE q = p
  <2>1. b * q = b * p /\ b * q \in Nat
    BY <1>1, <1>6, SMT
  <2>2. r <= s
    BY <1>1, <1>2, <2>1
  <2> QED BY <1>1, <1>2, <1>4, <1>5, <1>6, <2>2
<1>7. CASE q < p
  BY <1>1, <1>2, <1>4, <1>5, <1>7
<1> QED BY <1>1, <1>2, <1>3, <1>6, <1>7

\* A whole number is not rounded.
LEMMA RoundWhole ==
  ASSUME NEW k \in Nat, NEW b \in Nat \ {0}
  PROVE  RoundHalfEven(k * b, b) = k
<1>1. k * b \in Nat
  BY SMT
<1> DEFINE q == (k * b) \div b
           r == (k * b) % b
<1>2. q \in Nat /\ r \in Nat /\ r < b /\ k * b = b * q + r
  BY <1>1, Division
<1>3. RoundHalfEven(k * b, b) = IF 2 * r > b \/ (2 * r = b /\ q % 2 = 1) THEN q + 1 ELSE q
  BY DEF RoundHalfEven
<1> HIDE DEF q, r
<1>4. q = k /\ r = 0
  <2>1. ASSUME q < k PROVE FALSE
    <3>1. b * (q + 1) <= b * k
      BY <1>2, <2>1, SMT
    <3>2. b * (q + 1) = b * q + b /\ b * k = k * b /\ b * q \in Nat
      BY <1>2, SMT
    <3> QED BY <1>1, <1>2, <3>1, <3>2
  <2>2. ASSUME k < q PROVE FALSE
    <3>1. b * (k + 1) <= b * q
      BY <1>2, <2>2, SMT
    <3>2. b * (k + 1) = k * b + b /\ b * q \in Nat
      BY <1>2, SMT
    <3> QED BY <1>1, <1>2, <3>1, <3>2
  <2>3. q = k
    BY <1>2, <2>1, <2>2
  <2>4. b * q = k * b /\ b * q \in Nat
    BY <1>2, <2>3, SMT
  <2> QED BY <1>1, <1>2, <2>3, <2>4
<1> QED BY <1>2, <1>3, <1>4

Tenth == Precision \div 10

LEMMA PrecisionIs == Tenth \in Nat \ {0} /\ Precision = 10 * Tenth /\ One = 1000 * Tenth
  BY DetectorAssumption DEF Tenth, One

LEMMA ScaleIs ==
  ASSUME NEW a \in Nat, NEW b \in Nat \ {0}
  PROVE  /\ 10 * a >= b => Scale(a, b) = 1 /\ 100 \div Scale(a, b) = 100
         /\ 10 * a < b /\ 100 * a >= b => Scale(a, b) = 10 /\ 100 \div Scale(a, b) = 10
         /\ 100 * a < b => Scale(a, b) = 100 /\ 100 \div Scale(a, b) = 1
<1>1. 100 \div 1 = 100 /\ 100 \div 10 = 10 /\ 100 \div 100 = 1
  BY SMT
<1> QED BY <1>1 DEF Scale

\* The quotient on either side of a power of ten.
LEMMA QuotientBounds ==
  ASSUME NEW a \in Nat, NEW b \in Nat \ {0}
  PROVE  /\ Quotient(a, b) \in Nat
         /\ 10 * a >= b => Quotient(a, b) = RoundHalfEven(a * Precision, b) * 100
                           /\ Quotient(a, b) >= 10 * Precision
         /\ 10 * a < b /\ 100 * a >= b =>
              /\ Quotient(a, b) = RoundHalfEven(a * Precision * 10, b) * 10
              /\ Quotient(a, b) >= Precision /\ Quotient(a, b) <= 10 * Precision
         /\ 100 * a < b => Quotient(a, b) = RoundHalfEven(a * Precision * 100, b)
                           /\ Quotient(a, b) <= Precision
<1> DEFINE S == Precision
           T == Tenth
<1>1. T \in Nat \ {0} /\ S = 10 * T /\ S \in Nat
  BY PrecisionIs
<1>2. a * S \in Nat /\ a * S * 10 \in Nat /\ a * S * 100 \in Nat /\ T * b \in Nat /\ S * b \in Nat
  BY <1>1, SMT
<1>3. Quotient(a, b) = RoundHalfEven(a * S * Scale(a, b), b) * (100 \div Scale(a, b))
  BY DEF Quotient
<1>4. S * b = 10 * (T * b)
  BY <1>1, SMT
<1> HIDE DEF S, T
<1>5. CASE 10 * a >= b
  <2>1. Quotient(a, b) = RoundHalfEven(a * S, b) * 100
    <3>1. a * S * 1 = a * S
      BY <1>2
    <3> QED BY <1>3, <1>5, <3>1, ScaleIs
  <2>2. T * b <= a * S
    <3>1. T * b <= T * (10 * a)
      BY <1>1, <1>5, SMT
    <3>2. T * (10 * a) = a * S
      BY <1>1, SMT
    <3> QED BY <3>1, <3>2
  <2>3. RoundHalfEven(a * S, b) \in Nat /\ T <= RoundHalfEven(a * S, b)
    <3>1. RoundHalfEven(T * b, b) = T
      BY <1>1, RoundWhole
    <3> QED BY <1>2, <2>2, <3>1, RoundMonotone
  <2> QED BY <1>1, <1>5, <2>1, <2>3 DEF S
<1>6. CASE 10 * a < b /\ 100 * a >= b
  <2>1. Quotient(a, b) = RoundHalfEven(a * S * 10, b) * 10
    BY <1>3, <1>6, ScaleIs
  <2>2. T * b <= a * S * 10
    <3>1. T * b <= T * (100 * a)
      BY <1>1, <1>6, SMT
    <3>2. T * (100 * a) = a * S * 10
      BY <1>1, SMT
    <3> QED BY <3>1, <3>2
  <2>3. a * S * 10 <= S * b
    <3>1. S * (10 * a) <= S * b
      BY <1>1, <1>6, SMT
    <3>2. S * (10 * a) = a * S * 10
      BY <1>1, SMT
    <3> QED BY <3>1, <3>2
  <2>4. RoundHalfEven(a * S * 10, b) \in Nat /\ T <= RoundHalfEven(a * S * 10, b)
    <3>1. RoundHalfEven(T * b, b) = T
      BY <1>1, RoundWhole
    <3> QED BY <1>2, <2>2, <3>1, RoundMonotone
  <2>5. RoundHalfEven(a * S * 10, b) <= S
    <3>1. RoundHalfEven(S * b, b) = S
      BY <1>1, RoundWhole
    <3> QED BY <1>2, <2>3, <3>1, RoundMonotone
  <2> QED BY <1>1, <1>6, <2>1, <2>4, <2>5 DEF S
<1>7. CASE 100 * a < b
  <2>1. Quotient(a, b) = RoundHalfEven(a * S * 100, b) /\ RoundHalfEven(a * S * 100, b) \in Nat
    <3>1. RoundHalfEven(a * S * 100, b) \in Nat
      BY <1>2, RoundMonotone
    <3> QED BY <1>3, <1>7, <3>1, ScaleIs
  <2>2. a * S * 100 <= S * b
    <3>1. S * (100 * a) <= S * b
      BY <1>1, <1>7, SMT
    <3>2. S * (100 * a) = a * S * 100
      BY <1>1, SMT
    <3> QED BY <3>1, <3>2
  <2>3. RoundHalfEven(a * S * 100, b) <= S
    <3>1. RoundHalfEven(S * b, b) = S
      BY <1>1, RoundWhole
    <3> QED BY <1>2, <2>2, <3>1, RoundMonotone
  <2> QED BY <1>7, <2>1, <2>3 DEF S
<1> QED BY <1>5, <1>6, <1>7

\* A larger share is a larger quotient, although quotients of different
\* magnitude are rounded at different digits.
LEMMA QuotientMonotone ==
  ASSUME NEW a \in Nat, NEW c \in Nat, NEW b \in Nat \ {0}, a <= c
  PROVE  Quotient(a, b) <= Quotient(c, b)
<1> DEFINE S == Precision
<1>1. S \in Nat
  BY DetectorAssumption
<1>2. a * S \in Nat /\ c * S \in Nat /\ a * S <= c * S
  BY <1>1, SMT
<1>3. a * S * 10 \in Nat /\ c * S * 10 \in Nat /\ a * S * 10 <= c * S * 10
  BY <1>2
<1>4. a * S * 100 \in Nat /\ c * S * 100 \in Nat /\ a * S * 100 <= c * S * 100
  BY <1>2
<1>5. Quotient(a, b) \in Nat /\ Quotient(c, b) \in Nat
  BY QuotientBounds
<1> HIDE DEF S
<1>6. CASE 10 * a >= b
  <2>1. RoundHalfEven(a * S, b) <= RoundHalfEven(c * S, b)
        /\ RoundHalfEven(a * S, b) \in Nat /\ RoundHalfEven(c * S, b) \in Nat
    BY <1>2, RoundMonotone
  <2>2. 10 * c >= b
    BY <1>6
  <2>3. /\ Quotient(a, b) = RoundHalfEven(a * S, b) * 100
        /\ Quotient(c, b) = RoundHalfEven(c * S, b) * 100
    BY <1>6, <2>2, QuotientBounds DEF S
  <2> QED BY <2>1, <2>3
<1>7. CASE 10 * a < b /\ 100 * a >= b
  <2>1. CASE 10 * c < b
    <3>1. RoundHalfEven(a * S * 10, b) <= RoundHalfEven(c * S * 10, b)
          /\ RoundHalfEven(a * S * 10, b) \in Nat /\ RoundHalfEven(c * S * 10, b) \in Nat
      BY <1>3, RoundMonotone
    <3>2. 100 * c >= b
      BY <1>7
    <3>3. /\ Quotient(a, b) = RoundHalfEven(a * S * 10, b) * 10
          /\ Quotient(c, b) = RoundHalfEven(c * S * 10, b) * 10
      BY <1>7, <2>1, <3>2, QuotientBounds DEF S
    <3> QED BY <3>1, <3>3
  <2>2. CASE 10 * c >= b
    <3>1. Quotient(a, b) <= 10 * S /\ Quotient(c, b) >= 10 * S
      BY <1>7, <2>2, QuotientBounds DEF S
    <3> QED BY <1>1, <1>5, <3>1 DEF S
  <2> QED BY <2>1, <2>2
<1>8. CASE 100 * a < b
  <2>1. CASE 100 * c < b
    <3>1. RoundHalfEven(a * S * 100, b) <= RoundHalfEven(c * S * 100, b)
      BY <1>4, RoundMonotone
    <3>2. /\ Quotient(a, b) = RoundHalfEven(a * S * 100, b)
          /\ Quotient(c, b) = RoundHalfEven(c * S * 100, b)
      BY <1>8, <2>1, QuotientBounds DEF S
    <3> QED BY <3>1, <3>2
  <2>2. CASE 100 * c >= b
    <3>1. Quotient(a, b) <= S
      BY <1>8, QuotientBounds DEF S
    <3>2. Quotient(c, b) >= S
      <4>1. CASE 10 * c < b
        BY <2>2, <4>1, QuotientBounds DEF S
      <4>2. CASE 10 * c >= b
        <5>1. Quotient(c, b) >= 10 * S
          BY <4>2, QuotientBounds DEF S
        <5> QED BY <1>1, <1>5, <5>1 DEF S
      <4> QED BY <4>1, <4>2
    <3> QED BY <1>1, <1>5, <3>1, <3>2 DEF S
  <2> QED BY <2>1, <2>2
<1> QED BY <1>6, <1>7, <1>8

\* A decimal that is rounded stays on its side of the powers of ten at which
\* the last digit changes.
LEMMA RoundedBounds ==
  ASSUME NEW a \in Nat
  PROVE  /\ Rounded(a) \in Nat
         /\ 10 * a >= One => Rounded(a) = RoundHalfEven(a, 100) * 100
                             /\ Rounded(a) >= 10 * Precision
         /\ 10 * a < One /\ 100 * a >= One =>
              /\ Rounded(a) = RoundHalfEven(a, 10) * 10
              /\ Rounded(a) >= Precision /\ Rounded(a) <= 10 * Precision
         /\ 100 * a < One => Rounded(a) = a
<1> DEFINE S == Precision
           T == Tenth
<1>1. T \in Nat \ {0} /\ S = 10 * T /\ S \in Nat /\ One = 100 * S /\ One \in Nat \ {0}
  BY PrecisionIs
<1>2. Rounded(a) = RoundHalfEven(a, 100 \div Scale(a, One)) * (100 \div Scale(a, One))
  BY DEF Rounded
<1> HIDE DEF S, T
<1>3. CASE 10 * a >= One
  <2>1. Rounded(a) = RoundHalfEven(a, 100) * 100
    BY <1>1, <1>2, <1>3, ScaleIs
  <2>2. RoundHalfEven(a, 100) \in Nat /\ T <= RoundHalfEven(a, 100)
    <3>1. RoundHalfEven(T * 100, 100) = T /\ T * 100 \in Nat /\ T * 100 <= a
      BY <1>1, <1>3, RoundWhole
    <3> QED BY <3>1, RoundMonotone
  <2> QED BY <1>1, <1>3, <2>1, <2>2 DEF S
<1>4. CASE 10 * a < One /\ 100 * a >= One
  <2>1. Rounded(a) = RoundHalfEven(a, 10) * 10
    BY <1>1, <1>2, <1>4, ScaleIs
  <2>2. RoundHalfEven(a, 10) \in Nat /\ T <= RoundHalfEven(a, 10)
    <3>1. RoundHalfEven(T * 10, 10) = T /\ T * 10 \in Nat /\ T * 10 <= a
      BY <1>1, <1>4, RoundWhole
    <3> QED BY <3>1, RoundMonotone
  <2>3. RoundHalfEven(a, 10) <= S
    <3>1. RoundHalfEven(S * 10, 10) = S /\ S * 10 \in Nat /\ a <= S * 10
      BY <1>1, <1>4, RoundWhole
    <3> QED BY <3>1, RoundMonotone
  <2> QED BY <1>1, <1>4, <2>1, <2>2, <2>3 DEF S
<1>5. CASE 100 * a < One
  <2>1. Rounded(a) = RoundHalfEven(a, 1) * 1
    BY <1>1, <1>2, <1>5, ScaleIs
  <2>2. RoundHalfEven(a, 1) = a
    <3>1. RoundHalfEven(a * 1, 1) = a /\ a * 1 = a
      BY RoundWhole
    <3> QED BY <3>1
  <2> QED BY <1>1, <1>5, <2>1, <2>2
<1> QED BY <1>1, <1>3, <1>4, <1>5

LEMMA RoundedMonotone ==
  ASSUME NEW a \in Nat, NEW c \in Nat, a <= c
  PROVE  Rounded(a) <= Rounded(c)
<1> DEFINE S == Precision
<1>1. S \in Nat /\ One = 100 * S
  BY PrecisionIs DEF One
<1>2. Rounded(a) \in Nat /\ Rounded(c) \in Nat
  BY RoundedBounds
<1> HIDE DEF S
<1>3. CASE 10 * a >= One
  <2>1. 10 * c >= One
    BY <1>1, <1>3
  <2>2. /\ RoundHalfEven(a, 100) <= RoundHalfEven(c, 100)
        /\ RoundHalfEven(a, 100) \in Nat /\ RoundHalfEven(c, 100) \in Nat
    BY RoundMonotone
  <2> QED BY <1>3, <2>1, <2>2, RoundedBounds
<1>4. CASE 10 * a < One /\ 100 * a >= One
  <2>1. CASE 10 * c < One
    <3>1. /\ RoundHalfEven(a, 10) <= RoundHalfEven(c, 10)
          /\ RoundHalfEven(a, 10) \in Nat /\ RoundHalfEven(c, 10) \in Nat
      BY RoundMonotone
    <3>2. 100 * c >= One
      BY <1>1, <1>4
    <3> QED BY <1>4, <2>1, <3>1, <3>2, RoundedBounds
  <2>2. CASE 10 * c >= One
    <3>1. Rounded(a) <= 10 * S /\ Rounded(c) >= 10 * S
      BY <1>4, <2>2, RoundedBounds DEF S
    <3> QED BY <1>1, <1>2, <3>1
  <2> QED BY <1>1, <2>1, <2>2
<1>5. CASE 100 * a < One
  <2>1. Rounded(a) = a /\ a < S
    BY <1>1, <1>5, RoundedBounds
  <2>2. CASE 100 * c < One
    BY <2>1, <2>2, RoundedBounds
  <2>3. CASE 100 * c >= One
    <3>1. Rounded(c) >= S
      <4>1. CASE 10 * c < One
        BY <2>3, <4>1, RoundedBounds DEF S
      <4>2. CASE 10 * c >= One
        <5>1. Rounded(c) >= 10 * S
          BY <4>2, RoundedBounds DEF S
        <5> QED BY <1>1, <1>2, <5>1
      <4> QED BY <1>1, <4>1, <4>2
    <3> QED BY <1>1, <1>2, <2>1, <3>1
  <2> QED BY <1>1, <2>2, <2>3
<1> QED BY <1>1, <1>3, <1>4, <1>5

LEMMA DifferenceMonotone ==
  ASSUME NEW x \in Nat, NEW y \in Nat, NEW v \in Nat, NEW z \in Nat, x <= v, z <= y
  PROVE  /\ Difference(x, y) \in Int /\ Difference(v, z) \in Int
         /\ Difference(x, y) <= Difference(v, z)
<1>1. CASE x >= y
  <2>1. v >= z /\ x - y \in Nat /\ v - z \in Nat /\ x - y <= v - z
    BY <1>1
  <2>2. Rounded(x - y) <= Rounded(v - z) /\ Rounded(x - y) \in Nat /\ Rounded(v - z) \in Nat
    BY <2>1, RoundedMonotone, RoundedBounds
  <2> QED BY <1>1, <2>1, <2>2 DEF Difference
<1>2. CASE x < y
  <2>1. y - x \in Nat /\ Rounded(y - x) \in Nat
    BY <1>2, RoundedBounds
  <2>2. Difference(x, y) = -Rounded(y - x)
    BY <1>2 DEF Difference
  <2>3. CASE v >= z
    <3>1. v - z \in Nat /\ Rounded(v - z) \in Nat
      BY <2>3, RoundedBounds
    <3>2. Difference(v, z) = Rounded(v - z)
      BY <2>3 DEF Difference
    <3> QED BY <2>1, <2>2, <3>1, <3>2
  <2>4. CASE v < z
    <3>1. z - v \in Nat /\ z - v <= y - x
      BY <2>4
    <3>2. Rounded(z - v) \in Nat /\ Rounded(z - v) <= Rounded(y - x)
      BY <2>1, <3>1, RoundedMonotone, RoundedBounds
    <3>3. Difference(v, z) = -Rounded(z - v)
      BY <2>4 DEF Difference
    <3> QED BY <2>1, <2>2, <3>2, <3>3
  <2> QED BY <2>3, <2>4
<1> QED BY <1>1, <1>2

-----------------------------------------------------------------------------
\* A sample of both windows with the successes among its events.
Sampled(s) == Proper(s) /\ s.bn # 0 /\ s.on # 0

\* t shows no smaller a drop than s, over the same events.
Worse(t, s) ==
  /\ Sampled(s) /\ Sampled(t)
  /\ t.bn = s.bn /\ t.on = s.on /\ t.bs >= s.bs /\ t.os <= s.os

LEMMA DropMonotone ==
  ASSUME NEW s, NEW t, Worse(t, s)
  PROVE  AbsoluteDrop(s) \in Int /\ AbsoluteDrop(t) \in Int /\ AbsoluteDrop(s) <= AbsoluteDrop(t)
<1>1. Quotient(s.bs, s.bn) <= Quotient(t.bs, t.bn) /\ Quotient(t.os, t.on) <= Quotient(s.os, s.on)
  BY QuotientMonotone DEF Worse, Sampled, Proper
<1>2. /\ Quotient(s.bs, s.bn) \in Nat /\ Quotient(t.bs, t.bn) \in Nat
      /\ Quotient(s.os, s.on) \in Nat /\ Quotient(t.os, t.on) \in Nat
  BY QuotientBounds DEF Worse, Sampled, Proper
<1> QED BY <1>1, <1>2, DifferenceMonotone DEF AbsoluteDrop

LEMMA Products ==
  ASSUME NEW a \in Nat, NEW b \in Nat
  PROVE  a * b \in Nat /\ a * b = b * a
  BY SMT

LEMMA ProductMonotone ==
  ASSUME NEW a \in Nat, NEW b \in Nat, NEW c \in Nat, a <= b
  PROVE  a * c <= b * c
  BY SMT

LEMMA ProductCancel ==
  ASSUME NEW a \in Nat, NEW b \in Nat, NEW c \in Nat \ {0}, a * c <= b * c
  PROVE  a <= b
<1>1. ASSUME b < a PROVE FALSE
  <2>1. (b + 1) * c <= a * c
    BY <1>1, ProductMonotone
  <2>2. (b + 1) * c = b * c + c
    BY SMT
  <2>3. b * c \in Nat /\ a * c \in Nat
    BY Products
  <2> QED BY <2>1, <2>2, <2>3
<1> QED BY <1>1

\* The square of a drop d of unnormalized rates against the product of the
\* numbers of successes and failures: a drop that grows by g, while one event
\* changes sides, keeps its lead.
LEMMA LeadKept ==
  ASSUME NEW d \in Nat, NEW g \in Nat, NEW m \in Nat, NEW k \in Nat,
         NEW s \in Nat \ {0}, NEW f \in Nat \ {0},
         d <= g * f, k * (s * f) <= m * (d * d)
  PROVE  k * ((s - 1) * (f + 1)) <= m * ((d + g) * (d + g))
<1>1. s * f \in Nat /\ d * d \in Nat /\ g * f \in Nat /\ d * g \in Nat /\ g * g \in Nat
  BY Products
<1>2. m * (d * d) \in Nat /\ m * (d * g) \in Nat /\ m * (g * g) \in Nat /\ k * (s * f) \in Nat
  BY <1>1, Products
<1>3. m * ((d + g) * (d + g)) = m * (d * d) + 2 * (m * (d * g)) + m * (g * g)
  BY SMT
<1>4. (s - 1) * (f + 1) = s * f + s - 1 - f
  BY SMT
<1>5. (s - 1) * (f + 1) \in Nat
  BY Products
<1>6. CASE s - 1 <= f
  <2>1. (s - 1) * (f + 1) <= s * f
    BY <1>1, <1>4, <1>6
  <2>2. k * ((s - 1) * (f + 1)) <= k * (s * f)
    BY <1>1, <1>5, <2>1, ProductMonotone, Products
  <2>3. k * ((s - 1) * (f + 1)) \in Nat
    BY <1>5, Products
  <2> QED BY <1>2, <1>3, <2>2, <2>3
<1>7. CASE s - 1 > f
  <2> DEFINE e == s - 1 - f
  <2>1. e \in Nat /\ e <= s
    BY <1>7
  <2> HIDE DEF e
  <2>2. e * f <= s * f /\ e * f \in Nat
    BY <2>1, ProductMonotone, Products
  <2>3. (k * e) * f <= k * (s * f)
    <3>1. k * (e * f) <= k * (s * f)
      BY <1>1, <2>2, ProductMonotone, Products
    <3>2. k * (e * f) = (k * e) * f
      BY <2>1, SMT
    <3> QED BY <3>1, <3>2
  <2>4. m * (d * d) <= (m * (d * g)) * f
    <3>1. d * d <= (d * g) * f
      <4>1. d * d <= d * (g * f)
        BY <1>1, ProductMonotone, Products
      <4>2. d * (g * f) = (d * g) * f
        BY SMT
      <4> QED BY <4>1, <4>2
    <3>2. (d * g) * f \in Nat
      BY <1>1, Products
    <3>3. m * (d * d) <= m * ((d * g) * f)
      BY <1>1, <3>1, <3>2, ProductMonotone, Products
    <3>4. m * ((d * g) * f) = (m * (d * g)) * f
      BY <1>1, SMT
    <3> QED BY <3>3, <3>4
  <2>5. k * e \in Nat /\ (k * e) * f \in Nat /\ (m * (d * g)) * f \in Nat
    BY <1>2, <2>1, Products
  <2>6. k * e <= m * (d * g)
    <3>1. (k * e) * f <= (m * (d * g)) * f
      BY <1>2, <2>3, <2>4, <2>5
    <3> QED BY <1>2, <2>5, <3>1, ProductCancel
  <2>7. k * ((s - 1) * (f + 1)) = k * (s * f) + k * e
    <3>1. (s - 1) * (f + 1) = s * f + e
      BY <1>4, <2>1 DEF e
    <3>2. k * (s * f + e) = k * (s * f) + k * e
      BY <1>1, <2>1, SMT
    <3> QED BY <3>1, <3>2
  <2> QED BY <1>2, <1>3, <2>5, <2>6, <2>7
<1> QED BY <1>6, <1>7

\* The score's two sides.
Drop(s) == s.bs * s.on - s.os * s.bn
All(s) == s.bn + s.on + 2
Spread(z, s) == z * z * ((s.bn + s.on) * (s.bn * s.on))

LEMMA ScoreIs ==
  ASSUME NEW s, Sampled(s), NEW z \in Nat
  PROVE  ScoreAtLeast(z, s) <=>
           /\ Drop(s) >= 0
           /\ Spread(z, s) * ((s.bs + s.os + 1) * (s.bn - s.bs + s.on - s.os + 1))
                <= (All(s) * All(s)) * (Drop(s) * Drop(s))
<1> DEFINE bn == s.bn
           bs == s.bs
           on == s.on
           os == s.os
           d == bs * on - os * bn
           x == bs + os + 1
           y == bn - bs + on - os + 1
<1>1. bn \in Int /\ bs \in Int /\ on \in Int /\ os \in Int
  BY DEF Sampled, Proper
<1>2. ScoreAtLeast(z, s) <=>
        d >= 0 /\ d * (x + y) * d * (x + y) >= z * z * x * y * (bn + on) * bn * on
  BY DEF ScoreAtLeast
<1>3. bs * on \in Int /\ os * bn \in Int
  BY <1>1, SMT
<1>4. d \in Int /\ x \in Int /\ y \in Int /\ x + y = bn + on + 2
  BY <1>1, <1>3
<1> HIDE DEF d, x, y
<1>5. d * (x + y) * d * (x + y) = ((x + y) * (x + y)) * (d * d)
  BY <1>4, SMT
<1>6. z * z * x * y * (bn + on) * bn * on = (z * z * ((bn + on) * (bn * on))) * (x * y)
  <2> HIDE DEF bn, on
  <2> QED BY <1>1, <1>4, SMT
<1>7. ((x + y) * (x + y)) * (d * d) \in Int /\ (z * z * ((bn + on) * (bn * on))) * (x * y) \in Int
  <2> HIDE DEF bn, on
  <2>1. bn * on \in Int /\ bn + on \in Int /\ z * z \in Int /\ x * y \in Int /\ d * d \in Int
        /\ x + y \in Int
    BY <1>1, <1>4, SMT
  <2>2. (bn + on) * (bn * on) \in Int /\ (x + y) * (x + y) \in Int
    BY <2>1, SMT
  <2>3. z * z * ((bn + on) * (bn * on)) \in Int
    BY <2>1, <2>2, SMT
  <2> QED BY <2>1, <2>2, <2>3, SMT
<1>8. ScoreAtLeast(z, s) <=>
        d >= 0 /\ (z * z * ((bn + on) * (bn * on))) * (x * y) <= ((x + y) * (x + y)) * (d * d)
  <2> HIDE DEF bn, on, bs, os
  <2> QED BY <1>2, <1>5, <1>6, <1>7
<1> QED BY <1>4, <1>8 DEF Drop, All, Spread, d, x, y

\* One more failure observed, or one more success in the baseline.
OneMoreFailure(t, s) ==
  /\ Sampled(s) /\ Sampled(t) /\ t.bn = s.bn /\ t.on = s.on
  /\ \/ t.bs = s.bs /\ s.os = t.os + 1
     \/ t.bs = s.bs + 1 /\ t.os = s.os

LEMMA ScoreMonotone ==
  ASSUME NEW s, NEW t, OneMoreFailure(t, s), NEW z \in Nat, ScoreAtLeast(z, s)
  PROVE  ScoreAtLeast(z, t)
<1> DEFINE bn == s.bn
           on == s.on
           x == s.bs + s.os + 1
           y == s.bn - s.bs + s.on - s.os + 1
           d == Drop(s)
           k == Spread(z, s)
           m == All(s) * All(s)
<1>1. /\ bn \in Nat \ {0} /\ s.bs \in Nat /\ on \in Nat \ {0} /\ s.os \in Nat
      /\ s.bs <= bn /\ s.os <= on
  BY DEF OneMoreFailure, Sampled, Proper
<1>2. x \in Nat \ {0} /\ y \in Nat \ {0}
  BY <1>1
<1>3. s.bs * on \in Nat /\ s.os * bn \in Nat
  BY <1>1, Products
<1>4. d \in Nat /\ k * (x * y) <= m * (d * d)
  <2>1. d >= 0 /\ k * (x * y) <= m * (d * d)
    BY ScoreIs DEF OneMoreFailure
  <2>2. d = s.bs * on - s.os * bn
    BY DEF Drop
  <2> QED BY <1>3, <2>1, <2>2
<1>5. k \in Nat /\ m \in Nat
  <2>1. bn * on \in Nat /\ bn + on \in Nat /\ z * z \in Nat
    BY <1>1, Products
  <2>2. (bn + on) * (bn * on) \in Nat
    BY <2>1, Products
  <2>3. k \in Nat
    BY <2>1, <2>2, Products DEF Spread
  <2>4. All(s) \in Nat
    BY <1>1 DEF All
  <2> QED BY <2>3, <2>4, Products
<1>6. Spread(z, t) = k /\ All(t) * All(t) = m
  BY DEF OneMoreFailure, Spread, All
<1>7. CASE t.bs = s.bs /\ s.os = t.os + 1
  <2>1. t.os \in Nat
    BY DEF OneMoreFailure, Sampled, Proper
  <2>2. Drop(t) = d + bn
    <3>1. s.os * bn = t.os * bn + bn
      BY <1>1, <1>7, <2>1, SMT
    <3>2. t.os * bn \in Nat
      BY <1>1, <2>1, Products
    <3>3. Drop(t) = s.bs * on - t.os * bn /\ d = s.bs * on - s.os * bn
      BY <1>7 DEF Drop, OneMoreFailure
    <3>4. bn \in Nat
      BY <1>1
    <3> HIDE DEF d, bn, on
    <3> QED BY <1>3, <3>1, <3>2, <3>3, <3>4
  <2>3. d <= bn * y
    <3>1. s.bs * on <= bn * on
      BY <1>1, ProductMonotone
    <3>2. bn * on - s.os * bn = bn * (on - s.os)
      BY <1>1, SMT
    <3>3. (on - s.os) * bn <= y * bn
      BY <1>1, <1>2, ProductMonotone
    <3>4. (on - s.os) * bn = bn * (on - s.os) /\ y * bn = bn * y /\ bn * y \in Nat
          /\ bn * on \in Nat /\ bn * (on - s.os) \in Nat
      BY <1>1, <1>2, Products
    <3>5. d = s.bs * on - s.os * bn
      BY DEF Drop
    <3> HIDE DEF d, bn, on, x, y
    <3> QED BY <1>3, <1>4, <3>1, <3>2, <3>3, <3>4, <3>5
  <2>4. k * ((x - 1) * (y + 1)) <= m * ((d + bn) * (d + bn))
    <3> HIDE DEF d, bn, k, m, x, y
    <3> QED BY <1>1, <1>2, <1>4, <1>5, <2>3, LeadKept
  <2>5. t.bs + t.os + 1 = x - 1 /\ t.bn - t.bs + t.on - t.os + 1 = y + 1
    BY <1>1, <1>7, <2>1 DEF OneMoreFailure
  <2>6. d + bn >= 0
    BY <1>1, <1>4
  <2> HIDE DEF d, bn, k, m, x, y
  <2> QED BY <1>6, <2>2, <2>4, <2>5, <2>6, ScoreIs DEF OneMoreFailure
<1>8. CASE t.bs = s.bs + 1 /\ t.os = s.os
  <2>1. Drop(t) = d + on
    <3>1. (s.bs + 1) * on = s.bs * on + on
      BY <1>1, SMT
    <3>2. Drop(t) = (s.bs + 1) * on - s.os * bn /\ d = s.bs * on - s.os * bn
      BY <1>8 DEF Drop, OneMoreFailure
    <3> HIDE DEF d, bn, on
    <3> QED BY <1>1, <1>3, <3>1, <3>2
  <2>2. d <= on * x
    <3>1. s.bs * on <= x * on
      BY <1>1, <1>2, ProductMonotone
    <3>2. x * on = on * x /\ on * x \in Nat
      BY <1>1, <1>2, Products
    <3>3. d = s.bs * on - s.os * bn
      BY DEF Drop
    <3> HIDE DEF d, bn, on, x, y
    <3> QED BY <1>3, <1>4, <3>1, <3>2, <3>3
  <2>3. k * (y * x) <= m * (d * d)
    BY <1>2, <1>4, Products
  <2>4. k * ((y - 1) * (x + 1)) <= m * ((d + on) * (d + on))
    <3> HIDE DEF d, on, k, m, x, y
    <3> QED BY <1>1, <1>2, <1>4, <1>5, <2>2, <2>3, LeadKept
  <2>5. t.bs + t.os + 1 = x + 1 /\ t.bn - t.bs + t.on - t.os + 1 = y - 1
    BY <1>1, <1>8 DEF OneMoreFailure
  <2>6. (x + 1) * (y - 1) = (y - 1) * (x + 1)
    BY <1>2, SMT
  <2>7. d + on >= 0
    BY <1>1, <1>4
  <2> HIDE DEF d, on, k, m, x, y
  <2> QED BY <1>6, <2>1, <2>4, <2>5, <2>6, <2>7, ScoreIs DEF OneMoreFailure
<1> QED BY <1>7, <1>8 DEF OneMoreFailure

LEMMA HardnessIs ==
  /\ Hardness["insufficient"] = 0 /\ Hardness["healthy"] = 0 /\ Hardness["watch"] = 1
  /\ Hardness["medium"] = 2 /\ Hardness["high"] = 3 /\ Hardness["critical"] = 4
  BY DEF Hardness

\* The verdict, as a number, of a sufficient sample.
LEMMA HardnessOf ==
  ASSUME NEW s, Sufficient(s)
  PROVE  Hardness[Verdict(s)] =
           IF AbsoluteDrop(s) >= Percent(10) /\ ScoreAtLeast(3, s)
           THEN IF AbsoluteDrop(s) >= Percent(35) THEN 4
                ELSE IF AbsoluteDrop(s) >= Percent(20) THEN 3 ELSE 2
           ELSE IF AbsoluteDrop(s) <= Percent(5) THEN 0 ELSE 1
  BY HardnessIs DEF Verdict, Degraded, Severity

LEMMA VerdictHardens ==
  ASSUME NEW s, NEW t, OneMoreFailure(t, s), Sufficient(s)
  PROVE  Hardness[Verdict(t)] >= Hardness[Verdict(s)]
<1> DEFINE d == AbsoluteDrop(s)
           e == AbsoluteDrop(t)
<1>1. Worse(t, s)
  BY DEF OneMoreFailure, Worse, Sampled, Proper
<1>2. d \in Int /\ e \in Int /\ d <= e
  BY <1>1, DropMonotone
<1>3. Sufficient(t)
  BY DEF OneMoreFailure, Sufficient
<1>4. ScoreAtLeast(3, s) => ScoreAtLeast(3, t)
  BY ScoreMonotone
<1>5. \A n \in {5, 10, 20, 35} : Percent(n) = 10 * n * Tenth
  <2>1. One \div 100 = 10 * Tenth
    BY PrecisionIs
  <2> QED BY <2>1, PrecisionIs DEF Percent
<1>6. Tenth \in Nat \ {0}
  BY PrecisionIs
<1>7. /\ Percent(5) \in Nat /\ Percent(10) \in Nat /\ Percent(20) \in Nat /\ Percent(35) \in Nat
      /\ Percent(5) < Percent(10) /\ Percent(10) < Percent(20) /\ Percent(20) < Percent(35)
  BY <1>5, <1>6
<1>8. Hardness[Verdict(s)] =
           IF d >= Percent(10) /\ ScoreAtLeast(3, s)
           THEN IF d >= Percent(35) THEN 4 ELSE IF d >= Percent(20) THEN 3 ELSE 2
           ELSE IF d <= Percent(5) THEN 0 ELSE 1
  BY HardnessOf
<1>9. Hardness[Verdict(t)] =
           IF e >= Percent(10) /\ ScoreAtLeast(3, t)
           THEN IF e >= Percent(35) THEN 4 ELSE IF e >= Percent(20) THEN 3 ELSE 2
           ELSE IF e <= Percent(5) THEN 0 ELSE 1
  BY <1>3, HardnessOf
<1> HIDE DEF d, e
<1> QED BY <1>2, <1>4, <1>7, <1>8, <1>9

LEMMA SufficientSample ==
  ASSUME NEW s, Sufficient(s), s.bn \in Nat, s.on \in Nat
  PROVE  s.bn \in Nat \ {0} /\ s.on \in Nat \ {0}
  BY DetectorAssumption DEF Sufficient

\* VerdictMonotone, for every sample, precision and minimum sample sizes:
\* neither the rounding of the rates and of their difference, nor the score,
\* nor the thresholds of detect_degradation_v2 (services/analytics.py) let
\* one more failure make the verdict softer.
THEOREM VerdictHardensWithFailures == Spec => []VerdictMonotone
<1>1. ASSUME AllReported, NEW r \in reports, NEW a \in r.cohorts, Sufficient(a.sample)
      PROVE  LET s == a.sample
                 Hard(t) == Hardness[Verdict(t)] IN
             /\ \A n \in 0..(s.on - 1) :
                  Hard([s EXCEPT !.os = n]) >= Hard([s EXCEPT !.os = n + 1])
             /\ \A n \in 0..(s.bn - 1) :
                  Hard([s EXCEPT !.bs = n + 1]) >= Hard([s EXCEPT !.bs = n])
  <2> DEFINE s == a.sample
  <2>1. Reported(r)
    BY <1>1 DEF AllReported
  <2>2. /\ r.window.baseline_start \in Int /\ r.window.observation_start \in Int
        /\ r.window.observation_end \in Int
    BY <2>1, WindowTyped DEF Reported
  <2>3. /\ s = Sample(s.bn, s.bs, s.on, s.os)
        /\ s.bn \in Nat /\ s.bs \in Nat /\ s.on \in Nat /\ s.os \in Nat
        /\ s.bs <= s.bn /\ s.os <= s.on
    <3>1. PICK c : a = Aggregate(c, InSpan(r.seen, r.window), r.window)
      BY <1>1, <2>1, ReportAggregates
    <3>2. RowsOK(r.seen)
      BY <2>1 DEF Reported
    <3>3. Proper(Aggregate(c, InSpan(r.seen, r.window), r.window).sample)
      BY <2>2, <3>2, SampleCounts
    <3> QED BY <3>1, <3>3 DEF Proper
  <2>4. s.bn \in Nat \ {0} /\ s.on \in Nat \ {0}
    BY <1>1, <2>3, SufficientSample
  <2> HIDE DEF s
  <2>5. ASSUME NEW n \in 0..(s.on - 1)
        PROVE  Hardness[Verdict([s EXCEPT !.os = n])] >= Hardness[Verdict([s EXCEPT !.os = n + 1])]
    <3> DEFINE t == [s EXCEPT !.os = n]
               u == [s EXCEPT !.os = n + 1]
    <3>1. t = Sample(s.bn, s.bs, s.on, n) /\ u = Sample(s.bn, s.bs, s.on, n + 1)
      BY <2>3 DEF Sample
    <3>2. n \in Nat /\ n + 1 \in Nat /\ n <= s.on /\ n + 1 <= s.on
      BY <2>3
    <3>3. OneMoreFailure(t, u)
      <4> HIDE DEF t, u
      <4> QED BY <2>3, <2>4, <3>1, <3>2 DEF OneMoreFailure, Sampled, Proper, Sample
    <3>4. Sufficient(u)
      <4> HIDE DEF t, u
      <4> QED BY <1>1, <3>1 DEF Sufficient, Sample, s
    <3> HIDE DEF t, u
    <3>5. Hardness[Verdict(t)] >= Hardness[Verdict(u)]
      BY <3>3, <3>4, VerdictHardens
    <3> QED BY <3>5 DEF t, u
  <2>6. ASSUME NEW n \in 0..(s.bn - 1)
        PROVE  Hardness[Verdict([s EXCEPT !.bs = n + 1])] >= Hardness[Verdict([s EXCEPT !.bs = n])]
    <3> DEFINE t == [s EXCEPT !.bs = n + 1]
               u == [s EXCEPT !.bs = n]
    <3>1. t = Sample(s.bn, n + 1, s.on, s.os) /\ u = Sample(s.bn, n, s.on, s.os)
      BY <2>3 DEF Sample
    <3>2. n \in Nat /\ n + 1 \in Nat /\ n <= s.bn /\ n + 1 <= s.bn
      BY <2>3
    <3>3. OneMoreFailure(t, u)
      <4> HIDE DEF t, u
      <4> QED BY <2>3, <2>4, <3>1, <3>2 DEF OneMoreFailure, Sampled, Proper, Sample
    <3>4. Sufficient(u)
      <4> HIDE DEF t, u
      <4> QED BY <1>1, <3>1 DEF Sufficient, Sample, s
    <3> HIDE DEF t, u
    <3>5. Hardness[Verdict(t)] >= Hardness[Verdict(u)]
      BY <3>3, <3>4, VerdictHardens
    <3> QED BY <3>5 DEF t, u
  <2> QED BY <2>5, <2>6 DEF s
<1>2. AllReported => VerdictMonotone
  BY <1>1, Zenon DEF VerdictMonotone
<1> QED BY <1>2, ReportedInit, ReportedStep, PTL DEF Spec
=============================================================================
