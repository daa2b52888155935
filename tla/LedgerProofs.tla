---------------------------- MODULE LedgerProofs ----------------------------
(***************************************************************************)
(* IncidentScan implements ScanLedger, for any number of processes,        *)
(* cohorts and windows: what a transaction has written when it commits is  *)
(* exactly what one step of the ledger writes.  What is true of the        *)
(* ledger's step is then true of the scanners.  And the audit trail tells  *)
(* the history the observations tell: a transaction writes no record twice *)
(* (DistinctInv), of its own window, which is later than every record      *)
(* there is; so what a commit appends can be matched with the observations *)
(* it adds, and changes nothing about older ones.                          *)
(***************************************************************************)
EXTENDS IncidentScanProofs

-----------------------------------------------------------------------------
(* What a transaction has written, cohort by cohort                        *)

\* The rows of the open incidents, and of the cohorts without one, whose turn
\* is over.
AdvancedRows(t) ==
  {AdvanceIncident(i, t.evidence[i.cohort], t.window, t.now) :
     i \in {o \in t.open : o.cohort \notin t.todo}}

OpenedRows(t) ==
  {CreateIncident(c, t.evidence[c], t.window, t.now) :
     c \in {b \in DOMAIN t.evidence \ {o.cohort : o \in t.open} :
              b \notin t.todo /\ t.evidence[b].outcome = "degraded"}}

ResolvedRows(I) == {i \in I : i.status = "resolved"}

Trail(a) == {a[k] : k \in DOMAIN a}

TrailOf(A, O, w) ==
  {AuditRecord("incident.opened", i, w) : i \in O}
    \cup {AuditRecord("incident.observation_updated", i, w) : i \in A}
    \cup {AuditRecord("incident.resolved", i, w) : i \in ResolvedRows(A)}

Kept(t) ==
  /\ t.rows = AdvancedRows(t) \cup OpenedRows(t)
  /\ t.obs = {Observation(i, t.window, t.evidence[i.cohort]) : i \in t.rows}
  /\ Trail(t.audit) = TrailOf(AdvancedRows(t), OpenedRows(t), t.window)
  /\ IsFiniteSet(AdvancedRows(t)) /\ IsFiniteSet(OpenedRows(t))
  /\ t.opened = Cardinality(OpenedRows(t))
  /\ t.updated = Cardinality(AdvancedRows(t))
  /\ t.resolved = Cardinality(ResolvedRows(AdvancedRows(t)))
  /\ \A i \in AdvancedRows(t) : Chronological(i)

Blank(t) ==
  /\ t.rows = {} /\ t.obs = {} /\ t.audit = <<>>
  /\ t.opened = 0 /\ t.updated = 0 /\ t.resolved = 0

\* Two transactions that agree on what they read.
SameReading(t, u) ==
  u.window = t.window /\ u.now = t.now /\ u.open = t.open /\ u.evidence = t.evidence

LEMMA TrailGrows ==
  ASSUME NEW a \in Seq(AuditRecords), NEW r \in AuditRecords
  PROVE  /\ Trail(a \o <<r>>) = Trail(a) \cup {r}
         /\ a \o <<r>> \in Seq(AuditRecords)
<1> DEFINE b == a \o <<r>>
<1>1. b \in Seq(AuditRecords) /\ Len(b) = Len(a) + 1 /\ Len(a) \in Nat
  OBVIOUS
<1>2. DOMAIN a = 1..Len(a) /\ DOMAIN b = 1..(Len(a) + 1)
  BY <1>1
<1>3. /\ \A k \in 1..Len(a) : b[k] = a[k]
      /\ b[Len(a) + 1] = r
  OBVIOUS
<1> HIDE DEF b
<1>4. Trail(b) = Trail(a) \cup {r}
  BY <1>1, <1>2, <1>3 DEF Trail
<1> QED BY <1>1, <1>4 DEF b

LEMMA TrailOfOneMore ==
  ASSUME NEW A, NEW O, NEW w, NEW j
  PROVE  TrailOf(A \cup {j}, O, w)
           = TrailOf(A, O, w) \cup {AuditRecord("incident.observation_updated", j, w)}
               \cup {AuditRecord("incident.resolved", k, w) : k \in ResolvedRows({j})}
<1>1. ResolvedRows(A \cup {j}) = ResolvedRows(A) \cup ResolvedRows({j})
  BY DEF ResolvedRows
<1> DEFINE up(i) == AuditRecord("incident.observation_updated", i, w)
           re(i) == AuditRecord("incident.resolved", i, w)
<1>2. {up(i) : i \in A \cup {j}} = {up(i) : i \in A} \cup {up(j)}
  <2> HIDE DEF up
  <2> QED OBVIOUS
<1>3. {re(i) : i \in ResolvedRows(A \cup {j})}
        = {re(i) : i \in ResolvedRows(A)} \cup {re(i) : i \in ResolvedRows({j})}
  <2> HIDE DEF re
  <2> QED BY <1>1
<1> QED BY <1>2, <1>3 DEF TrailOf

LEMMA NothingKept ==
  ASSUME NEW t, Blank(t), {o.cohort : o \in t.open} \subseteq t.todo,
         DOMAIN t.evidence \subseteq t.todo
  PROVE  Kept(t)
<1>1. AdvancedRows(t) = {} /\ OpenedRows(t) = {}
  BY DEF AdvancedRows, OpenedRows
<1>2. Trail(t.audit) = {} /\ TrailOf({}, {}, t.window) = {} /\ ResolvedRows({}) = {}
  BY DEF Blank, Trail, TrailOf, ResolvedRows
<1>3. IsFiniteSet({}) /\ Cardinality({}) = 0
  BY FS_EmptySet
<1> QED BY <1>1, <1>2, <1>3 DEF Kept, Blank

LEMMA PassedKept ==
  ASSUME NEW t, NEW u, Kept(t), SameReading(t, u), NEW c,
         u.todo = t.todo \ {c}, c \notin {o.cohort : o \in t.open},
         t.evidence[c].outcome # "degraded",
         u.rows = t.rows, u.obs = t.obs, u.audit = t.audit,
         u.opened = t.opened, u.updated = t.updated, u.resolved = t.resolved
  PROVE  Kept(u)
<1>1. AdvancedRows(u) = AdvancedRows(t)
  BY DEF AdvancedRows, SameReading
<1>2. OpenedRows(u) = OpenedRows(t)
  BY DEF OpenedRows, SameReading
<1> QED BY <1>1, <1>2 DEF Kept, SameReading

LEMMA OpenedKept ==
  ASSUME NEW t, NEW u, Kept(t), SameReading(t, u), NEW c \in DOMAIN t.evidence,
         c \in t.todo, u.todo = t.todo \ {c}, c \notin {o.cohort : o \in t.open},
         t.evidence[c].outcome = "degraded",
         NEW i, i = CreateIncident(c, t.evidence[c], t.window, t.now),
         u.rows = t.rows \cup {i},
         u.obs = t.obs \cup {Observation(i, t.window, t.evidence[c])},
         Trail(u.audit) = Trail(t.audit) \cup {AuditRecord("incident.opened", i, t.window)},
         u.opened = t.opened + 1, u.updated = t.updated, u.resolved = t.resolved
  PROVE  Kept(u)
<1>1. AdvancedRows(u) = AdvancedRows(t)
  BY DEF AdvancedRows, SameReading
<1>2. OpenedRows(u) = OpenedRows(t) \cup {i}
  BY DEF OpenedRows, SameReading
<1>3. i \notin OpenedRows(t) /\ i.cohort = c
  BY DEF OpenedRows, CreateIncident
<1>4. IsFiniteSet(OpenedRows(u)) /\ Cardinality(OpenedRows(u)) = Cardinality(OpenedRows(t)) + 1
  BY <1>2, <1>3, FS_AddElement DEF Kept
<1>5. u.rows = AdvancedRows(u) \cup OpenedRows(u)
  BY <1>1, <1>2 DEF Kept
<1>6. u.obs = {Observation(j, u.window, u.evidence[j.cohort]) : j \in u.rows}
  BY <1>3 DEF Kept, SameReading
<1>7. Trail(u.audit) = TrailOf(AdvancedRows(u), OpenedRows(u), u.window)
  BY <1>1, <1>2 DEF Kept, TrailOf, SameReading
<1> QED BY <1>1, <1>4, <1>5, <1>6, <1>7 DEF Kept

LEMMA UpdatedKept ==
  ASSUME NEW t, NEW u, Kept(t), SameReading(t, u), NEW i \in t.open,
         i.cohort \in t.todo, u.todo = t.todo \ {i.cohort},
         \A o \in t.open : o.cohort = i.cohort => o = i,
         \A o \in t.open : DOMAIN o = DOMAIN i /\ "cohort" \in DOMAIN o,
         i.cohort \in DOMAIN t.evidence,
         NEW j, j = AdvanceIncident(i, t.evidence[i.cohort], t.window, t.now),
         Chronological(j),
         u.rows = t.rows \cup {j},
         u.obs = t.obs \cup {Observation(j, t.window, t.evidence[i.cohort])},
         Trail(u.audit) = Trail(t.audit)
           \cup {AuditRecord("incident.observation_updated", j, t.window)}
           \cup {AuditRecord("incident.resolved", k, t.window) : k \in ResolvedRows({j})},
         u.opened = t.opened, u.updated = t.updated + 1,
         u.resolved = t.resolved + IF j.status = "resolved" THEN 1 ELSE 0
  PROVE  Kept(u)
<1>1. OpenedRows(u) = OpenedRows(t)
  BY DEF OpenedRows, SameReading
<1>2. \A o \in t.open : AdvanceIncident(o, t.evidence[o.cohort], t.window, t.now).cohort = o.cohort
  BY DEF AdvanceIncident
<1>3. j.cohort = i.cohort
  BY <1>2
<1>4. AdvancedRows(u) = AdvancedRows(t) \cup {j}
  BY DEF AdvancedRows, SameReading
<1>5. j \notin AdvancedRows(t)
  BY <1>2, <1>3 DEF AdvancedRows
<1>6. /\ IsFiniteSet(AdvancedRows(u))
      /\ Cardinality(AdvancedRows(u)) = Cardinality(AdvancedRows(t)) + 1
  <2>1. IsFiniteSet(AdvancedRows(t))
    BY DEF Kept
  <2>2. /\ IsFiniteSet(AdvancedRows(t) \cup {j})
        /\ Cardinality(AdvancedRows(t) \cup {j}) = Cardinality(AdvancedRows(t)) + 1
    BY <1>5, <2>1, FS_AddElement
  <2> QED BY <1>4, <2>2
<1>7. Cardinality(ResolvedRows(AdvancedRows(u)))
        = Cardinality(ResolvedRows(AdvancedRows(t))) + IF j.status = "resolved" THEN 1 ELSE 0
  <2>1. ResolvedRows(AdvancedRows(t)) \subseteq AdvancedRows(t)
    BY DEF ResolvedRows
  <2>2. IsFiniteSet(ResolvedRows(AdvancedRows(t)))
    BY <2>1, FS_Subset DEF Kept
  <2>3. Cardinality(ResolvedRows(AdvancedRows(t))) \in Nat
    BY <2>2, FS_CardinalityType
  <2>4. CASE j.status = "resolved"
    <3>1. ResolvedRows(AdvancedRows(u)) = ResolvedRows(AdvancedRows(t)) \cup {j}
      BY <1>4, <2>4 DEF ResolvedRows
    <3>2. j \notin ResolvedRows(AdvancedRows(t))
      BY <1>5, <2>1
    <3>3. Cardinality(ResolvedRows(AdvancedRows(t)) \cup {j})
            = Cardinality(ResolvedRows(AdvancedRows(t))) + 1
      BY <2>2, <3>2, FS_AddElement
    <3> QED BY <2>4, <3>1, <3>3
  <2>5. CASE j.status # "resolved"
    <3>1. ResolvedRows(AdvancedRows(u)) = ResolvedRows(AdvancedRows(t))
      BY <1>4, <2>5 DEF ResolvedRows
    <3> QED BY <2>3, <2>5, <3>1
  <2> QED BY <2>4, <2>5
<1>8. u.rows = AdvancedRows(u) \cup OpenedRows(u)
  BY <1>1, <1>4 DEF Kept
<1>9. u.obs = {Observation(k, u.window, u.evidence[k.cohort]) : k \in u.rows}
  BY <1>3 DEF Kept, SameReading
<1>10. Trail(u.audit) = TrailOf(AdvancedRows(u), OpenedRows(u), u.window)
  <2>1. TrailOf(AdvancedRows(t) \cup {j}, OpenedRows(t), t.window)
          = TrailOf(AdvancedRows(t), OpenedRows(t), t.window)
              \cup {AuditRecord("incident.observation_updated", j, t.window)}
              \cup {AuditRecord("incident.resolved", k, t.window) : k \in ResolvedRows({j})}
    BY TrailOfOneMore
  <2>2. Trail(t.audit) = TrailOf(AdvancedRows(t), OpenedRows(t), t.window) /\ u.window = t.window
    BY DEF Kept, SameReading
  <2> QED BY <1>1, <1>4, <2>1, <2>2
<1> QED BY <1>1, <1>4, <1>6, <1>7, <1>8, <1>9, <1>10 DEF Kept
-----------------------------------------------------------------------------
(* The invariant                                                           *)

\* The evidence of a transaction is of the kind the ledger takes.
Gathered(t) ==
  \E seen \in SUBSET Cohorts : \E found \in [seen -> Findings] :
    t.evidence = WithAbsent(found, {o.cohort : o \in t.open})

Timely ==
  /\ clock \in 0..MaxClock
  /\ \A p \in Scanners : tx[p].window \in 0..MaxClock /\ tx[p].now \in 0..MaxClock

Bookkept(p) ==
  IF pc[p] = "recording" THEN Kept(tx[p]) /\ Gathered(tx[p]) ELSE Blank(tx[p])

BookInv == LedgerInv /\ Timely /\ \A p \in Scanners : Bookkept(p)

LEMMA Division ==
  ASSUME NEW b \in Int, NEW n \in Nat \ {0}
  PROVE  /\ b \div n \in Int /\ b % n \in 0..(n - 1)
         /\ b = n * (b \div n) + (b % n)
  BY SMT

LEMMA WindowOfIsEarlier ==
  ASSUME NEW a \in Nat, WindowOf(a) >= 0
  PROVE  WindowOf(a) \in 0..a
<1> DEFINE b == a - DelayTicks
           q == b \div WindowTicks
<1>1. b \in Int /\ b <= a /\ WindowTicks \in Nat \ {0}
  BY TimeAssumption
<1>2. q \in Int /\ b % WindowTicks \in 0..(WindowTicks - 1)
  BY <1>1, Division
<1>3. b = WindowTicks * q + (b % WindowTicks)
  BY <1>1, Division
<1>4. WindowOf(a) = q - 1
  BY DEF WindowOf
<1>5. q >= 1
  BY <1>2, <1>4
<1> HIDE DEF q, b
<1>6. WindowTicks * q >= q
  BY <1>1, <1>2, <1>5
<1>7. q <= b
  <2> DEFINE m == WindowTicks * q
             r == b % WindowTicks
  <2>1. m \in Int /\ m >= q /\ r \in Nat /\ b = m + r
    BY <1>1, <1>2, <1>3, <1>6
  <2> HIDE DEF m, r
  <2> QED BY <1>1, <1>2, <2>1
<1> QED BY <1>1, <1>2, <1>4, <1>5, <1>7

LEMMA InitBookInv == Init => BookInv
<1> SUFFICES ASSUME Init PROVE BookInv
  OBVIOUS
<1>1. Timely
  BY TimeAssumption DEF Init, Timely, NoTx, NewTx
<1>2. \A p \in Scanners : Bookkept(p)
  BY DEF Init, Bookkept, Blank, NoTx, NewTx
<1> QED BY <1>1, <1>2, InitLedgerInv DEF BookInv

\* Two open incidents of one cohort are one.
LEMMA OneOpen ==
  ASSUME LedgerInv, NEW p \in Scanners, pc[p] \in {"reading", "recording"},
         NEW i \in tx[p].open, NEW j \in tx[p].open, i.cohort = j.cohort
  PROVE  i = j
<1>1. i \in incidents /\ j \in incidents /\ i.status = "open" /\ j.status = "open"
  BY DEF LedgerInv, SnapshotInv
<1> QED BY <1>1 DEF LedgerInv, IncidentsDisjoint

\* A scanner that writes its rows keeps book of them.
LEMMA OpenBook ==
  ASSUME BookInv, NEW p \in Scanners, OpenIncident(p)
  PROVE  Kept(tx'[p]) /\ SameReading(tx[p], tx'[p])
<1> DEFINE t == tx[p]
           d(c) == t.evidence[c]
           i(c) == CreateIncident(c, d(c), t.window, t.now)
           records(c) == <<AuditRecord("incident.opened", i(c), t.window)>>
           u(c) == CountOpened(Record(t, i(c), d(c), records(c)))
<1>1. PICK c \in t.todo :
        c \notin OpenCohorts(p) /\ d(c).outcome = "degraded" /\ tx' = [tx EXCEPT ![p] = u(c)]
  BY DEF OpenIncident
<1>2. t \in Transactions /\ TxInv(t) /\ tx \in [Scanners -> Transactions] /\ TypeInv
  BY DEF BookInv, LedgerInv, TypeInv, TypeOK, RowsInv
<1>3. c \in DOMAIN t.evidence /\ c \in Cohorts /\ d(c) \in Detections
  BY <1>1, <1>2, FindingType DEF TxInv
<1>4. i(c) \in IncidentRows
  BY <1>1, <1>2, <1>3, CreateType DEF Transactions
<1>5. i(c).cohort = c
  BY DEF CreateIncident
<1>6. AuditRecord("incident.opened", i(c), t.window) \in AuditRecords
  BY <1>2, <1>4, AuditType DEF Transactions
<1>7. tx'[p] = u(c)
  BY <1>1, <1>2
<1>8. /\ SameReading(t, u(c)) /\ u(c).todo = t.todo \ {c}
      /\ u(c).rows = t.rows \cup {i(c)}
      /\ u(c).obs = t.obs \cup {Observation(i(c), t.window, d(c))}
      /\ u(c).audit = t.audit \o records(c)
      /\ u(c).opened = t.opened + 1 /\ u(c).updated = t.updated /\ u(c).resolved = t.resolved
  <2> HIDE DEF i, d, t, records
  <2> QED BY <1>2, <1>5 DEF CountOpened, Record, Transactions, SameReading
<1>9. Trail(u(c).audit) = Trail(t.audit) \cup {AuditRecord("incident.opened", i(c), t.window)}
  <2>1. t.audit \in Seq(AuditRecords)
    BY <1>2 DEF Transactions
  <2> HIDE DEF i, u
  <2> QED BY <1>6, <1>8, <2>1, TrailGrows
<1>10. c \notin {o.cohort : o \in t.open}
  BY <1>1 DEF OpenCohorts
<1>11. Kept(t)
  BY DEF BookInv, Bookkept, OpenIncident
<1>12. Kept(u(c)) /\ SameReading(t, u(c))
  <2> DEFINE ii == i(c)
             uu == u(c)
  <2>1. /\ SameReading(t, uu) /\ uu.todo = t.todo \ {c}
        /\ uu.rows = t.rows \cup {ii}
        /\ uu.obs = t.obs \cup {Observation(ii, t.window, t.evidence[c])}
        /\ uu.opened = t.opened + 1 /\ uu.updated = t.updated /\ uu.resolved = t.resolved
    <3> HIDE DEF u, i, t
    <3> QED BY <1>8
  <2>2. Trail(uu.audit) = Trail(t.audit) \cup {AuditRecord("incident.opened", ii, t.window)}
    BY <1>9
  <2>3. ii = CreateIncident(c, t.evidence[c], t.window, t.now)
    OBVIOUS
  <2>4. c \in DOMAIN t.evidence /\ c \in t.todo /\ t.evidence[c].outcome = "degraded"
    BY <1>1, <1>3
  <2> HIDE DEF ii, uu, t
  <2>5. Kept(uu)
    BY <1>10, <1>11, <2>1, <2>2, <2>3, <2>4, OpenedKept
  <2> QED BY <2>1, <2>5 DEF uu
<1> HIDE DEF u, t
<1>13. Kept(tx'[p]) /\ SameReading(t, tx'[p])
  BY <1>7, <1>12
<1> QED BY <1>13 DEF t

LEMMA UpdateBook ==
  ASSUME BookInv, NEW p \in Scanners, UpdateIncident(p)
  PROVE  Kept(tx'[p]) /\ SameReading(tx[p], tx'[p])
<1> DEFINE t == tx[p]
           w == t.window
           d(i) == t.evidence[i.cohort]
           j(i) == Advanced(p, i)
           u(i) == CountUpdated(Record(t, j(i), d(i), UpdateAudit(j(i), w)), j(i))
<1>1. PICK i \in t.open :
        IsNextCohort(p, i.cohort) /\ UpdateAllowed(p, i) /\ tx' = [tx EXCEPT ![p] = u(i)]
  BY DEF UpdateIncident
<1>2. t \in Transactions /\ TxInv(t) /\ tx \in [Scanners -> Transactions] /\ TypeInv
  BY DEF BookInv, LedgerInv, TypeInv, TypeOK, RowsInv
<1>3. i.cohort \in t.todo /\ i.cohort \in DOMAIN t.evidence /\ d(i) \in Detections
  BY <1>1, <1>2, FindingType DEF TxInv, IsNextCohort
<1>4. w \in Windows /\ t.now \in Clocks /\ i \in IncidentRows /\ WellFormed(i)
  BY <1>2 DEF Transactions, TxInv
<1>5. j(i) \in IncidentRows /\ j(i).cohort = i.cohort /\ Chronological(j(i))
      /\ j(i) = AdvanceIncident(i, t.evidence[i.cohort], t.window, t.now)
  BY <1>1, <1>3, <1>4, AdvanceType DEF Advanced, UpdateAllowed, SameIncident
<1>6. tx'[p] = u(i)
  BY <1>1, <1>2
<1>7. LET n == IF j(i).status = "resolved" THEN 1 ELSE 0
      IN /\ SameReading(t, u(i)) /\ u(i).todo = t.todo \ {i.cohort}
         /\ u(i).rows = t.rows \cup {j(i)}
         /\ u(i).obs = t.obs \cup {Observation(j(i), w, d(i))}
         /\ u(i).audit = t.audit \o UpdateAudit(j(i), w)
         /\ u(i).opened = t.opened /\ u(i).updated = t.updated + 1
         /\ u(i).resolved = t.resolved + n
  <2> DEFINE n == IF j(i).status = "resolved" THEN 1 ELSE 0
             r == Record(t, j(i), d(i), UpdateAudit(j(i), w))
  <2>1. j(i).cohort = i.cohort
    BY <1>5
  <2>2. u(i) = [r EXCEPT !.updated = @ + 1, !.resolved = @ + n]
    BY DEF CountUpdated
  <2> HIDE DEF j, d, w, t, n, u
  <2>3. /\ SameReading(t, r) /\ r.todo = t.todo \ {i.cohort}
        /\ r.rows = t.rows \cup {j(i)}
        /\ r.obs = t.obs \cup {Observation(j(i), w, d(i))}
        /\ r.audit = t.audit \o UpdateAudit(j(i), w)
        /\ r.opened = t.opened /\ r.updated = t.updated /\ r.resolved = t.resolved
        /\ DOMAIN r = DOMAIN t
    BY <1>2, <2>1 DEF Record, Transactions, SameReading, w
  <2>4. DOMAIN t = {"window", "now", "open", "evidence", "todo", "rows", "obs", "audit", "opened",
                    "updated", "resolved"}
    BY <1>2 DEF Transactions
  <2> HIDE DEF r
  <2>5. /\ SameReading(t, u(i)) /\ u(i).todo = t.todo \ {i.cohort}
        /\ u(i).rows = t.rows \cup {j(i)}
        /\ u(i).obs = t.obs \cup {Observation(j(i), w, d(i))}
        /\ u(i).audit = t.audit \o UpdateAudit(j(i), w)
        /\ u(i).opened = t.opened /\ u(i).updated = t.updated + 1
        /\ u(i).resolved = t.resolved + n
    BY <2>2, <2>3, <2>4 DEF SameReading
  <2> QED BY <2>5 DEF n
<1>8. Trail(u(i).audit) = Trail(t.audit)
        \cup {AuditRecord("incident.observation_updated", j(i), w)}
        \cup {AuditRecord("incident.resolved", k, w) : k \in ResolvedRows({j(i)})}
  <2> DEFINE a == AuditRecord("incident.observation_updated", j(i), w)
             b == AuditRecord("incident.resolved", j(i), w)
  <2>1. t.audit \in Seq(AuditRecords) /\ a \in AuditRecords /\ b \in AuditRecords
    BY <1>2, <1>4, <1>5, AuditType DEF Transactions
  <2>2. u(i).audit = t.audit \o UpdateAudit(j(i), w)
    <3> HIDE DEF u, j, t, w
    <3> QED BY <1>7
  <2>3. UpdateAudit(j(i), w) = <<a>> \o IF j(i).status = "resolved" THEN <<b>> ELSE <<>>
    BY DEF UpdateAudit
  <2> HIDE DEF u, a, b, j, t, w
  <2>4. Trail(t.audit \o <<a>>) = Trail(t.audit) \cup {a} /\ t.audit \o <<a>> \in Seq(AuditRecords)
    BY <2>1, TrailGrows
  <2>5. CASE j(i).status = "resolved"
    <3>1. t.audit \o (<<a>> \o <<b>>) = (t.audit \o <<a>>) \o <<b>>
      BY <2>1
    <3>2. Trail((t.audit \o <<a>>) \o <<b>>) = Trail(t.audit \o <<a>>) \cup {b}
      BY <2>1, <2>4, TrailGrows
    <3>3. {AuditRecord("incident.resolved", k, w) : k \in ResolvedRows({j(i)})} = {b}
      BY <2>5 DEF ResolvedRows, b
    <3> QED BY <2>2, <2>3, <2>4, <2>5, <3>1, <3>2, <3>3 DEF a
  <2>6. CASE j(i).status # "resolved"
    <3>1. <<a>> \o <<>> = <<a>>
      OBVIOUS
    <3>2. {AuditRecord("incident.resolved", k, w) : k \in ResolvedRows({j(i)})} = {}
      BY <2>6 DEF ResolvedRows
    <3> QED BY <2>2, <2>3, <2>4, <2>6, <3>1, <3>2 DEF a
  <2> QED BY <2>5, <2>6
<1>9. /\ \A o \in t.open : o.cohort = i.cohort => o = i
      /\ \A o \in t.open : DOMAIN o = DOMAIN i /\ "cohort" \in DOMAIN o
  <2>1. pc[p] = "recording" /\ LedgerInv
    BY DEF UpdateIncident, BookInv
  <2>2. t.open \subseteq IncidentRows
    BY <1>2 DEF Transactions
  <2> QED BY <2>1, <2>2, OneOpen DEF IncidentRows, Incidents
<1>10. Kept(t)
  BY DEF BookInv, Bookkept, UpdateIncident
<1>11. Kept(u(i))
  <2> DEFINE jj == j(i)
             uu == u(i)
  <2>1. /\ SameReading(t, uu) /\ uu.todo = t.todo \ {i.cohort}
        /\ uu.rows = t.rows \cup {jj}
        /\ uu.obs = t.obs \cup {Observation(jj, t.window, t.evidence[i.cohort])}
        /\ uu.opened = t.opened /\ uu.updated = t.updated + 1
        /\ uu.resolved = t.resolved + IF jj.status = "resolved" THEN 1 ELSE 0
    <3> HIDE DEF u, j, t
    <3> QED BY <1>7
  <2>2. /\ jj = AdvanceIncident(i, t.evidence[i.cohort], t.window, t.now)
        /\ Chronological(jj)
    BY <1>5
  <2>3. Trail(uu.audit) = Trail(t.audit)
        \cup {AuditRecord("incident.observation_updated", jj, t.window)}
        \cup {AuditRecord("incident.resolved", k, t.window) : k \in ResolvedRows({jj})}
    BY <1>8
  <2>4. /\ i \in t.open /\ i.cohort \in t.todo /\ i.cohort \in DOMAIN t.evidence
        /\ \A o \in t.open : o.cohort = i.cohort => o = i
        /\ \A o \in t.open : DOMAIN o = DOMAIN i /\ "cohort" \in DOMAIN o
        /\ Kept(t)
    BY <1>1, <1>3, <1>9, <1>10
  <2> HIDE DEF jj, uu, t
  <2>5. Kept(uu)
    BY <2>1, <2>2, <2>3, <2>4, UpdatedKept
  <2> QED BY <2>5 DEF uu
<1>12. SameReading(t, u(i))
  <2> HIDE DEF u, j, t, w
  <2> QED BY <1>7
<1> HIDE DEF u, t
<1>13. Kept(tx'[p]) /\ SameReading(t, tx'[p])
  BY <1>6, <1>11, <1>12
<1> QED BY <1>13 DEF t

\* The evidence stays the one the transaction gathered.
LEMMA GatheredKept ==
  ASSUME NEW t, NEW u, SameReading(t, u), Gathered(t)
  PROVE  Gathered(u)
  BY DEF SameReading, Gathered

\* A scanner that has just gathered its evidence has written nothing.
LEMMA AggregateBook ==
  ASSUME BookInv, NEW p \in Scanners, AggregateEvidence(p)
  PROVE  /\ Kept(tx'[p]) /\ Gathered(tx'[p])
         /\ tx'[p].window = tx[p].window /\ tx'[p].now = tx[p].now
<1>1. PICK seen \in SUBSET Cohorts : \E found \in [seen -> Findings] :
        tx' = [tx EXCEPT ![p] = WithEvidence(tx[p], WithAbsent(found, OpenCohorts(p)))]
  BY DEF AggregateEvidence
<1>2. PICK found \in [seen -> Findings] :
        tx' = [tx EXCEPT ![p] = WithEvidence(tx[p], WithAbsent(found, OpenCohorts(p)))]
  BY <1>1
<1> DEFINE t == tx[p]
           e == WithAbsent(found, OpenCohorts(p))
           u == WithEvidence(t, e)
<1>3. t \in Transactions /\ tx'[p] = u
  BY <1>2 DEF BookInv, LedgerInv, TypeInv, TypeOK
<1>4. Blank(t)
  BY DEF BookInv, Bookkept, AggregateEvidence
<1>5. /\ u.window = t.window /\ u.now = t.now /\ u.open = t.open
      /\ u.evidence = e /\ u.todo = DOMAIN e
      /\ u.rows = t.rows /\ u.obs = t.obs /\ u.audit = t.audit
      /\ u.opened = t.opened /\ u.updated = t.updated /\ u.resolved = t.resolved
  <2> HIDE DEF e, t
  <2> QED BY <1>3 DEF WithEvidence, Transactions
<1>6. DOMAIN e = seen \cup {o.cohort : o \in t.open}
  BY DEF WithAbsent, OpenCohorts
<1>7. Gathered(u)
  BY <1>5 DEF Gathered, OpenCohorts
<1> HIDE DEF u, e, t
<1>8. Kept(u)
  BY <1>4, <1>5, <1>6, NothingKept DEF Blank
<1> QED BY <1>3, <1>5, <1>7, <1>8 DEF t

\* A scanner that passes over a cohort has nothing to note.
LEMMA PassBook ==
  ASSUME BookInv, NEW p \in Scanners, PassOver(p)
  PROVE  Kept(tx'[p]) /\ SameReading(tx[p], tx'[p])
<1>1. PICK c \in tx[p].todo :
        /\ c \notin OpenCohorts(p) /\ tx[p].evidence[c].outcome # "degraded"
        /\ tx' = [tx EXCEPT ![p].todo = @ \ {c}]
  BY DEF PassOver
<1> DEFINE t == tx[p]
           u == tx'[p]
<1>2. t \in Transactions /\ tx \in [Scanners -> Transactions]
  BY DEF BookInv, LedgerInv, TypeInv, TypeOK
<1>3. /\ SameReading(t, u) /\ u.todo = t.todo \ {c}
      /\ u.rows = t.rows /\ u.obs = t.obs /\ u.audit = t.audit
      /\ u.opened = t.opened /\ u.updated = t.updated /\ u.resolved = t.resolved
  BY <1>1, <1>2 DEF Transactions, SameReading
<1>4. Kept(t)
  BY DEF BookInv, Bookkept, PassOver
<1>5. c \notin {o.cohort : o \in t.open} /\ t.evidence[c].outcome # "degraded"
  BY <1>1 DEF OpenCohorts
<1> HIDE DEF t, u
<1>6. Kept(u)
  BY <1>3, <1>4, <1>5, PassedKept
<1> QED BY <1>3, <1>6 DEF t, u

\* A step of one process keeps the books if that process does.
LEMMA LocalBook ==
  ASSUME BookInv, LedgerInv', NEW p \in Scanners,
         clock' = clock,
         \A q \in Scanners \ {p} : pc'[q] = pc[q] /\ tx'[q] = tx[q],
         tx'[p].window \in 0..MaxClock, tx'[p].now \in 0..MaxClock,
         Bookkept(p)'
  PROVE  BookInv'
<1>1. Timely'
  BY DEF BookInv, Timely
<1>2. ASSUME NEW q \in Scanners \ {p} PROVE Bookkept(q)'
  BY <1>2 DEF BookInv, Bookkept
<1> QED BY <1>1, <1>2 DEF BookInv

LEMMA BeginBook ==
  ASSUME BookInv, LedgerInv', NEW p \in Scanners, Begin(p)
  PROVE  BookInv'
<1>1. PICK asOf \in 0..clock :
        WindowOf(asOf) >= 0 /\ tx' = [tx EXCEPT ![p] = NewTx(WindowOf(asOf), clock)]
  BY DEF Begin
<1>2. clock \in 0..MaxClock /\ MaxClock \in Nat
  BY TimeAssumption DEF BookInv, Timely
<1>3. WindowOf(asOf) \in 0..asOf
  BY <1>1, <1>2, WindowOfIsEarlier
<1>4. WindowOf(asOf) \in 0..MaxClock
  <2> DEFINE w == WindowOf(asOf)
  <2>1. w \in 0..asOf
    BY <1>3
  <2> HIDE DEF w
  <2>2. w \in 0..MaxClock
    BY <1>2, <2>1
  <2> QED BY <2>2 DEF w
<1>5. tx'[p] = NewTx(WindowOf(asOf), clock) /\ pc'[p] = "waiting"
  BY <1>1 DEF Begin, BookInv, LedgerInv, TypeInv, TypeOK
<1>6. /\ Blank(tx'[p]) /\ tx'[p].window = WindowOf(asOf) /\ tx'[p].now = clock
  BY <1>5 DEF NewTx, Blank
<1>7. Bookkept(p)'
  BY <1>5, <1>6 DEF Bookkept
<1>8. \A q \in Scanners \ {p} : pc'[q] = pc[q] /\ tx'[q] = tx[q]
  BY <1>1 DEF Begin, BookInv, LedgerInv, TypeInv, TypeOK
<1>9. clock' = clock
  BY DEF Begin
<1> QED BY <1>2, <1>4, <1>6, <1>7, <1>8, <1>9, LocalBook

\* A transaction that ends leaves nothing behind but its commit.
LEMMA EndBook ==
  ASSUME BookInv, LedgerInv', NEW p \in Scanners, NEW r, EndTransaction(p, r), clock' = clock
  PROVE  BookInv'
<1>1. tx \in [Scanners -> Transactions] /\ pc \in [Scanners -> InTransaction \cup {"idle", "waiting"}]
  BY DEF BookInv, LedgerInv, TypeInv, TypeOK
<1>2. /\ \A q \in Scanners \ {p} : pc'[q] = pc[q] /\ tx'[q] = tx[q]
      /\ pc'[p] = "idle" /\ tx'[p] = NewTx(0, 0)
  BY <1>1 DEF EndTransaction, NoTx
<1>3. Blank(tx'[p]) /\ tx'[p].window \in 0..MaxClock /\ tx'[p].now \in 0..MaxClock
  BY <1>2, TimeAssumption DEF Blank, NewTx
<1>4. Bookkept(p)'
  BY <1>2, <1>3 DEF Bookkept
<1> QED BY <1>2, <1>3, <1>4, LocalBook

\* A step of the loop that keeps its process's book and reading keeps them all.
LEMMA RecordBook ==
  ASSUME BookInv, LedgerInv', NEW p \in Scanners,
         pc[p] = "recording", pc' = pc, clock' = clock,
         \A q \in Scanners \ {p} : tx'[q] = tx[q],
         Kept(tx'[p]), SameReading(tx[p], tx'[p])
  PROVE  BookInv'
<1>1. Gathered(tx'[p])
  BY GatheredKept DEF BookInv, Bookkept
<1>2. tx'[p].window \in 0..MaxClock /\ tx'[p].now \in 0..MaxClock
  BY DEF BookInv, Timely, SameReading
<1>3. Bookkept(p)'
  BY <1>1 DEF Bookkept
<1> QED BY <1>2, <1>3, LocalBook

\* The steps before the loop that write nothing.
LEMMA EarlyBook ==
  ASSUME BookInv, LedgerInv', NEW p \in Scanners,
         LockMerchant(p) \/ FindNothing(p) \/ ClaimScan(p) \/ ReadOpenIncidents(p)
  PROVE  BookInv'
<1>1. tx \in [Scanners -> Transactions] /\ pc \in [Scanners -> InTransaction \cup {"idle", "waiting"}]
  BY DEF BookInv, LedgerInv, TypeInv, TypeOK
<1>2. pc[p] # "recording" /\ pc'[p] # "recording" /\ clock' = clock
  BY <1>1 DEF LockMerchant, FindNothing, ClaimScan, ReadOpenIncidents
<1>3. \A q \in Scanners \ {p} : pc'[q] = pc[q] /\ tx'[q] = tx[q]
  BY <1>1 DEF LockMerchant, FindNothing, ClaimScan, ReadOpenIncidents
<1>4. Blank(tx[p]) /\ tx[p].window \in 0..MaxClock /\ tx[p].now \in 0..MaxClock
  BY <1>2 DEF BookInv, Bookkept, Timely
<1>5. Blank(tx'[p]) /\ tx'[p].window = tx[p].window /\ tx'[p].now = tx[p].now
  <2>1. CASE tx' = tx
    BY <1>4, <2>1
  <2>2. CASE ReadOpenIncidents(p)
    BY <1>1, <1>4, <2>2 DEF ReadOpenIncidents, Transactions, Blank
  <2> QED BY <2>1, <2>2 DEF LockMerchant, FindNothing, ClaimScan
<1>6. Bookkept(p)'
  BY <1>2, <1>5 DEF Bookkept
<1> QED BY <1>2, <1>3, <1>4, <1>5, <1>6, LocalBook

LEMMA NextBookInv == BookInv /\ [Next]_vars => BookInv'
<1> SUFFICES ASSUME BookInv, [Next]_vars PROVE BookInv'
  OBVIOUS
<1>1. LedgerInv'
  BY NextLedgerInv DEF BookInv
<1>2. CASE Tick \/ UNCHANGED vars
  <2>1. UNCHANGED <<pc, tx>> /\ clock' \in 0..MaxClock
    BY <1>2, TimeAssumption DEF Tick, vars, BookInv, Timely
  <2> QED BY <1>1, <2>1 DEF BookInv, Timely, Bookkept
<1>3. ASSUME NEW p \in Scanners,
             Replay(p) \/ RejectStale(p) \/ RefuseWrite(p) \/ CommitScan(p) \/ Fail(p)
      PROVE  BookInv'
  <2>1. PICK r : EndTransaction(p, r)
    BY <1>3 DEF Replay, RejectStale, RefuseWrite, CommitScan, Fail, Rollback
  <2>2. clock' = clock
    BY <1>3 DEF Replay, RejectStale, RefuseWrite, CommitScan, Fail, Rollback
  <2> QED BY <1>1, <2>1, <2>2, EndBook
<1>4. ASSUME NEW p \in Scanners, PassOver(p) \/ OpenIncident(p) \/ UpdateIncident(p)
      PROVE  BookInv'
  <2>1. Kept(tx'[p]) /\ SameReading(tx[p], tx'[p])
    BY <1>4, PassBook, OpenBook, UpdateBook
  <2>2. pc[p] = "recording" /\ pc' = pc /\ clock' = clock
    BY <1>4 DEF PassOver, OpenIncident, UpdateIncident
  <2>3. \A q \in Scanners \ {p} : tx'[q] = tx[q]
    BY <1>4 DEF PassOver, OpenIncident, UpdateIncident, BookInv, LedgerInv, TypeInv, TypeOK
  <2> QED BY <1>1, <2>1, <2>2, <2>3, RecordBook
<1>5. ASSUME NEW p \in Scanners, AggregateEvidence(p) PROVE BookInv'
  <2>1. pc'[p] = "recording" /\ clock' = clock
    BY <1>5 DEF AggregateEvidence, BookInv, LedgerInv, TypeInv, TypeOK
  <2>2. \A q \in Scanners \ {p} : pc'[q] = pc[q] /\ tx'[q] = tx[q]
    BY <1>5 DEF AggregateEvidence, BookInv, LedgerInv, TypeInv, TypeOK
  <2>3. /\ Kept(tx'[p]) /\ Gathered(tx'[p])
        /\ tx'[p].window = tx[p].window /\ tx'[p].now = tx[p].now
    BY <1>5, AggregateBook
  <2>4. tx'[p].window \in 0..MaxClock /\ tx'[p].now \in 0..MaxClock
    BY <2>3 DEF BookInv, Timely
  <2>5. Bookkept(p)'
    BY <2>1, <2>3 DEF Bookkept
  <2> QED BY <1>1, <2>1, <2>2, <2>4, <2>5, LocalBook
<1> QED BY <1>1, <1>2, <1>3, <1>4, <1>5, BeginBook, EarlyBook DEF Next, Advance

-----------------------------------------------------------------------------
(* A commit is a step of the ledger                                        *)

LEMMA LedgerAdvances ==
  ASSUME NEW i, NEW d, NEW w, NEW now
  PROVE  Ledger!AdvanceIncident(i, d, w, now) = AdvanceIncident(i, d, w, now)
<1>1. Ledger!Streak(i, d, w) = Streak(i, d, w)
  BY DEF Ledger!Streak, Streak, Ledger!Adjacent, Adjacent
<1>2. Ledger!Peak(i, d) = Peak(i, d)
  BY DEF Ledger!Peak, Peak, Ledger!Rank, Rank, Ledger!NoSeverity, NoSeverity
<1> QED BY <1>1, <1>2
     DEF Ledger!AdvanceIncident, AdvanceIncident, Ledger!NotResolved, NotResolved

LEMMA LedgerWrites ==
  ASSUME NEW i, NEW d, NEW w, NEW now, NEW c, NEW type, NEW a, NEW b, NEW f, NEW g
  PROVE  /\ Ledger!CreateIncident(c, d, w, now) = CreateIncident(c, d, w, now)
         /\ Ledger!Chronological(i) <=> Chronological(i)
         /\ Ledger!Observation(i, w, d) = Observation(i, w, d)
         /\ Ledger!AuditRecord(type, i, w) = AuditRecord(type, i, w)
         /\ Ledger!Summary(w, now, a, b, f, g) = Summary(w, now, a, b, f, g)
BY DEF Ledger!CreateIncident, CreateIncident, Ledger!Chronological, Chronological,
       Ledger!Observation, Observation, Ledger!AuditRecord, AuditRecord,
       Ledger!Summary, Summary, Ledger!NotResolved, NotResolved

LEMMA LedgerAbsents ==
  ASSUME NEW found, NEW open
  PROVE  Ledger!WithAbsent(found, open) = WithAbsent(found, open)
BY DEF Ledger!WithAbsent, WithAbsent, Ledger!AbsentDetection, AbsentDetection,
       Ledger!NoSeverity, NoSeverity

LEMMA LedgerCounts ==
  ASSUME NEW S
  PROVE  Ledger!Cardinality(S) = Cardinality(S)
BY DEF Ledger!Cardinality, Cardinality

LEMMA TrailAppends ==
  ASSUME NEW a \in Seq(AuditRecords), NEW b \in Seq(AuditRecords)
  PROVE  Trail(a \o b) = Trail(a) \cup Trail(b)
<1> DEFINE c == a \o b
<1>1. /\ DOMAIN a = 1..Len(a) /\ DOMAIN b = 1..Len(b) /\ DOMAIN c = 1..(Len(a) + Len(b))
      /\ Len(a) \in Nat /\ Len(b) \in Nat
  OBVIOUS
<1>2. /\ \A k \in 1..Len(a) : c[k] = a[k]
      /\ \A k \in 1..Len(b) : c[Len(a) + k] = b[k]
  OBVIOUS
<1>3. \A k \in 1..(Len(a) + Len(b)) : k \in 1..Len(a) \/ \E m \in 1..Len(b) : k = Len(a) + m
  <2> SUFFICES ASSUME NEW k \in 1..(Len(a) + Len(b)), k \notin 1..Len(a)
               PROVE  k - Len(a) \in 1..Len(b) /\ k = Len(a) + (k - Len(a))
    OBVIOUS
  <2> DEFINE x == Len(a)
             y == Len(b)
  <2> HIDE DEF x, y
  <2>1. k - x \in 1..y /\ k = x + (k - x)
    BY <1>1 DEF x, y
  <2> QED BY <2>1 DEF x, y
<1>4. \A m \in 1..Len(b) : Len(a) + m \in 1..(Len(a) + Len(b))
  BY <1>1
<1>5. \A k \in 1..Len(a) : k \in 1..(Len(a) + Len(b))
  BY <1>1
<1> HIDE DEF c
<1>6. ASSUME NEW r \in Trail(c) PROVE r \in Trail(a) \cup Trail(b)
  <2>1. PICK k \in 1..(Len(a) + Len(b)) : r = c[k]
    BY <1>1 DEF Trail
  <2>2. CASE k \in 1..Len(a)
    BY <1>1, <1>2, <2>1, <2>2 DEF Trail
  <2>3. CASE \E m \in 1..Len(b) : k = Len(a) + m
    BY <1>1, <1>2, <2>1, <2>3 DEF Trail
  <2> QED BY <1>3, <2>2, <2>3
<1>7. ASSUME NEW r \in Trail(a) PROVE r \in Trail(c)
  BY <1>1, <1>2, <1>5 DEF Trail
<1>8. ASSUME NEW r \in Trail(b) PROVE r \in Trail(c)
  BY <1>1, <1>2, <1>4 DEF Trail
<1>9. Trail(c) = Trail(a) \cup Trail(b)
  BY <1>6, <1>7, <1>8
<1> QED BY <1>9 DEF c

\* The rows the loop has written are those of the ledger's step.
LEMMA RowsOfStep ==
  ASSUME NEW t, t.todo = {}, t.open = Ledger!Open
  PROVE  /\ AdvancedRows(t) = Ledger!Advanced(t.evidence, t.window, t.now)
         /\ OpenedRows(t) = Ledger!Opened(t.evidence, t.window, t.now)
<1>1. AdvancedRows(t) = Ledger!Advanced(t.evidence, t.window, t.now)
  BY LedgerAdvances DEF AdvancedRows, Ledger!Advanced
<1>2. OpenedRows(t) = Ledger!Opened(t.evidence, t.window, t.now)
  BY LedgerWrites DEF OpenedRows, Ledger!Opened, Ledger!OpenCohorts
<1> QED BY <1>1, <1>2

\* A commit replaces the open incidents by their successors, and no others.
LEMMA WrittenIsStep ==
  ASSUME BookInv, NEW p \in Scanners, CommitScan(p)
  PROVE  Written(p) = (incidents \ tx[p].open) \cup AdvancedRows(tx[p]) \cup OpenedRows(tx[p])
<1> DEFINE t == tx[p]
<1>1. /\ pc[p] = "recording" /\ t.todo = {} /\ LedgerInv
      /\ t.open = {i \in incidents : i.status = "open"} /\ t \in Transactions
      /\ t.rows = AdvancedRows(t) \cup OpenedRows(t)
  BY DEF CommitScan, BookInv, Bookkept, Kept, LedgerInv, SnapshotInv, TypeInv, TypeOK
<1>2. \A i \in t.open : \E j \in t.rows : SameIncident(i, j)
  <2> SUFFICES ASSUME NEW i \in t.open PROVE \E j \in t.rows : SameIncident(i, j)
    OBVIOUS
  <2> DEFINE j == AdvanceIncident(i, t.evidence[i.cohort], t.window, t.now)
  <2>1. j \in t.rows
    BY <1>1 DEF AdvancedRows
  <2>2. SameIncident(i, j)
    BY <1>1 DEF AdvanceIncident, SameIncident, Transactions, IncidentRows, Incidents
  <2> QED BY <2>1, <2>2
<1>3. \A i \in incidents \ t.open : \A j \in t.rows : ~SameIncident(i, j)
  <2> SUFFICES ASSUME NEW i \in incidents, i \notin t.open, NEW j \in t.rows, SameIncident(i, j)
               PROVE  FALSE
    OBVIOUS
  <2>1. /\ i \in IncidentRows /\ WellFormed(i) /\ i.opening <= i.last
        /\ i.opening \in Int /\ i.last \in Int /\ t.window \in Int
    BY <1>1 DEF LedgerInv, TypeInv, TypeOK, RowsInv, WellFormed, IncidentRows, Incidents,
       Transactions, Windows
  <2>2. i.last < t.window
    BY <1>1 DEF LedgerInv, LastInv, ClaimInv
  <2>3. CASE \E o \in t.open : SameIncident(o, j)
    <3>1. PICK o \in t.open : SameIncident(o, j)
      BY <2>3
    <3>2. /\ o \in incidents /\ o.status = "open" /\ o # i
          /\ o.cohort = i.cohort /\ o.opening = i.opening
      BY <1>1, <3>1 DEF SameIncident
    <3>3. i.last < o.opening
      BY <1>1, <3>2 DEF LedgerInv, IncidentsDisjoint
    <3> QED BY <2>1, <3>2, <3>3
  <2>4. CASE j.opening = t.window
    BY <2>1, <2>2, <2>4 DEF SameIncident
  <2> QED BY <1>1, <2>3, <2>4 DEF LedgerInv, ProgressInv
<1>4. t.open \subseteq incidents
  BY <1>1
<1> HIDE DEF t
<1>5. {i \in incidents : \A j \in t.rows : ~SameIncident(i, j)} = incidents \ t.open
  BY <1>2, <1>3
<1> QED BY <1>1, <1>5 DEF Written, t

LEMMA CommitIsScan ==
  ASSUME BookInv, NEW p \in Scanners, CommitScan(p)
  PROVE  Ledger!ScanWindow(tx[p].window, tx[p].now, tx[p].evidence)
<1> DEFINE t == tx[p]
           A == AdvancedRows(t)
           O == OpenedRows(t)
<1>1. /\ pc[p] = "recording" /\ t.todo = {} /\ LedgerInv
      /\ t.open = Ledger!Open /\ t \in Transactions /\ Kept(t)
  BY DEF CommitScan, BookInv, Bookkept, LedgerInv, SnapshotInv, TypeInv, TypeOK, Ledger!Open
<1>2. /\ A = Ledger!Advanced(t.evidence, t.window, t.now)
      /\ O = Ledger!Opened(t.evidence, t.window, t.now)
  BY <1>1, RowsOfStep
<1>3. /\ Ledger!Resolved(A) = ResolvedRows(A)
  BY DEF Ledger!Resolved, ResolvedRows
<1>4. \A s \in scans : s.window < t.window
  BY <1>1 DEF LedgerInv, ClaimInv
<1>5. \A i \in A : Ledger!Chronological(i)
  BY <1>1, LedgerWrites DEF Kept
<1>6. scans' = scans \cup
        {Ledger!Summary(t.window, t.now, Ledger!Cardinality(DOMAIN t.evidence),
                        Ledger!Cardinality(O), Ledger!Cardinality(A),
                        Ledger!Cardinality(Ledger!Resolved(A)))}
  <2>1. scans' = scans \cup {FinalSummary(p)}
    BY DEF CommitScan
  <2>2. /\ t.opened = Cardinality(O) /\ t.updated = Cardinality(A)
        /\ t.resolved = Cardinality(ResolvedRows(A))
    BY <1>1 DEF Kept
  <2>3. FinalSummary(p) = Summary(t.window, t.now, Cardinality(DOMAIN t.evidence), t.opened,
                                  t.updated, t.resolved)
    BY DEF FinalSummary
  <2> HIDE DEF t, A, O
  <2> QED BY <1>3, <2>1, <2>2, <2>3, LedgerWrites, LedgerCounts
<1>7. incidents' = (incidents \ Ledger!Open) \cup A \cup O
  BY <1>1, WrittenIsStep DEF CommitScan
<1>8. observations' = observations \cup
        {Ledger!Observation(i, t.window, t.evidence[i.cohort]) : i \in A \cup O}
  <2>1. observations' = observations \cup t.obs
    BY DEF CommitScan
  <2>2. t.obs = {Observation(i, t.window, t.evidence[i.cohort]) : i \in A \cup O}
    BY <1>1 DEF Kept
  <2> HIDE DEF A, O, t
  <2> QED BY <2>1, <2>2, LedgerWrites
<1>9. Trail(audit') = Trail(audit)
        \cup Ledger!Records("incident.opened", O, t.window)
        \cup Ledger!Records("incident.observation_updated", A, t.window)
        \cup Ledger!Records("incident.resolved", Ledger!Resolved(A), t.window)
  <2>1. audit' = audit \o t.audit
    BY DEF CommitScan
  <2>2. audit \in Seq(AuditRecords) /\ t.audit \in Seq(AuditRecords)
    BY <1>1 DEF LedgerInv, TypeInv, TypeOK, Transactions
  <2>3. Trail(audit') = Trail(audit) \cup Trail(t.audit)
    BY <2>1, <2>2, TrailAppends
  <2>4. Trail(t.audit) = TrailOf(A, O, t.window)
    BY <1>1 DEF Kept
  <2>5. \A type, I : Ledger!Records(type, I, t.window) = {AuditRecord(type, i, t.window) : i \in I}
    BY LedgerWrites DEF Ledger!Records
  <2> HIDE DEF A, O, t
  <2> QED BY <1>3, <2>3, <2>4, <2>5 DEF TrailOf
<1>10. Trail(audit) = {audit[k] : k \in DOMAIN audit}
       /\ Trail(audit') = {audit'[k] : k \in DOMAIN audit'}
  BY DEF Trail
<1> HIDE DEF A, O, t
<1>11. Ledger!ScanWindow(t.window, t.now, t.evidence)
  BY <1>2, <1>4, <1>5, <1>6, <1>7, <1>8, <1>9, <1>10 DEF Ledger!ScanWindow
<1> QED BY <1>11 DEF t

LEMMA CommitIsStep ==
  ASSUME BookInv, NEW p \in Scanners, CommitScan(p)
  PROVE  Ledger!LedgerNext
<1> DEFINE t == tx[p]
<1>1. pc[p] = "recording" /\ LedgerInv /\ t.open = Ledger!Open /\ Gathered(t)
  BY DEF CommitScan, BookInv, Bookkept, LedgerInv, SnapshotInv, Ledger!Open
<1>2. Ledger!ScanWindow(t.window, t.now, t.evidence)
  BY CommitIsScan
<1>3. t.window \in 0..MaxClock /\ t.now \in 0..MaxClock
  BY DEF BookInv, Timely
<1>4. scans' # scans
  <2>1. FinalSummary(p) \in scans' /\ FinalSummary(p).window = t.window
    BY DEF CommitScan, FinalSummary, Summary
  <2>2. \A s \in scans : s.window < t.window
    BY <1>1 DEF LedgerInv, ClaimInv
  <2>3. t.window \in Int
    BY <1>3
  <2> QED BY <2>1, <2>2, <2>3
<1>5. PICK seen \in SUBSET Cohorts : \E found \in [seen -> Findings] :
        t.evidence = WithAbsent(found, {o.cohort : o \in t.open})
  BY <1>1 DEF Gathered
<1>6. PICK found \in [seen -> Findings] :
        t.evidence = WithAbsent(found, {o.cohort : o \in t.open})
  BY <1>5
<1>7. t.evidence = Ledger!WithAbsent(found, Ledger!OpenCohorts)
  BY <1>1, <1>6, LedgerAbsents DEF Ledger!OpenCohorts
<1> DEFINE w == t.window
           now == t.now
           e == Ledger!WithAbsent(found, Ledger!OpenCohorts)
<1>8. Ledger!ScanWindow(w, now, e)
  BY <1>2, <1>7 DEF Ledger!ScanWindow
<1>9. w \in 0..MaxClock /\ now \in 0..MaxClock
  BY <1>3
<1> HIDE DEF w, now
<1> QED BY <1>4, <1>8, <1>9 DEF Ledger!LedgerNext, Ledger!ScanWindow

\* Only a commit changes the tables.
LEMMA OnlyCommits ==
  ASSUME [Next]_vars, \A p \in Scanners : ~CommitScan(p)
  PROVE  UNCHANGED db
BY DEF Next, Advance, vars, db, Tick, Begin, LockMerchant, Replay, FindNothing, RejectStale,
   ClaimScan, ReadOpenIncidents, AggregateEvidence, PassOver, OpenIncident, UpdateIncident,
   RefuseWrite, Fail, Rollback

\* However many scanners wait for each other, replay, fail and repeat, what is
\* committed is what one scanner that takes each window in a single step would
\* have committed: every row, observation, audit record and count
\* (scan_merchant, under the merchant's lock).
THEOREM ScannersImplementLedger == Spec => ImplementsLedger
<1>1. Init => Ledger!LedgerInit
  BY DEF Init, Ledger!LedgerInit
<1>2. BookInv /\ [Next]_vars => [Ledger!LedgerNext]_(Ledger!ledger)
  <2> SUFFICES ASSUME BookInv, [Next]_vars
               PROVE  Ledger!LedgerNext \/ UNCHANGED Ledger!ledger
    OBVIOUS
  <2>1. CASE \E p \in Scanners : CommitScan(p)
    BY <2>1, CommitIsStep
  <2>2. CASE \A p \in Scanners : ~CommitScan(p)
    <3>1. UNCHANGED db
      BY <2>2, OnlyCommits
    <3> QED BY <3>1 DEF db, Ledger!ledger
  <2> QED BY <2>1, <2>2
<1> QED BY <1>1, <1>2, InitBookInv, NextBookInv, PTL DEF Spec, ImplementsLedger, Ledger!LedgerSpec

-----------------------------------------------------------------------------
(* Every row against its observations                                      *)

\* ObservationsComplete and RowMatchesEvidence, of one row, the observations
\* it has and the scans there are.
Complete(i, obs, S) ==
  /\ {o.window : o \in obs}
       = {s.window : s \in {t \in S :
           i.opening <= t.window /\ (i.status = "resolved" => t.window <= i.last)}}
  /\ \A o, q \in obs : o.window = q.window => o = q

HealthyAt(obs, w) == \E o \in obs : o.window = w /\ o.outcome = "healthy"

Matches(i, obs) ==
  /\ \E o \in obs : o.window = i.opening /\ o.severity = i.openingSeverity
  /\ \A o \in obs : o.window <= i.last
  /\ \E o \in obs : o.window = i.last /\ o.outcome = i.outcome
  /\ \E o \in obs : o.severity = i.peak
  /\ \A o \in obs : o.severity # NoSeverity => Rank[o.severity] <= Rank[i.peak]
  /\ (i.status = "resolved") <=> (HealthyAt(obs, i.last) /\ HealthyAt(obs, i.last - 1))
  /\ (i.streak > 0) <=> HealthyAt(obs, i.last)

Stamped(i, S) ==
  /\ \E s \in S : s.window = i.opening /\ s.recordedAt = i.openedAt
  /\ i.status = "resolved" => \E s \in S : s.window = i.last /\ s.recordedAt = i.resolvedAt

\* Every observation is of a committed scan that did not precede the opening.
ObservedInv ==
  \A o \in observations : o.opening <= o.window /\ \E s \in scans : s.window = o.window

HistoryInv == BookInv /\ ObservedInv /\ ObservationsComplete /\ RowMatchesEvidence

LEMMA AdvancedFields ==
  ASSUME NEW i \in IncidentRows, NEW d, NEW w, NEW now, NEW j, j = AdvanceIncident(i, d, w, now)
  PROVE  /\ j.cohort = i.cohort /\ j.opening = i.opening /\ j.last = w
         /\ j.outcome = d.outcome /\ j.peak = Peak(i, d) /\ j.streak = Streak(i, d, w)
         /\ j.status = IF Streak(i, d, w) = 2 THEN "resolved" ELSE "open"
         /\ j.openedAt = i.openedAt /\ j.openingSeverity = i.openingSeverity
         /\ j.resolvedAt = IF Streak(i, d, w) = 2 THEN now ELSE NotResolved
BY DEF AdvanceIncident, IncidentRows, Incidents

\* The row a further window makes of an open one is what its observations say.
LEMMA AdvancedMatches ==
  ASSUME NEW i \in IncidentRows, WellFormed(i), i.status = "open",
         NEW obs \in SUBSET Observations, Matches(i, obs),
         NEW d \in Detections, NEW w \in Windows, i.last < w, NEW now \in Clocks,
         NEW j, j = AdvanceIncident(i, d, w, now)
  PROVE  Matches(j, obs \cup {Observation(j, w, d)})
<1> DEFINE n == Observation(j, w, d)
           all == obs \cup {n}
<1>1. /\ j.cohort = i.cohort /\ j.opening = i.opening /\ j.last = w
      /\ j.outcome = d.outcome /\ j.peak = Peak(i, d) /\ j.streak = Streak(i, d, w)
      /\ j.status = IF Streak(i, d, w) = 2 THEN "resolved" ELSE "open"
      /\ j.openingSeverity = i.openingSeverity
  BY AdvancedFields
<1>2. n.window = w /\ n.outcome = d.outcome /\ n.severity = d.severity
  BY DEF Observation
<1>3. /\ i.last \in Nat /\ w \in Nat /\ i.streak \in 0..2 /\ i.peak \in Severities
      /\ \A o \in obs : o.window \in Nat /\ o.severity \in Severities \cup {NoSeverity}
      /\ (i.streak > 0 <=> i.outcome = "healthy") /\ i.streak # 2
  BY DEF IncidentRows, Incidents, Windows, Observations, WellFormed
<1>4. d.severity \in Severities \cup {NoSeverity}
  BY DEF Detections
<1>5. \A o \in obs : o.window <= i.last /\ o.window < w
  BY <1>3 DEF Matches
<1> HIDE DEF n
<1>6. \A o \in all : o.window <= j.last
  BY <1>1, <1>2, <1>3, <1>5
<1>7. \E o \in all : o.window = j.last /\ o.outcome = j.outcome
  BY <1>1, <1>2
<1>8. \E o \in all : o.severity = j.peak
  BY <1>1, <1>2 DEF Matches, Peak
<1>9. \A o \in all : o.severity # NoSeverity => Rank[o.severity] <= Rank[j.peak]
  <2>1. Rank[i.peak] \in Int /\ (d.severity # NoSeverity => Rank[d.severity] \in Int)
    BY <1>3, <1>4 DEF Rank, Severities
  <2>2. Rank[i.peak] <= Rank[j.peak] /\ (d.severity # NoSeverity => Rank[d.severity] <= Rank[j.peak])
    BY <1>1, <2>1 DEF Peak
  <2>3. \A o \in obs : o.severity # NoSeverity => Rank[o.severity] \in Int
    BY <1>3 DEF Rank, Severities
  <2>4. Rank[j.peak] \in Int
    BY <1>1, <2>1 DEF Peak
  <2> HIDE DEF Matches
  <2>5. \A o \in obs : o.severity # NoSeverity => Rank[o.severity] <= Rank[i.peak]
    BY DEF Matches
  <2>6. \A o \in obs : o.severity # NoSeverity => Rank[o.severity] <= Rank[j.peak]
    BY <2>1, <2>2, <2>3, <2>4, <2>5
  <2> QED BY <1>2, <2>2, <2>6
<1>10. HealthyAt(all, w) <=> d.outcome = "healthy"
  BY <1>2, <1>3, <1>5 DEF HealthyAt
<1>11. HealthyAt(all, w - 1) <=> i.outcome = "healthy" /\ i.last + 1 = w
  <2>1. HealthyAt(all, w - 1) <=> HealthyAt(obs, w - 1)
    BY <1>2, <1>3 DEF HealthyAt
  <2>2. HealthyAt(obs, i.last) <=> i.outcome = "healthy"
    BY <1>3 DEF Matches
  <2>3. HealthyAt(obs, w - 1) => i.last = w - 1
    BY <1>3, <1>5 DEF HealthyAt
  <2>4. i.last + 1 = w <=> i.last = w - 1
    BY <1>3
  <2> QED BY <2>1, <2>2, <2>3, <2>4
<1>12. /\ Streak(i, d, w) > 0 <=> d.outcome = "healthy"
       /\ Streak(i, d, w) = 2 <=> d.outcome = "healthy" /\ i.outcome = "healthy" /\ i.last + 1 = w
  BY <1>3 DEF Streak, Adjacent
<1>13. \E o \in all : o.window = j.opening /\ o.severity = j.openingSeverity
  BY <1>1 DEF Matches
<1> HIDE DEF all
<1>14. Matches(j, all)
  BY <1>1, <1>6, <1>7, <1>8, <1>9, <1>10, <1>11, <1>12, <1>13 DEF Matches
<1> QED BY <1>14 DEF all, n

LEMMA CreatedMatches ==
  ASSUME NEW c, NEW d \in Detections, d.outcome = "degraded", NEW w \in Windows, NEW now,
         NEW j, j = CreateIncident(c, d, w, now)
  PROVE  Matches(j, {Observation(j, w, d)})
<1>1. d.severity \in Severities /\ Rank[d.severity] \in Int
  BY DEF Detections, Severities, Rank
<1>2. /\ j.last = w /\ j.outcome = "degraded" /\ j.peak = d.severity /\ j.streak = 0
      /\ j.status = "open" /\ j.opening = w /\ j.openingSeverity = d.severity
  BY DEF CreateIncident
<1>3. LET n == Observation(j, w, d)
      IN  n.window = w /\ n.outcome = "degraded" /\ n.severity = d.severity
  BY DEF Observation
<1>4. w \in Nat
  BY DEF Windows
<1> QED BY <1>1, <1>2, <1>3, <1>4 DEF Matches, HealthyAt

\* The times of a row are those of the scans that opened and resolved it.
LEMMA AdvancedStamped ==
  ASSUME NEW i \in IncidentRows, NEW S, Stamped(i, S), NEW d, NEW w, NEW now,
         NEW s0, s0.window = w, s0.recordedAt = now,
         NEW j, j = AdvanceIncident(i, d, w, now)
  PROVE  Stamped(j, S \cup {s0})
<1>1. /\ j.opening = i.opening /\ j.last = w /\ j.openedAt = i.openedAt
      /\ j.status = "resolved" => j.resolvedAt = now
  BY AdvancedFields
<1> QED BY <1>1 DEF Stamped

LEMMA CreatedStamped ==
  ASSUME NEW S, NEW c, NEW d, NEW w, NEW now, NEW s0, s0.window = w, s0.recordedAt = now,
         NEW j, j = CreateIncident(c, d, w, now)
  PROVE  Stamped(j, S \cup {s0})
<1>1. j.opening = w /\ j.openedAt = now /\ j.status = "open"
  BY DEF CreateIncident
<1> QED BY <1>1 DEF Stamped

\* A further window adds one observation and one scan to an open row.
LEMMA AdvancedComplete ==
  ASSUME NEW i \in IncidentRows, WellFormed(i), i.status = "open",
         NEW obs \in SUBSET Observations, NEW S \in SUBSET Summaries, Complete(i, obs, S),
         NEW d, NEW w \in Windows, i.last < w, NEW now,
         \A s \in S : s.window < w,
         NEW s0, s0.window = w,
         NEW j, j = AdvanceIncident(i, d, w, now)
  PROVE  Complete(j, obs \cup {Observation(j, w, d)}, S \cup {s0})
<1> DEFINE n == Observation(j, w, d)
<1>1. j.opening = i.opening /\ j.last = w
  BY AdvancedFields
<1>2. n.window = w
  BY DEF Observation
<1>3. /\ i.opening \in Nat /\ i.last \in Nat /\ w \in Nat /\ i.opening <= i.last
      /\ \A s \in S : s.window \in Nat
      /\ \A o \in obs : o.window \in Nat
  BY DEF IncidentRows, Incidents, Windows, Observations, WellFormed, Summaries
<1> HIDE DEF n
<1>4. {o.window : o \in obs} = {s.window : s \in {t \in S : i.opening <= t.window}}
  BY DEF Complete
<1>5. {o.window : o \in obs \cup {n}} = {o.window : o \in obs} \cup {w}
  BY <1>2
<1>6. {s.window : s \in {t \in S \cup {s0} : j.opening <= t.window
                            /\ (j.status = "resolved" => t.window <= j.last)}}
        = {s.window : s \in {t \in S : i.opening <= t.window}} \cup {w}
  <2>1. {t \in S \cup {s0} : j.opening <= t.window /\ (j.status = "resolved" => t.window <= j.last)}
          = {t \in S : i.opening <= t.window} \cup {s0}
    BY <1>1, <1>3
  <2> QED BY <2>1
<1>7. \A o \in obs : o.window < w
  BY <1>4
<1>8. \A o, q \in obs \cup {n} : o.window = q.window => o = q
  BY <1>2, <1>3, <1>7 DEF Complete
<1> QED BY <1>4, <1>5, <1>6, <1>8 DEF Complete, n

LEMMA CreatedComplete ==
  ASSUME NEW c, NEW d, NEW S \in SUBSET Summaries, NEW w \in Windows, NEW now,
         \A s \in S : s.window < w,
         NEW s0, s0.window = w,
         NEW j, j = CreateIncident(c, d, w, now)
  PROVE  Complete(j, {Observation(j, w, d)}, S \cup {s0})
<1>1. j.opening = w /\ j.status = "open"
  BY DEF CreateIncident
<1>2. \A o \in {Observation(j, w, d)} : o.window = w
  BY DEF Observation
<1>3. w \in Nat /\ \A s \in S : s.window \in Nat
  BY DEF Windows, Summaries
<1>4. {t \in S \cup {s0} : j.opening <= t.window /\ (j.status = "resolved" => t.window <= j.last)}
        = {s0}
  BY <1>1, <1>3
<1> QED BY <1>2, <1>4 DEF Complete

\* A row a scan does not touch is a resolved one, and stays complete.
LEMMA UntouchedComplete ==
  ASSUME NEW i \in IncidentRows, i.status = "resolved",
         NEW obs, NEW S, Complete(i, obs, S),
         NEW w \in Windows, i.last < w, NEW s0, s0.window = w
  PROVE  Complete(i, obs, S \cup {s0})
<1>1. i.last \in Nat /\ w \in Nat
  BY DEF IncidentRows, Incidents, Windows
<1>2. {t \in S \cup {s0} : i.opening <= t.window /\ (i.status = "resolved" => t.window <= i.last)}
        = {t \in S : i.opening <= t.window /\ (i.status = "resolved" => t.window <= i.last)}
  BY <1>1
<1> QED BY <1>2 DEF Complete

\* What a commit's rows are, and whose.
LEMMA CommitRows ==
  ASSUME BookInv, NEW p \in Scanners, CommitScan(p), NEW j \in tx[p].rows
  PROVE  LET t == tx[p]
             d == t.evidence[j.cohort]
         IN  /\ d \in Detections /\ t.window \in Windows /\ t.now \in Clocks
             /\ \/ \E i \in incidents :
                     /\ i.status = "open" /\ i \in IncidentRows /\ WellFormed(i)
                     /\ i.last < t.window /\ SameIncident(i, j)
                     /\ j = AdvanceIncident(i, d, t.window, t.now)
                \/ d.outcome = "degraded" /\ j = CreateIncident(j.cohort, d, t.window, t.now)
<1> DEFINE t == tx[p]
<1>1. /\ pc[p] = "recording" /\ LedgerInv /\ TypeInv /\ Gathered(t) /\ t \in Transactions
      /\ t.open = {i \in incidents : i.status = "open"}
      /\ t.rows = AdvancedRows(t) \cup OpenedRows(t)
  BY DEF CommitScan, BookInv, Bookkept, Kept, LedgerInv, SnapshotInv, TypeInv, TypeOK
<1>2. \A c \in DOMAIN t.evidence : t.evidence[c] \in Detections
  BY <1>1, FindingType
<1>3. {o.cohort : o \in t.open} \subseteq DOMAIN t.evidence
  BY <1>1 DEF Gathered, WithAbsent
<1>4. t.window \in Windows /\ t.now \in Clocks
  BY <1>1 DEF Transactions
<1>5. CASE j \in OpenedRows(t)
  <2>1. PICK c \in DOMAIN t.evidence :
          t.evidence[c].outcome = "degraded" /\ j = CreateIncident(c, t.evidence[c], t.window, t.now)
    BY <1>5 DEF OpenedRows
  <2>2. j.cohort = c
    BY <2>1 DEF CreateIncident
  <2> QED BY <1>2, <1>4, <2>1, <2>2
<1>6. CASE j \in AdvancedRows(t)
  <2>1. PICK i \in t.open : j = AdvanceIncident(i, t.evidence[i.cohort], t.window, t.now)
    BY <1>6 DEF AdvancedRows
  <2>2. i \in incidents /\ i.status = "open" /\ i \in IncidentRows /\ WellFormed(i)
    BY <1>1 DEF TypeInv, TypeOK, RowsInv
  <2>3. j.cohort = i.cohort /\ j.opening = i.opening
    BY <2>1, <2>2, AdvancedFields
  <2>4. i.last < t.window
    BY <1>1, <2>2 DEF LedgerInv, LastInv, ClaimInv
  <2>5. t.evidence[j.cohort] \in Detections
    BY <1>2, <1>3, <2>3
  <2> QED BY <1>4, <2>1, <2>2, <2>3, <2>4, <2>5 DEF SameIncident
<1> QED BY <1>1, <1>5, <1>6

\* A row that was written has one new observation, another has none.
LEMMA CommitObservations ==
  ASSUME HistoryInv, NEW p \in Scanners, CommitScan(p)
  PROVE  /\ \A j \in tx[p].rows :
              ObservationsOf(j)' = ObservationsOf(j)
                \cup {Observation(j, tx[p].window, tx[p].evidence[j.cohort])}
         /\ \A i \in incidents : (\A j \in tx[p].rows : ~SameIncident(i, j)) =>
              ObservationsOf(i)' = ObservationsOf(i)
         /\ \A j \in tx[p].rows : j.opening = tx[p].window => ObservationsOf(j) = {}
<1> DEFINE t == tx[p]
           n(j) == Observation(j, t.window, t.evidence[j.cohort])
<1>1. /\ pc[p] = "recording" /\ LedgerInv
      /\ observations' = observations \cup {n(j) : j \in t.rows}
      /\ \A j, k \in t.rows : j.cohort = k.cohort => j = k
  BY DEF CommitScan, HistoryInv, BookInv, Bookkept, Kept, LedgerInv, ProgressInv
<1>2. \A j, k : SameIncident(n(j), k) <=> SameIncident(j, k)
  BY DEF Observation, SameIncident
<1>3. ASSUME NEW j \in t.rows PROVE {k \in t.rows : SameIncident(k, j)} = {j}
  BY <1>1 DEF SameIncident
<1> HIDE DEF n
<1>4. ASSUME NEW i
      PROVE  ObservationsOf(i)' = ObservationsOf(i) \cup {n(j) : j \in {k \in t.rows : SameIncident(k, i)}}
  BY <1>1, <1>2 DEF ObservationsOf
<1>5. ASSUME NEW j \in t.rows PROVE ObservationsOf(j)' = ObservationsOf(j) \cup {n(j)}
  BY <1>3, <1>4
<1>6. ASSUME NEW i, \A j \in t.rows : ~SameIncident(i, j)
      PROVE  ObservationsOf(i)' = ObservationsOf(i)
  BY <1>4, <1>6 DEF SameIncident
<1>7. ASSUME NEW j \in t.rows, j.opening = t.window PROVE ObservationsOf(j) = {}
  <2>1. \A s \in scans : s.window < t.window
    BY <1>1 DEF LedgerInv, ClaimInv
  <2>2. t.window \in Int /\ observations \subseteq Observations
    BY DEF HistoryInv, BookInv, LedgerInv, TypeInv, TypeOK, Transactions, Windows
  <2>3. \A o \in observations : o.opening < t.window
    BY <2>1, <2>2 DEF HistoryInv, ObservedInv, Observations, Windows
  <2> QED BY <1>7, <2>2, <2>3 DEF ObservationsOf, SameIncident, Observations, Windows
<1> QED BY <1>5, <1>6, <1>7 DEF n

LEMMA CommitObserved ==
  ASSUME HistoryInv, NEW p \in Scanners, CommitScan(p)
  PROVE  ObservedInv'
<1> DEFINE t == tx[p]
<1>1. /\ pc[p] = "recording" /\ LedgerInv
      /\ observations' = observations
           \cup {Observation(j, t.window, t.evidence[j.cohort]) : j \in t.rows}
  BY DEF CommitScan, HistoryInv, BookInv, Bookkept, Kept
<1>2. scans' = scans \cup {FinalSummary(p)} /\ FinalSummary(p).window = t.window
  BY DEF CommitScan, FinalSummary, Summary
<1>3. \A j \in t.rows : WellFormed(j) /\ j.last = t.window
  BY <1>1 DEF LedgerInv, TypeInv, RowsInv, TxInv, ProgressInv
<1>4. \A j \in t.rows : j.opening <= t.window
  BY <1>3 DEF WellFormed
<1>5. \A j \in t.rows : LET n == Observation(j, t.window, t.evidence[j.cohort])
                        IN  n.opening = j.opening /\ n.window = t.window
  BY DEF Observation
<1>6. ASSUME NEW o \in observations' PROVE o.opening <= o.window /\ \E s \in scans' : s.window = o.window
  <2>1. CASE o \in observations
    BY <1>2, <2>1 DEF HistoryInv, ObservedInv
  <2>2. CASE o \notin observations
    <3>1. PICK j \in t.rows : o = Observation(j, t.window, t.evidence[j.cohort])
      BY <1>1, <2>2
    <3>2. o.opening = j.opening /\ o.window = t.window
      BY <1>5, <3>1
    <3> QED BY <1>2, <1>4, <3>2
  <2> QED BY <2>1, <2>2
<1> QED BY <1>6 DEF ObservedInv

\* Every row there is after a commit is complete and says what was observed.
LEMMA CommitHistory ==
  ASSUME HistoryInv, NEW p \in Scanners, CommitScan(p), NEW j \in incidents'
  PROVE  /\ Complete(j, ObservationsOf(j)', scans') /\ Matches(j, ObservationsOf(j)')
         /\ Stamped(j, scans')
<1> DEFINE t == tx[p]
           s0 == FinalSummary(p)
           d == t.evidence[j.cohort]
<1>1. /\ pc[p] = "recording" /\ LedgerInv /\ BookInv
      /\ scans' = scans \cup {s0} /\ s0.window = t.window /\ s0.recordedAt = t.now
      /\ scans \in SUBSET Summaries
  BY DEF CommitScan, HistoryInv, BookInv, FinalSummary, Summary, LedgerInv, TypeInv, TypeOK
<1>2. \A s \in scans : s.window < t.window
  BY <1>1 DEF LedgerInv, ClaimInv
<1>3. \A i \in incidents :
        /\ Complete(i, ObservationsOf(i), scans) /\ Matches(i, ObservationsOf(i))
        /\ Stamped(i, scans)
  BY DEF HistoryInv, ObservationsComplete, RowMatchesEvidence, Complete, Matches, Stamped, HealthyAt
<1>4. \A i : ObservationsOf(i) \in SUBSET Observations
  BY <1>1 DEF ObservationsOf, LedgerInv, TypeInv, TypeOK
<1>5. CASE j \in t.rows
  <2>1. /\ d \in Detections /\ t.window \in Windows /\ t.now \in Clocks
        /\ \/ \E i \in incidents :
                /\ i.status = "open" /\ i \in IncidentRows /\ WellFormed(i)
                /\ i.last < t.window /\ SameIncident(i, j)
                /\ j = AdvanceIncident(i, d, t.window, t.now)
           \/ d.outcome = "degraded" /\ j = CreateIncident(j.cohort, d, t.window, t.now)
    BY <1>1, <1>5, CommitRows
  <2>2. ObservationsOf(j)' = ObservationsOf(j) \cup {Observation(j, t.window, d)}
    BY <1>5, CommitObservations
  <2>3. CASE \E i \in incidents :
               /\ i.status = "open" /\ i \in IncidentRows /\ WellFormed(i)
               /\ i.last < t.window /\ SameIncident(i, j)
               /\ j = AdvanceIncident(i, d, t.window, t.now)
    <3>1. PICK i \in incidents :
            /\ i.status = "open" /\ i \in IncidentRows /\ WellFormed(i)
            /\ i.last < t.window /\ SameIncident(i, j)
            /\ j = AdvanceIncident(i, d, t.window, t.now)
      BY <2>3
    <3> DEFINE obs == ObservationsOf(i)
               w == t.window
               now == t.now
               S == scans
               all == obs \cup {Observation(j, w, d)}
    <3>2. ObservationsOf(j) = obs
      BY <3>1 DEF ObservationsOf, SameIncident
    <3>3. /\ obs \in SUBSET Observations /\ Complete(i, obs, S) /\ Matches(i, obs)
          /\ Stamped(i, S)
      BY <1>3, <1>4
    <3>4. d \in Detections /\ w \in Windows /\ now \in Clocks /\ i.last < w
          /\ j = AdvanceIncident(i, d, w, now)
      BY <2>1, <3>1
    <3>5. /\ S \in SUBSET Summaries /\ (\A s \in S : s.window < w)
          /\ s0.window = w /\ s0.recordedAt = now
      BY <1>1, <1>2
    <3> HIDE DEF obs, w, now, S, d, s0
    <3>6. Matches(j, all)
      BY <3>1, <3>3, <3>4, AdvancedMatches
    <3>7. Complete(j, all, S \cup {s0})
      BY <3>1, <3>3, <3>4, <3>5, AdvancedComplete
    <3>8. Stamped(j, S \cup {s0})
      BY <3>1, <3>3, <3>4, <3>5, AdvancedStamped
    <3> HIDE DEF all
    <3>9. ObservationsOf(j)' = all
      BY <2>2, <3>2 DEF all, w
    <3> QED BY <1>1, <3>6, <3>7, <3>8, <3>9 DEF S
  <2>4. CASE d.outcome = "degraded" /\ j = CreateIncident(j.cohort, d, t.window, t.now)
    <3> DEFINE w == t.window
               now == t.now
               c == j.cohort
               S == scans
               one == {Observation(j, w, d)}
    <3>1. j.opening = w
      BY <2>4 DEF CreateIncident
    <3>2. ObservationsOf(j) = {}
      BY <1>5, <3>1, CommitObservations
    <3>3. ObservationsOf(j)' = one
      BY <2>2, <3>2
    <3>4. /\ d \in Detections /\ d.outcome = "degraded" /\ w \in Windows
          /\ j = CreateIncident(c, d, w, now)
          /\ S \in SUBSET Summaries /\ (\A s \in S : s.window < w)
          /\ s0.window = w /\ s0.recordedAt = now
      BY <1>1, <1>2, <2>1, <2>4
    <3> HIDE DEF w, now, S, d, c, s0
    <3>5. Matches(j, one)
      BY <3>4, CreatedMatches
    <3>6. Complete(j, one, S \cup {s0})
      BY <3>4, CreatedComplete
    <3>7. Stamped(j, S \cup {s0})
      BY <3>4, CreatedStamped
    <3> HIDE DEF one
    <3> QED BY <1>1, <3>3, <3>5, <3>6, <3>7 DEF S
  <2> QED BY <2>1, <2>3, <2>4
<1>6. CASE j \notin t.rows
  <2>1. j \in incidents /\ \A k \in t.rows : ~SameIncident(j, k)
    BY <1>6 DEF CommitScan, Written
  <2>2. j \in IncidentRows /\ j.status = "resolved" /\ j.last < t.window /\ t.window \in Windows
    <3>1. j \notin t.open
      <4>1. j \in (incidents \ t.open) \cup AdvancedRows(t) \cup OpenedRows(t)
        BY <1>1, WrittenIsStep DEF CommitScan
      <4>2. t.rows = AdvancedRows(t) \cup OpenedRows(t)
        BY <1>1 DEF BookInv, Bookkept, Kept
      <4> QED BY <1>6, <4>1, <4>2
    <3>2. j \in IncidentRows /\ t.window \in Windows
      BY <1>1, <2>1 DEF LedgerInv, TypeInv, TypeOK, Transactions
    <3>3. j.status = "resolved"
      BY <1>1, <2>1, <3>1, <3>2 DEF LedgerInv, SnapshotInv, IncidentRows, Incidents
    <3>4. j.last < t.window
      BY <1>1, <2>1 DEF LedgerInv, LastInv, ClaimInv
    <3> QED BY <3>2, <3>3, <3>4
  <2>3. ObservationsOf(j)' = ObservationsOf(j)
    BY <2>1, CommitObservations
  <2> DEFINE obs == ObservationsOf(j)
             S == scans
             w == t.window
  <2>4. /\ Complete(j, obs, S) /\ Matches(j, obs) /\ Stamped(j, S)
        /\ j \in IncidentRows /\ j.status = "resolved" /\ j.last < w /\ w \in Windows /\ s0.window = w
    BY <1>1, <1>3, <2>1, <2>2
  <2> HIDE DEF obs, S, w, s0
  <2>5. Complete(j, obs, S \cup {s0})
    BY <2>4, UntouchedComplete
  <2>6. Stamped(j, S \cup {s0})
    BY <2>4 DEF Stamped
  <2> QED BY <1>1, <2>3, <2>4, <2>5, <2>6 DEF obs, S
<1> QED BY <1>5, <1>6

LEMMA NextHistoryInv == HistoryInv /\ [Next]_vars => HistoryInv'
<1> SUFFICES ASSUME HistoryInv, [Next]_vars PROVE HistoryInv'
  OBVIOUS
<1>1. BookInv'
  BY NextBookInv DEF HistoryInv
<1>2. CASE \A p \in Scanners : ~CommitScan(p)
  <2>1. UNCHANGED db
    BY <1>2, OnlyCommits
  <2>2. ObservedInv' /\ ObservationsComplete'
    BY <2>1 DEF HistoryInv, ObservedInv, ObservationsComplete, ObservationsOf, db
  <2>3. scans' = scans /\ incidents' = incidents /\ \A i : ObservationsOf(i)' = ObservationsOf(i)
    BY <2>1 DEF ObservationsOf, db
  <2>4. RowMatchesEvidence' <=> RowMatchesEvidence
    BY <2>3, Zenon DEF RowMatchesEvidence
  <2> QED BY <1>1, <2>2, <2>4 DEF HistoryInv
<1>3. ASSUME NEW p \in Scanners, CommitScan(p) PROVE HistoryInv'
  <2>1. ObservedInv'
    BY <1>3, CommitObserved
  <2>2. \A j \in incidents' :
          /\ Complete(j, ObservationsOf(j)', scans') /\ Matches(j, ObservationsOf(j)')
          /\ Stamped(j, scans')
    BY <1>3, CommitHistory
  <2>3. ObservationsComplete'
    BY <2>2 DEF ObservationsComplete, Complete
  <2>4. RowMatchesEvidence'
    BY <2>2 DEF RowMatchesEvidence, Matches, Stamped, HealthyAt
  <2> QED BY <1>1, <2>1, <2>3, <2>4 DEF HistoryInv
<1> QED BY <1>2, <1>3

LEMMA HistoryCorrect == Spec => []HistoryInv
<1>1. Init => HistoryInv
  BY InitBookInv DEF Init, HistoryInv, ObservedInv, ObservationsComplete, RowMatchesEvidence
<1> QED BY <1>1, NextHistoryInv, PTL DEF Spec

\* No incident misses the observation of a scan committed while it was open,
\* has two of one scan, or one of a scan before it opened or after it was
\* resolved, whatever waited, failed or was repeated (the loop of
\* scan_merchant and its absent evidence).
THEOREM NoObservationLost == Spec => []ObservationsComplete
<1>1. HistoryInv => ObservationsComplete
  BY DEF HistoryInv
<1> QED BY <1>1, HistoryCorrect, PTL

\* The incident row never disagrees with the observations it sums up: its
\* opening, its outcome, its peak, its healthy streak and its resolution are
\* what they and their scans say
\* (advance_incident and update_incident).
THEOREM RowTellsHistory == Spec => []RowMatchesEvidence
<1>1. HistoryInv => RowMatchesEvidence
  BY DEF HistoryInv
<1> QED BY <1>1, HistoryCorrect, PTL

-----------------------------------------------------------------------------
(* No record twice                                                         *)

Distinct(a) == \A k, m \in DOMAIN a : a[k] = a[m] => k = m

DistinctInv == \A p \in Scanners : Distinct(tx[p].audit)

LEMMA DistinctGrows ==
  ASSUME NEW a \in Seq(AuditRecords), Distinct(a), NEW r \in AuditRecords, r \notin Trail(a)
  PROVE  Distinct(a \o <<r>>)
<1> DEFINE b == a \o <<r>>
           n == Len(a)
<1>1. DOMAIN a = 1..n /\ DOMAIN b = 1..(n + 1) /\ n \in Nat
  OBVIOUS
<1>2. (\A k \in 1..n : b[k] = a[k]) /\ b[n + 1] = r
  OBVIOUS
<1> HIDE DEF b, n
<1>3. \A k \in 1..(n + 1) : k \in 1..n \/ k = n + 1
  BY <1>1
<1>4. \A k \in 1..n : b[k] # r
  BY <1>1, <1>2 DEF Trail
<1>5. Distinct(b)
  BY <1>1, <1>2, <1>3, <1>4 DEF Distinct
<1> QED BY <1>5 DEF b

\* A transaction's records are of its window and of cohorts whose turn is over.
LEMMA TrailSoFar ==
  ASSUME BookInv, NEW p \in Scanners, pc[p] = "recording", NEW r \in Trail(tx[p].audit)
  PROVE  r.cohort \notin tx[p].todo /\ r.window = tx[p].window
<1> DEFINE t == tx[p]
<1>1. /\ t.rows = AdvancedRows(t) \cup OpenedRows(t)
      /\ Trail(t.audit) = TrailOf(AdvancedRows(t), OpenedRows(t), t.window)
      /\ \A j \in t.rows : j.cohort \notin t.todo
  BY DEF BookInv, Bookkept, Kept, LedgerInv, ProgressInv
<1>2. ResolvedRows(AdvancedRows(t)) \subseteq AdvancedRows(t)
  BY DEF ResolvedRows
<1>3. \A type, j : LET q == AuditRecord(type, j, t.window)
                   IN  q.cohort = j.cohort /\ q.window = t.window
  BY DEF AuditRecord
<1> HIDE DEF t
<1>4. r.cohort \notin t.todo /\ r.window = t.window
  BY <1>1, <1>2, <1>3 DEF TrailOf, t
<1> QED BY <1>4 DEF t

LEMMA OpenDistinct ==
  ASSUME BookInv, NEW p \in Scanners, OpenIncident(p), Distinct(tx[p].audit)
  PROVE  Distinct(tx'[p].audit)
<1> DEFINE t == tx[p]
           i(c) == CreateIncident(c, t.evidence[c], t.window, t.now)
           r(c) == AuditRecord("incident.opened", i(c), t.window)
<1>1. PICK c \in t.todo :
        /\ t.evidence[c].outcome = "degraded"
        /\ tx' = [tx EXCEPT ![p] = CountOpened(Record(t, i(c), t.evidence[c], <<r(c)>>))]
  BY DEF OpenIncident
<1>2. t \in Transactions /\ TxInv(t) /\ tx \in [Scanners -> Transactions] /\ TypeInv
  BY DEF BookInv, LedgerInv, TypeInv, TypeOK, RowsInv
<1>3. c \in Cohorts /\ t.evidence[c] \in Detections
  BY <1>1, <1>2, FindingType DEF TxInv
<1>4. i(c) \in IncidentRows
  BY <1>1, <1>2, <1>3, CreateType DEF Transactions
<1>5. r(c) \in AuditRecords /\ t.audit \in Seq(AuditRecords)
  BY <1>2, <1>4, AuditType DEF Transactions
<1>6. r(c).cohort = c
  BY DEF AuditRecord, CreateIncident
<1>7. tx'[p].audit = t.audit \o <<r(c)>>
  <2> HIDE DEF i, r
  <2> QED BY <1>1, <1>2 DEF CountOpened, Record, Transactions
<1>8. pc[p] = "recording"
  BY DEF OpenIncident
<1> HIDE DEF i, r
<1>9. r(c) \notin Trail(t.audit)
  BY <1>1, <1>6, <1>8, TrailSoFar
<1> QED BY <1>5, <1>7, <1>9, DistinctGrows

LEMMA UpdateDistinct ==
  ASSUME BookInv, NEW p \in Scanners, UpdateIncident(p), Distinct(tx[p].audit)
  PROVE  Distinct(tx'[p].audit)
<1> DEFINE t == tx[p]
           w == t.window
           d(i) == t.evidence[i.cohort]
           j(i) == Advanced(p, i)
           a(i) == AuditRecord("incident.observation_updated", j(i), w)
           b(i) == AuditRecord("incident.resolved", j(i), w)
<1>1. PICK i \in t.open :
        /\ IsNextCohort(p, i.cohort) /\ UpdateAllowed(p, i)
        /\ tx' = [tx EXCEPT ![p] =
                    CountUpdated(Record(t, j(i), d(i), UpdateAudit(j(i), w)), j(i))]
  BY DEF UpdateIncident
<1>2. t \in Transactions /\ TxInv(t) /\ tx \in [Scanners -> Transactions] /\ TypeInv
  BY DEF BookInv, LedgerInv, TypeInv, TypeOK, RowsInv
<1>3. i.cohort \in t.todo /\ d(i) \in Detections
  BY <1>1, <1>2, FindingType DEF TxInv, IsNextCohort
<1>4. w \in Windows /\ t.now \in Clocks /\ i \in IncidentRows /\ WellFormed(i)
  BY <1>2 DEF Transactions, TxInv
<1>5. j(i) \in IncidentRows /\ j(i).cohort = i.cohort
  BY <1>1, <1>3, <1>4, AdvanceType DEF Advanced, UpdateAllowed, SameIncident
<1>6. /\ a(i) \in AuditRecords /\ b(i) \in AuditRecords /\ t.audit \in Seq(AuditRecords)
  BY <1>2, <1>4, <1>5, AuditType DEF Transactions
<1>7. a(i).cohort = i.cohort /\ b(i).cohort = i.cohort /\ a(i) # b(i)
  BY <1>5 DEF AuditRecord
<1>8. tx'[p].audit = t.audit \o UpdateAudit(j(i), w)
  <2> HIDE DEF j, d
  <2> QED BY <1>1, <1>2 DEF CountUpdated, Record, Transactions
<1>9. UpdateAudit(j(i), w) = <<a(i)>> \o IF j(i).status = "resolved" THEN <<b(i)>> ELSE <<>>
  BY DEF UpdateAudit
<1>10. pc[p] = "recording"
  BY DEF UpdateIncident
<1> HIDE DEF a, b, j
<1>11. a(i) \notin Trail(t.audit) /\ b(i) \notin Trail(t.audit)
  BY <1>3, <1>7, <1>10, TrailSoFar
<1>12. /\ Distinct(t.audit \o <<a(i)>>) /\ t.audit \o <<a(i)>> \in Seq(AuditRecords)
       /\ b(i) \notin Trail(t.audit \o <<a(i)>>)
  BY <1>6, <1>7, <1>11, DistinctGrows, TrailGrows
<1>13. Distinct((t.audit \o <<a(i)>>) \o <<b(i)>>)
  BY <1>6, <1>12, DistinctGrows
<1>14. CASE j(i).status = "resolved"
  <2>1. t.audit \in Seq(AuditRecords) /\ a(i) \in AuditRecords /\ b(i) \in AuditRecords
    BY <1>6
  <2>2. t.audit \o (<<a(i)>> \o <<b(i)>>) = (t.audit \o <<a(i)>>) \o <<b(i)>>
    <3> HIDE DEF t, w
    <3> QED BY <2>1
  <2> QED BY <1>8, <1>9, <1>13, <1>14, <2>2
<1>15. CASE j(i).status # "resolved"
  <2>1. <<a(i)>> \o <<>> = <<a(i)>>
    OBVIOUS
  <2> QED BY <1>8, <1>9, <1>12, <1>15, <2>1
<1> QED BY <1>14, <1>15

LEMMA NextDistinct == BookInv /\ DistinctInv /\ [Next]_vars => DistinctInv'
<1> SUFFICES ASSUME BookInv, DistinctInv, [Next]_vars, NEW q \in Scanners
             PROVE  Distinct(tx'[q].audit)
  BY DEF DistinctInv
<1>1. tx \in [Scanners -> Transactions] /\ Distinct(tx[q].audit) /\ Distinct(<<>>)
  BY DEF BookInv, LedgerInv, TypeInv, TypeOK, DistinctInv, Distinct
<1>2. CASE tx' = tx
  BY <1>1, <1>2
<1>3. ASSUME NEW p \in Scanners, Begin(p) PROVE Distinct(tx'[q].audit)
  BY <1>1, <1>3 DEF Begin, NewTx
<1>4. ASSUME NEW p \in Scanners, NEW r, EndTransaction(p, r) PROVE Distinct(tx'[q].audit)
  BY <1>1, <1>4 DEF EndTransaction, NoTx, NewTx
<1>5. ASSUME NEW p \in Scanners, ReadOpenIncidents(p) \/ PassOver(p) PROVE Distinct(tx'[q].audit)
  <2>1. CASE ReadOpenIncidents(p)
    <3>1. tx'[q].audit = tx[q].audit
      BY <1>1, <2>1 DEF ReadOpenIncidents, Transactions
    <3> QED BY <1>1, <3>1
  <2>2. CASE PassOver(p)
    <3>1. PICK c : tx' = [tx EXCEPT ![p].todo = @ \ {c}]
      BY <2>2 DEF PassOver
    <3>2. tx'[q].audit = tx[q].audit
      BY <1>1, <3>1 DEF Transactions
    <3> QED BY <1>1, <3>2
  <2> QED BY <1>5, <2>1, <2>2
<1>6. ASSUME NEW p \in Scanners, AggregateEvidence(p) PROVE Distinct(tx'[q].audit)
  <2>1. PICK e : tx' = [tx EXCEPT ![p] = WithEvidence(tx[p], e)]
    BY <1>6 DEF AggregateEvidence
  <2>2. tx'[q].audit = tx[q].audit
    BY <1>1, <2>1 DEF WithEvidence, Transactions
  <2> QED BY <1>1, <2>2
<1>7. ASSUME NEW p \in Scanners, OpenIncident(p) \/ UpdateIncident(p) PROVE Distinct(tx'[q].audit)
  <2>1. CASE q = p
    BY <1>1, <1>7, <2>1, OpenDistinct, UpdateDistinct
  <2>2. CASE q # p
    BY <1>1, <1>7, <2>2 DEF OpenIncident, UpdateIncident
  <2> QED BY <2>1, <2>2
<1> QED BY <1>2, <1>3, <1>4, <1>5, <1>6, <1>7
    DEF Next, Advance, vars, Tick, LockMerchant, Replay, FindNothing, RejectStale, ClaimScan,
        RefuseWrite, CommitScan, Fail, Rollback

-----------------------------------------------------------------------------
(* The records of one incident's turn                                      *)

\* AuditFor, of any trail.
Slots(a, T, i, w) ==
  {k \in DOMAIN a : a[k].type \in T /\ SameIncident(a[k], i) /\ a[k].window = w}

Turn == {"incident.opened", "incident.observation_updated"}
Closing == {"incident.resolved"}

LEMMA SlotsAppend ==
  ASSUME NEW a \in Seq(AuditRecords), NEW b \in Seq(AuditRecords), NEW T, NEW i, NEW w
  PROVE  Slots(a \o b, T, i, w) = Slots(a, T, i, w) \cup {Len(a) + k : k \in Slots(b, T, i, w)}
<1> DEFINE c == a \o b
           x == Len(a)
           y == Len(b)
           In(r) == r.type \in T /\ SameIncident(r, i) /\ r.window = w
<1>1. /\ DOMAIN a = 1..x /\ DOMAIN b = 1..y /\ DOMAIN c = 1..(x + y)
      /\ x \in Nat /\ y \in Nat
  OBVIOUS
<1>2. /\ \A k \in 1..x : c[k] = a[k]
      /\ \A k \in 1..y : c[x + k] = b[k]
  OBVIOUS
<1>3. /\ Slots(a, T, i, w) = {k \in 1..x : In(a[k])}
      /\ Slots(b, T, i, w) = {k \in 1..y : In(b[k])}
      /\ Slots(c, T, i, w) = {k \in 1..(x + y) : In(c[k])}
  BY <1>1 DEF Slots
<1> HIDE DEF c, x, y, In
<1>4. ASSUME NEW k \in 1..(x + y), k \notin 1..x
      PROVE  k - x \in 1..y /\ k = x + (k - x)
  BY <1>1, <1>4
<1>5. /\ \A k \in 1..x : k \in 1..(x + y)
      /\ \A k \in 1..y : x + k \in 1..(x + y)
  BY <1>1
<1>6. {k \in 1..(x + y) : In(c[k])} \subseteq {k \in 1..x : In(a[k])} \cup {x + k : k \in {m \in 1..y : In(b[m])}}
  <2> SUFFICES ASSUME NEW k \in 1..(x + y), In(c[k]), k \notin 1..x
               PROVE  \E m \in 1..y : In(b[m]) /\ k = x + m
    BY <1>2
  <2>1. k - x \in 1..y /\ k = x + (k - x)
    BY <1>4
  <2>2. In(b[k - x])
    BY <1>2, <2>1
  <2> QED BY <2>1, <2>2
<1>7. {k \in 1..x : In(a[k])} \subseteq {k \in 1..(x + y) : In(c[k])}
  BY <1>2, <1>5
<1>8. {x + k : k \in {m \in 1..y : In(b[m])}} \subseteq {k \in 1..(x + y) : In(c[k])}
  BY <1>2, <1>5
<1>9. Slots(c, T, i, w) = Slots(a, T, i, w) \cup {x + k : k \in Slots(b, T, i, w)}
  BY <1>3, <1>6, <1>7, <1>8
<1> QED BY <1>9 DEF c, x

\* A record that is the only one of its kind has one place.
LEMMA OneSlot ==
  ASSUME NEW a, Distinct(a), NEW T, NEW i, NEW w, NEW r \in Trail(a),
         r.type \in T, SameIncident(r, i), r.window = w,
         \A q \in Trail(a) : q.type \in T /\ SameIncident(q, i) /\ q.window = w => q = r
  PROVE  \E k \in DOMAIN a : Slots(a, T, i, w) = {k} /\ a[k] = r
<1>1. PICK k \in DOMAIN a : a[k] = r
  BY DEF Trail
<1>2. Slots(a, T, i, w) = {k}
  BY <1>1 DEF Slots, Trail, Distinct
<1> QED BY <1>1, <1>2

LEMMA NoSlot ==
  ASSUME NEW a, NEW T, NEW i, NEW w,
         \A q \in Trail(a) : ~(q.type \in T /\ SameIncident(q, i) /\ q.window = w)
  PROVE  Slots(a, T, i, w) = {}
BY DEF Slots, Trail

\* The records of one row among all those of a transaction's rows.
LEMMA RecordsOf ==
  ASSUME NEW A, NEW O, NEW w, NEW j \in A \cup O,
         \A i, k \in A \cup O : i.cohort = k.cohort => i = k
  PROVE  /\ j \in O => AuditRecord("incident.opened", j, w) \in TrailOf(A, O, w)
         /\ j \in A => AuditRecord("incident.observation_updated", j, w) \in TrailOf(A, O, w)
         /\ j \in ResolvedRows(A) => AuditRecord("incident.resolved", j, w) \in TrailOf(A, O, w)
         /\ \A r \in TrailOf(A, O, w) : SameIncident(r, j) =>
              \/ j \in O /\ r = AuditRecord("incident.opened", j, w)
              \/ j \in A /\ r = AuditRecord("incident.observation_updated", j, w)
              \/ j \in ResolvedRows(A) /\ r = AuditRecord("incident.resolved", j, w)
<1>1. \A type, i : AuditRecord(type, i, w).cohort = i.cohort
  BY DEF AuditRecord
<1>2. ASSUME NEW r \in TrailOf(A, O, w), SameIncident(r, j)
      PROVE  \/ j \in O /\ r = AuditRecord("incident.opened", j, w)
             \/ j \in A /\ r = AuditRecord("incident.observation_updated", j, w)
             \/ j \in ResolvedRows(A) /\ r = AuditRecord("incident.resolved", j, w)
  <2>1. PICK i \in A \cup O :
          \/ i \in O /\ r = AuditRecord("incident.opened", i, w)
          \/ i \in A /\ r = AuditRecord("incident.observation_updated", i, w)
          \/ i \in ResolvedRows(A) /\ r = AuditRecord("incident.resolved", i, w)
    BY DEF TrailOf, ResolvedRows
  <2>2. i.cohort = j.cohort
    BY <1>1, <1>2, <2>1 DEF SameIncident
  <2>3. i = j
    BY <2>2
  <2> QED BY <2>1, <2>3
<1>3. /\ j \in O => AuditRecord("incident.opened", j, w) \in TrailOf(A, O, w)
      /\ j \in A => AuditRecord("incident.observation_updated", j, w) \in TrailOf(A, O, w)
      /\ j \in ResolvedRows(A) => AuditRecord("incident.resolved", j, w) \in TrailOf(A, O, w)
  BY DEF TrailOf
<1> QED BY <1>2, <1>3

\* The rows a commit writes, those it opened and those it updated.
LEMMA RowKinds ==
  ASSUME BookInv, NEW p \in Scanners, CommitScan(p), NEW j \in tx[p].rows
  PROVE  LET t == tx[p]
         IN  /\ j \in IncidentRows /\ j.last = t.window /\ t.window \in Windows
             /\ j.outcome = t.evidence[j.cohort].outcome
             /\ j \in AdvancedRows(t) \/ j \in OpenedRows(t)
             /\ j \in OpenedRows(t) => j.opening = t.window /\ j.status = "open"
             /\ j \in AdvancedRows(t) =>
                  /\ j.opening < t.window
                  /\ \E i \in incidents : i.status = "open" /\ SameIncident(i, j)
<1> DEFINE t == tx[p]
<1>1. /\ pc[p] = "recording" /\ LedgerInv /\ TypeInv /\ t \in Transactions
      /\ t.open = {i \in incidents : i.status = "open"}
      /\ t.rows = AdvancedRows(t) \cup OpenedRows(t)
      /\ j.last = t.window
  BY DEF CommitScan, BookInv, Bookkept, Kept, LedgerInv, SnapshotInv, ProgressInv, TypeInv, TypeOK
<1>2. t.window \in Windows /\ j \in IncidentRows
  BY <1>1 DEF Transactions
<1>3. ASSUME j \in OpenedRows(t)
      PROVE  j.outcome = t.evidence[j.cohort].outcome /\ j.opening = t.window /\ j.status = "open"
  <2>1. PICK c : j = CreateIncident(c, t.evidence[c], t.window, t.now)
    BY <1>3 DEF OpenedRows
  <2> QED BY <2>1 DEF CreateIncident
<1>4. ASSUME j \in AdvancedRows(t)
      PROVE  /\ j.outcome = t.evidence[j.cohort].outcome
             /\ j.opening < t.window
             /\ \E i \in incidents : i.status = "open" /\ SameIncident(i, j)
  <2>1. PICK i \in t.open : j = AdvanceIncident(i, t.evidence[i.cohort], t.window, t.now)
    BY <1>4 DEF AdvancedRows
  <2>2. i \in incidents /\ i.status = "open" /\ i \in IncidentRows /\ WellFormed(i)
    BY <1>1, <2>1 DEF TypeInv, TypeOK, RowsInv
  <2>3. j.cohort = i.cohort /\ j.opening = i.opening /\ j.outcome = t.evidence[i.cohort].outcome
    BY <2>1, <2>2, AdvancedFields
  <2>4. i.last < t.window
    BY <1>1, <2>2 DEF LedgerInv, LastInv, ClaimInv
  <2>5. i.opening <= i.last /\ i.opening \in Int /\ i.last \in Int /\ t.window \in Int
    BY <1>2, <2>2 DEF WellFormed, IncidentRows, Incidents, Windows
  <2>6. i.opening < t.window
    BY <2>4, <2>5
  <2> QED BY <2>2, <2>3, <2>6 DEF SameIncident
<1> QED BY <1>1, <1>2, <1>3, <1>4

-----------------------------------------------------------------------------
(* The trail against the observations                                      *)

\* The conjuncts of AuditMatchesHistory, of any trail.
Told(a, o) ==
  LET type == IF o.window = o.opening
              THEN "incident.opened" ELSE "incident.observation_updated"
      own == Slots(a, Turn, o, o.window)
  IN /\ Cardinality(own) = 1
     /\ \A k \in own : a[k].type = type /\ a[k].outcome = o.outcome

ResolvedOnce(a, i, v) ==
  Cardinality(Slots(a, Closing, i, v)) = IF i.status = "resolved" /\ v = i.last THEN 1 ELSE 0

Backed(r, O) == \E o \in O : SameIncident(r, o) /\ r.window = o.window

InOrder(a) == \A k, m \in DOMAIN a : k < m => a[k].window <= a[m].window

Audited(a, O, I, S) ==
  /\ \A o \in O : Told(a, o)
  /\ \A i \in I : \A v \in {s.window : s \in S} : ResolvedOnce(a, i, v)
  /\ \A r \in Trail(a) : Backed(r, O)
  /\ InOrder(a)

LEMMA AuditedIs ==
  /\ AuditMatchesHistory <=> Audited(audit, observations, incidents, scans)
  /\ AuditMatchesHistory' <=> Audited(audit', observations', incidents', scans')
BY DEF AuditMatchesHistory, AuditFor, Audited, Told, ResolvedOnce, Backed, InOrder, Slots, Turn,
       Closing, Trail

AuditInv == HistoryInv /\ DistinctInv /\ AuditMatchesHistory

\* What a commit finds in the trail and what it appends to it.
LEMMA CommitTrail ==
  ASSUME AuditInv, NEW p \in Scanners, CommitScan(p)
  PROVE  LET t == tx[p]
         IN  /\ audit \in Seq(AuditRecords) /\ t.audit \in Seq(AuditRecords)
             /\ audit' = audit \o t.audit
             /\ t.window \in Windows
             /\ \A s \in scans : s.window < t.window
             /\ \A o \in observations : o \in Observations /\ o.opening <= o.window /\ o.window < t.window
             /\ \A r \in Trail(audit) : r.window < t.window /\ r.opening < t.window
             /\ Trail(t.audit) = TrailOf(AdvancedRows(t), OpenedRows(t), t.window)
             /\ t.rows = AdvancedRows(t) \cup OpenedRows(t)
             /\ \A j, k \in t.rows : j.cohort = k.cohort => j = k
             /\ Distinct(t.audit)
             /\ \A r \in Trail(t.audit) : r.window = t.window /\ \E j \in t.rows : SameIncident(r, j)
<1> DEFINE t == tx[p]
<1>1. /\ pc[p] = "recording" /\ LedgerInv /\ TypeOK /\ t \in Transactions
      /\ t.rows = AdvancedRows(t) \cup OpenedRows(t)
      /\ Trail(t.audit) = TrailOf(AdvancedRows(t), OpenedRows(t), t.window)
      /\ \A j, k \in t.rows : j.cohort = k.cohort => j = k
      /\ \A s \in scans : s.window < t.window
  BY DEF CommitScan, AuditInv, HistoryInv, BookInv, Bookkept, Kept, LedgerInv, ClaimInv,
         ProgressInv, TypeInv, TypeOK
<1>2. /\ audit \in Seq(AuditRecords) /\ t.audit \in Seq(AuditRecords) /\ t.window \in Windows
      /\ audit' = audit \o t.audit /\ Distinct(t.audit)
  BY <1>1 DEF CommitScan, TypeOK, Transactions, AuditInv, DistinctInv
<1>3. ASSUME NEW o \in observations
      PROVE  o \in Observations /\ o.opening <= o.window /\ o.window < t.window
  BY <1>1 DEF AuditInv, HistoryInv, ObservedInv, TypeOK
<1>4. ASSUME NEW r \in Trail(audit) PROVE r.window < t.window /\ r.opening < t.window
  <2>1. PICK o \in observations : SameIncident(r, o) /\ r.window = o.window
    BY AuditedIs DEF AuditInv, Audited, Backed
  <2>2. o.opening \in Int /\ o.window \in Int /\ t.window \in Int
    BY <1>2, <1>3 DEF Observations, Windows
  <2>3. r.opening = o.opening
    BY <2>1 DEF SameIncident
  <2> QED BY <1>3, <2>1, <2>2, <2>3
<1>5. ASSUME NEW r \in Trail(t.audit)
      PROVE  r.window = t.window /\ \E j \in t.rows : SameIncident(r, j)
  <2>1. PICK j \in t.rows : \E type : r = AuditRecord(type, j, t.window)
    BY <1>1 DEF TrailOf, ResolvedRows
  <2>2. r.window = t.window /\ SameIncident(r, j)
    BY <2>1 DEF AuditRecord, SameIncident
  <2> QED BY <2>2
<1> HIDE DEF t
<1> QED BY <1>1, <1>2, <1>3, <1>4, <1>5 DEF t

\* A place in the older part of the trail, or in the part a commit appends.
LEMMA OldSlots ==
  ASSUME AuditInv, NEW p \in Scanners, CommitScan(p), NEW T, NEW i, NEW v, v # tx[p].window
  PROVE  /\ Slots(audit', T, i, v) = Slots(audit, T, i, v)
         /\ \A k \in Slots(audit, T, i, v) : audit'[k] = audit[k]
<1> DEFINE a == audit
           b == tx[p].audit
<1>1. /\ a \in Seq(AuditRecords) /\ b \in Seq(AuditRecords) /\ audit' = a \o b
      /\ \A r \in Trail(b) : r.window # v
  BY CommitTrail
<1> HIDE DEF a, b
<1>2. Slots(b, T, i, v) = {}
  BY <1>1, NoSlot
<1>3. Slots(a \o b, T, i, v) = Slots(a, T, i, v) \cup {Len(a) + k : k \in Slots(b, T, i, v)}
  BY <1>1, SlotsAppend
<1>4. Slots(audit', T, i, v) = Slots(a, T, i, v)
  BY <1>1, <1>2, <1>3
<1>5. \A k \in DOMAIN a : (a \o b)[k] = a[k]
  BY <1>1
<1>6. \A k \in Slots(a, T, i, v) : audit'[k] = a[k]
  BY <1>1, <1>5 DEF Slots
<1> QED BY <1>4, <1>6 DEF a

LEMMA NewSlots ==
  ASSUME AuditInv, NEW p \in Scanners, CommitScan(p), NEW T, NEW i
  PROVE  LET n == Len(audit)
             new == Slots(tx[p].audit, T, i, tx[p].window)
         IN  /\ Slots(audit', T, i, tx[p].window) = {n + k : k \in new}
             /\ \A k \in new : audit'[n + k] = tx[p].audit[k]
<1> DEFINE a == audit
           b == tx[p].audit
           w == tx[p].window
<1>1. /\ a \in Seq(AuditRecords) /\ b \in Seq(AuditRecords) /\ audit' = a \o b
      /\ w \in Int
      /\ \A r \in Trail(a) : r.window < w
  BY CommitTrail DEF Windows
<1>2. \A r \in AuditRecords : r.window \in Int
  BY DEF AuditRecords, Windows
<1> HIDE DEF a, b, w
<1>3. \A r \in Trail(a) : r \in AuditRecords
  BY <1>1 DEF Trail
<1>4. \A r \in Trail(a) : r.window # w
  BY <1>1, <1>2, <1>3
<1>5. Slots(a, T, i, w) = {}
  BY <1>4, NoSlot
<1>6. Slots(a \o b, T, i, w) = Slots(a, T, i, w) \cup {Len(a) + k : k \in Slots(b, T, i, w)}
  BY <1>1, SlotsAppend
<1>7. \A k \in DOMAIN b : (a \o b)[Len(a) + k] = b[k]
  BY <1>1
<1>8. /\ Slots(audit', T, i, w) = {Len(a) + k : k \in Slots(b, T, i, w)}
      /\ \A k \in Slots(b, T, i, w) : audit'[Len(a) + k] = b[k]
  BY <1>1, <1>5, <1>6, <1>7 DEF Slots
<1> QED BY <1>8 DEF a, b, w

LEMMA Shifted ==
  ASSUME NEW n, NEW k, NEW S, S = {k}
  PROVE  {n + m : m \in S} = {n + k} /\ Cardinality({n + k}) = 1
BY FS_Singleton

\* The observations there were are told by the records there were.
LEMMA OldTold ==
  ASSUME AuditInv, NEW p \in Scanners, CommitScan(p), NEW o \in observations
  PROVE  Told(audit', o)
<1>1. Told(audit, o)
  BY AuditedIs DEF AuditInv, Audited
<1>2. o.window # tx[p].window
  <2>1. o.window \in Int /\ tx[p].window \in Int /\ o.window < tx[p].window
    BY CommitTrail DEF Observations, Windows
  <2> QED BY <2>1
<1> DEFINE own == Slots(audit, Turn, o, o.window)
<1>3. Slots(audit', Turn, o, o.window) = own /\ \A k \in own : audit'[k] = audit[k]
  BY <1>2, OldSlots
<1>4. /\ Cardinality(own) = 1
      /\ \A k \in own : /\ audit[k].type = IF o.window = o.opening
                             THEN "incident.opened" ELSE "incident.observation_updated"
                        /\ audit[k].outcome = o.outcome
  BY <1>1 DEF Told
<1> HIDE DEF own
<1> QED BY <1>3, <1>4 DEF Told

\* The observation of a row the commit writes is told by the record of its
\* turn, which is the only one.
LEMMA NewTold ==
  ASSUME AuditInv, NEW p \in Scanners, CommitScan(p), NEW j \in tx[p].rows,
         NEW o, o = Observation(j, tx[p].window, tx[p].evidence[j.cohort])
  PROVE  Told(audit', o) /\ \E r \in Trail(tx[p].audit) : SameIncident(r, j)
<1> DEFINE t == tx[p]
           w == t.window
           b == t.audit
           type == IF j \in OpenedRows(t)
                   THEN "incident.opened" ELSE "incident.observation_updated"
           r == AuditRecord(type, j, w)
           A == AdvancedRows(t)
           O == OpenedRows(t)
<1>1. /\ b \in Seq(AuditRecords) /\ Distinct(b) /\ w \in Windows
      /\ Trail(b) = TrailOf(A, O, w) /\ t.rows = A \cup O
      /\ \A i, k \in t.rows : i.cohort = k.cohort => i = k
      /\ \A q \in Trail(b) : q.window = w
  BY CommitTrail
<1>2. /\ j \in IncidentRows /\ j.outcome = t.evidence[j.cohort].outcome
      /\ j \in A \/ j \in O
      /\ j \in O => j.opening = w /\ j.status = "open"
      /\ j \in A => j.opening < w
  BY RowKinds DEF AuditInv, HistoryInv
<1>3. /\ o.cohort = j.cohort /\ o.opening = j.opening /\ o.window = w /\ o.outcome = j.outcome
  BY <1>2 DEF Observation
<1>4. /\ r.type = type /\ r.cohort = j.cohort /\ r.opening = j.opening /\ r.window = w
      /\ r.outcome = j.outcome
  BY DEF AuditRecord
<1>5. j.opening \in Int /\ w \in Int
  BY <1>1, <1>2 DEF IncidentRows, Incidents, Windows
<1>6. (j \in O <=> j.opening = w) /\ (j \in O => j \notin A)
  BY <1>2, <1>5
<1>6a. j \in A \cup O /\ \A i, k \in A \cup O : i.cohort = k.cohort => i = k
  BY <1>1, <1>2
<1> HIDE DEF t, w, b, A, O
<1>7. /\ j \in O => AuditRecord("incident.opened", j, w) \in Trail(b)
      /\ j \in A => AuditRecord("incident.observation_updated", j, w) \in Trail(b)
      /\ \A q \in Trail(b) : SameIncident(q, j) =>
              \/ j \in O /\ q = AuditRecord("incident.opened", j, w)
              \/ j \in A /\ q = AuditRecord("incident.observation_updated", j, w)
              \/ j \in ResolvedRows(A) /\ q = AuditRecord("incident.resolved", j, w)
  BY <1>1, <1>6a, RecordsOf
<1>8. r \in Trail(b)
  BY <1>2, <1>7 DEF O
<1>9. AuditRecord("incident.resolved", j, w).type \notin Turn
  BY DEF AuditRecord, Turn
<1>10. type \in Turn /\ SameIncident(r, o) /\ SameIncident(r, j)
  BY <1>3, <1>4 DEF Turn, SameIncident
<1>11. \A q \in Trail(b) : q.type \in Turn /\ SameIncident(q, o) /\ q.window = w => q = r
  <2> SUFFICES ASSUME NEW q \in Trail(b), q.type \in Turn, SameIncident(q, o) PROVE q = r
    OBVIOUS
  <2>1. SameIncident(q, j)
    BY <1>3 DEF SameIncident
  <2> QED BY <1>6, <1>7, <1>9, <2>1 DEF O
<1> HIDE DEF r, type
<1>12. PICK k \in DOMAIN b : Slots(b, Turn, o, w) = {k} /\ b[k] = r
  <2>1. /\ Distinct(b) /\ r \in Trail(b)
        /\ r.type \in Turn /\ SameIncident(r, o) /\ r.window = w
        /\ \A q \in Trail(b) : q.type \in Turn /\ SameIncident(q, o) /\ q.window = w => q = r
    BY <1>1, <1>4, <1>8, <1>10, <1>11
  <2>2. \E k \in DOMAIN b : Slots(b, Turn, o, w) = {k} /\ b[k] = r
    BY <2>1, OneSlot
  <2> QED BY <2>2
<1>13. /\ Slots(audit', Turn, o, w) = {Len(audit) + m : m \in Slots(b, Turn, o, w)}
       /\ \A m \in Slots(b, Turn, o, w) : audit'[Len(audit) + m] = b[m]
  BY NewSlots DEF b, w, t
<1>14. /\ Slots(audit', Turn, o, w) = {Len(audit) + k}
       /\ Cardinality({Len(audit) + k}) = 1
       /\ audit'[Len(audit) + k] = r
  BY <1>12, <1>13, Shifted
<1>15. type = IF o.window = o.opening
              THEN "incident.opened" ELSE "incident.observation_updated"
  BY <1>3, <1>6 DEF type, O
<1>16. Told(audit', o)
  BY <1>3, <1>4, <1>14, <1>15 DEF Told
<1> QED BY <1>8, <1>10, <1>16 DEF b, t

\* A resolution is recorded when its row is written, and never again.
LEMMA RowResolvedOnce ==
  ASSUME AuditInv, NEW p \in Scanners, CommitScan(p), NEW i \in incidents',
         NEW v, v = tx[p].window \/ \E s \in scans : v = s.window
  PROVE  ResolvedOnce(audit', i, v)
<1> DEFINE t == tx[p]
           w == t.window
           b == t.audit
           A == AdvancedRows(t)
           O == OpenedRows(t)
<1>1. /\ b \in Seq(AuditRecords) /\ Distinct(b) /\ w \in Windows
      /\ Trail(b) = TrailOf(A, O, w) /\ t.rows = A \cup O
      /\ \A j, k \in t.rows : j.cohort = k.cohort => j = k
      /\ \A q \in Trail(b) : q.window = w /\ \E j \in t.rows : SameIncident(q, j)
      /\ \A s \in scans : s.window < w
      /\ \A r \in Trail(audit) : r.opening < w
  BY CommitTrail
<1>2. scans \subseteq Summaries /\ audit \in Seq(AuditRecords) /\ incidents \subseteq IncidentRows
  BY DEF AuditInv, HistoryInv, BookInv, LedgerInv, TypeInv, TypeOK
<1>3. \A j \in incidents : \A s \in scans : ResolvedOnce(audit, j, s.window)
  BY AuditedIs DEF AuditInv, Audited
<1>4. incidents' = {j \in incidents : \A k \in t.rows : ~SameIncident(j, k)} \cup t.rows
  BY DEF CommitScan, Written
<1>5. Cardinality({}) = 0
  BY FS_EmptySet
<1>6. \A u : u # w => Slots(audit', Closing, i, u) = Slots(audit, Closing, i, u)
  BY OldSlots
<1>7. Slots(audit', Closing, i, w) = {Len(audit) + m : m \in Slots(b, Closing, i, w)}
  BY NewSlots
<1>8. w \in Int /\ \A s \in scans : s.window \in Int /\ s.window # w
  BY <1>1, <1>2 DEF Summaries, Windows
<1>9. CASE i \notin t.rows
  <2>1. i \in incidents /\ \A k \in t.rows : ~SameIncident(i, k)
    BY <1>4, <1>9
  <2>2. CASE v = w
    <3>1. PICK s \in scans : i.last = s.window
      BY <2>1 DEF AuditInv, HistoryInv, BookInv, LedgerInv, LastInv
    <3>2. i.last # w
      BY <1>8, <3>1
    <3>3. \A q \in Trail(b) : ~SameIncident(q, i)
      BY <1>1, <2>1 DEF SameIncident
    <3> HIDE DEF b, w, t
    <3>4. Slots(b, Closing, i, w) = {}
      BY <3>3, NoSlot
    <3>5. Slots(audit', Closing, i, w) = {}
      BY <1>7, <3>4
    <3> QED BY <1>5, <2>2, <3>2, <3>5 DEF ResolvedOnce
  <2>3. CASE v # w
    BY <1>3, <1>6, <2>1, <2>3 DEF ResolvedOnce
  <2> QED BY <2>2, <2>3
<1>10. CASE i \in t.rows
  <2>1. /\ i.last = w
        /\ i \in A \/ i \in O
        /\ i \in O => i.opening = w /\ i.status = "open"
        /\ i \in A => \E j \in incidents : j.status = "open" /\ SameIncident(j, i)
    BY <1>10, RowKinds DEF AuditInv, HistoryInv
  <2> HIDE DEF t, w, b, A, O
  <2>2. CASE v # w
    <3>1. PICK s \in scans : v = s.window
      BY <2>2 DEF w, t
    <3>2. Slots(audit, Closing, i, v) = {}
      <4>1. CASE i \in A
        <5>1. PICK j \in incidents : j.status = "open" /\ SameIncident(j, i)
          BY <2>1, <4>1
        <5>2. ResolvedOnce(audit, j, v) /\ j.status # "resolved"
          BY <1>3, <3>1, <5>1
        <5>3. Cardinality(Slots(audit, Closing, j, v)) = 0
          BY <5>2 DEF ResolvedOnce
        <5>4. Slots(audit, Closing, j, v) = Slots(audit, Closing, i, v)
          BY <5>1 DEF Slots, SameIncident
        <5>5. IsFiniteSet(Slots(audit, Closing, i, v))
          <6>1. IsFiniteSet(DOMAIN audit)
            <7>1. Len(audit) \in Nat /\ DOMAIN audit = 1..Len(audit)
              BY <1>2
            <7> QED BY <7>1, FS_Interval
          <6>2. Slots(audit, Closing, i, v) \subseteq DOMAIN audit
            BY DEF Slots
          <6> QED BY <6>1, <6>2, FS_Subset
        <5> QED BY <5>3, <5>4, <5>5, FS_EmptySet
      <4>2. CASE i \in O
        <5>1. i.opening = w
          BY <2>1, <4>2
        <5>2. \A r \in Trail(audit) : r.opening \in Int
          <6>1. \A k \in DOMAIN audit : audit[k] \in AuditRecords
            BY <1>2
          <6> QED BY <6>1 DEF Trail, AuditRecords, Windows
        <5>3. \A r \in Trail(audit) : ~SameIncident(r, i)
          BY <1>1, <1>8, <5>1, <5>2 DEF SameIncident
        <5> QED BY <5>3, NoSlot
      <4> QED BY <2>1, <4>1, <4>2
    <3>3. Slots(audit', Closing, i, v) = {}
      BY <1>6, <2>2, <3>2
    <3> QED BY <1>5, <2>1, <2>2, <3>3 DEF ResolvedOnce
  <2>3. CASE v = w
    <3>1. /\ i \in ResolvedRows(A) => AuditRecord("incident.resolved", i, w) \in Trail(b)
          /\ \A q \in Trail(b) : SameIncident(q, i) =>
                  \/ i \in O /\ q = AuditRecord("incident.opened", i, w)
                  \/ i \in A /\ q = AuditRecord("incident.observation_updated", i, w)
                  \/ i \in ResolvedRows(A) /\ q = AuditRecord("incident.resolved", i, w)
      BY <1>1, <1>10, RecordsOf
    <3>2. \A type : LET q == AuditRecord(type, i, w)
                    IN  q.type = type /\ SameIncident(q, i) /\ q.window = w
      BY DEF AuditRecord, SameIncident
    <3>3. \A q \in Trail(b) : q.type \in Closing /\ SameIncident(q, i) =>
            i \in ResolvedRows(A) /\ q = AuditRecord("incident.resolved", i, w)
      BY <3>1, <3>2 DEF Closing
    <3>4. CASE i.status = "resolved"
      <4> DEFINE r == AuditRecord("incident.resolved", i, w)
      <4>1. i \in ResolvedRows(A)
        BY <2>1, <3>4 DEF ResolvedRows
      <4>2. r \in Trail(b) /\ r.type \in Closing /\ SameIncident(r, i) /\ r.window = w
        BY <3>1, <3>2, <4>1 DEF Closing
      <4>3. \A q \in Trail(b) : q.type \in Closing /\ SameIncident(q, i) /\ q.window = w => q = r
        BY <3>3
      <4> HIDE DEF r
      <4>4. PICK k \in DOMAIN b : Slots(b, Closing, i, w) = {k}
        <5>1. Distinct(b)
          BY <1>1
        <5>2. \E k \in DOMAIN b : Slots(b, Closing, i, w) = {k} /\ b[k] = r
          BY <4>2, <4>3, <5>1, OneSlot
        <5> QED BY <5>2
      <4>5. /\ {Len(audit) + m : m \in Slots(b, Closing, i, w)} = {Len(audit) + k}
            /\ Cardinality({Len(audit) + k}) = 1
        BY <4>4, Shifted
      <4>6. Cardinality(Slots(audit', Closing, i, w)) = 1
        BY <1>7, <4>5
      <4> QED BY <2>1, <2>3, <3>4, <4>6 DEF ResolvedOnce
    <3>5. CASE i.status # "resolved"
      <4>1. \A q \in Trail(b) : ~(q.type \in Closing /\ SameIncident(q, i) /\ q.window = w)
        BY <3>3, <3>5 DEF ResolvedRows
      <4>2. Slots(b, Closing, i, w) = {}
        BY <4>1, NoSlot
      <4>3. Slots(audit', Closing, i, w) = {}
        BY <1>7, <4>2
      <4> QED BY <1>5, <2>3, <3>5, <4>3 DEF ResolvedOnce
    <3> QED BY <3>4, <3>5
  <2> QED BY <2>2, <2>3
<1> QED BY <1>9, <1>10

\* Every record has its observation after a commit too.
LEMMA CommitBacked ==
  ASSUME AuditInv, NEW p \in Scanners, CommitScan(p), NEW r \in Trail(audit')
  PROVE  Backed(r, observations')
<1> DEFINE t == tx[p]
           n(j) == Observation(j, t.window, t.evidence[j.cohort])
<1>1. observations' = observations \cup {n(j) : j \in t.rows}
  BY DEF CommitScan, AuditInv, HistoryInv, BookInv, Bookkept, Kept
<1>2. /\ audit \in Seq(AuditRecords) /\ t.audit \in Seq(AuditRecords)
      /\ audit' = audit \o t.audit
      /\ \A q \in Trail(t.audit) : q.window = t.window /\ \E j \in t.rows : SameIncident(q, j)
  BY CommitTrail
<1>3. r \in Trail(audit) \cup Trail(t.audit)
  BY <1>2, TrailAppends
<1>4. CASE r \in Trail(audit)
  BY <1>1, <1>4, AuditedIs DEF AuditInv, Audited, Backed
<1>5. CASE r \in Trail(t.audit)
  <2>1. PICK j \in t.rows : SameIncident(r, j)
    BY <1>2, <1>5
  <2>2. SameIncident(r, n(j)) /\ r.window = n(j).window
    BY <1>2, <1>5, <2>1 DEF Observation, SameIncident
  <2>3. n(j) \in observations'
    BY <1>1
  <2> QED BY <2>2, <2>3 DEF Backed
<1> QED BY <1>3, <1>4, <1>5

LEMMA CommitInOrder ==
  ASSUME AuditInv, NEW p \in Scanners, CommitScan(p)
  PROVE  InOrder(audit')
<1> DEFINE a == audit
           b == tx[p].audit
           w == tx[p].window
           x == Len(a)
           y == Len(b)
           c == audit'
<1>1. /\ a \in Seq(AuditRecords) /\ b \in Seq(AuditRecords) /\ c = a \o b
      /\ w \in Int
      /\ (\A r \in Trail(a) : r.window < w) /\ (\A r \in Trail(b) : r.window = w)
  BY CommitTrail DEF Windows
<1>2. InOrder(a)
  BY AuditedIs DEF AuditInv, Audited
<1> HIDE DEF a, b, w, c
<1>3. /\ DOMAIN a = 1..x /\ DOMAIN b = 1..y /\ DOMAIN c = 1..(x + y) /\ x \in Nat /\ y \in Nat
      /\ \A k \in 1..x : c[k] = a[k]
      /\ \A k \in 1..y : c[x + k] = b[k]
  BY <1>1
<1>4. \A k \in 1..x : a[k].window \in Int
  <2>1. \A k \in 1..x : a[k] \in AuditRecords
    BY <1>1, <1>3
  <2> QED BY <2>1 DEF AuditRecords, Windows
<1> HIDE DEF x, y
<1>5. \A k \in 1..x : c[k].window = a[k].window /\ a[k].window < w
  BY <1>1, <1>3 DEF Trail
<1>6. ASSUME NEW k \in 1..(x + y), k \notin 1..x PROVE c[k].window = w
  <2>1. k - x \in 1..y /\ k = x + (k - x)
    BY <1>3, <1>6
  <2>2. c[k] = b[k - x] /\ b[k - x] \in Trail(b)
    BY <1>3, <2>1 DEF Trail
  <2> QED BY <1>1, <2>2
<1>7. ASSUME NEW k \in 1..(x + y), NEW m \in 1..(x + y), k < m
      PROVE  c[k].window <= c[m].window
  <2>1. CASE m \in 1..x
    <3>1. k \in 1..x
      BY <1>3, <1>7, <2>1
    <3>2. a[k].window <= a[m].window
      BY <1>2, <1>3, <1>7, <2>1, <3>1 DEF InOrder
    <3> QED BY <1>5, <2>1, <3>1, <3>2
  <2>2. CASE m \notin 1..x
    <3>1. c[m].window = w
      BY <1>6, <2>2
    <3>2. CASE k \in 1..x
      <4>1. c[k].window = a[k].window /\ a[k].window < w /\ a[k].window \in Int
        BY <1>4, <1>5, <3>2
      <4>2. w \in Int
        BY <1>1
      <4> QED BY <3>1, <4>1, <4>2
    <3>3. CASE k \notin 1..x
      <4>1. c[k].window = w /\ w \in Int
        BY <1>1, <1>6, <3>3
      <4> QED BY <3>1, <4>1
    <3> QED BY <3>2, <3>3
  <2> QED BY <2>1, <2>2
<1>8. InOrder(c)
  BY <1>3, <1>7 DEF InOrder
<1> QED BY <1>8 DEF c

LEMMA CommitAudit ==
  ASSUME AuditInv, NEW p \in Scanners, CommitScan(p)
  PROVE  AuditMatchesHistory'
<1> DEFINE t == tx[p]
           n(j) == Observation(j, t.window, t.evidence[j.cohort])
<1>1. observations' = observations \cup {n(j) : j \in t.rows}
  BY DEF CommitScan, AuditInv, HistoryInv, BookInv, Bookkept, Kept
<1>2. scans' = scans \cup {FinalSummary(p)} /\ FinalSummary(p).window = t.window
  BY DEF CommitScan, FinalSummary, Summary
<1>3. ASSUME NEW o \in observations' PROVE Told(audit', o)
  <2>1. CASE o \in observations
    BY <2>1, OldTold
  <2>2. CASE o \notin observations
    <3>1. PICK j \in t.rows : o = n(j)
      BY <1>1, <2>2
    <3> QED BY <3>1, NewTold
  <2> QED BY <2>1, <2>2
<1>4. ASSUME NEW i \in incidents', NEW v \in {s.window : s \in scans'} PROVE ResolvedOnce(audit', i, v)
  <2>1. v = t.window \/ \E s \in scans : v = s.window
    BY <1>2
  <2> QED BY <2>1, RowResolvedOnce
<1>5. \A r \in Trail(audit') : Backed(r, observations')
  BY CommitBacked
<1>6. InOrder(audit')
  BY CommitInOrder
<1>7. Audited(audit', observations', incidents', scans')
  BY <1>3, <1>4, <1>5, <1>6 DEF Audited
<1> QED BY <1>7, AuditedIs

LEMMA NextAuditInv == AuditInv /\ [Next]_vars => AuditInv'
<1> SUFFICES ASSUME AuditInv, [Next]_vars PROVE AuditInv'
  OBVIOUS
<1>1. HistoryInv' /\ DistinctInv'
  BY NextHistoryInv, NextDistinct DEF AuditInv, HistoryInv
<1>2. CASE \A p \in Scanners : ~CommitScan(p)
  <2>1. UNCHANGED db
    BY <1>2, OnlyCommits
  <2>2. AuditMatchesHistory'
    BY <2>1, AuditedIs DEF AuditInv, db
  <2> QED BY <1>1, <2>2 DEF AuditInv
<1>3. ASSUME NEW p \in Scanners, CommitScan(p) PROVE AuditInv'
  BY <1>1, <1>3, CommitAudit DEF AuditInv
<1> QED BY <1>2, <1>3

LEMMA InitAuditInv == Init => AuditInv
<1> SUFFICES ASSUME Init PROVE AuditInv
  OBVIOUS
<1>1. HistoryInv
  BY InitBookInv DEF Init, HistoryInv, ObservedInv, ObservationsComplete, RowMatchesEvidence
<1>2. DistinctInv
  BY DEF Init, DistinctInv, Distinct, NoTx, NewTx
<1>3. AuditMatchesHistory
  BY DEF Init, AuditMatchesHistory
<1> QED BY <1>1, <1>2, <1>3 DEF AuditInv

\* The audit trail tells the same history as the observations: one record for
\* each, of its kind and with its outcome, one more for the window that
\* resolves an incident, none without an observation, all in window order,
\* however the scans interleave, fail and are repeated (the audit rows
\* scan_merchant adds).
THEOREM AuditTellsHistory == Spec => []AuditMatchesHistory
<1>1. AuditInv => AuditMatchesHistory
  BY DEF AuditInv
<1> QED BY <1>1, InitAuditInv, NextAuditInv, PTL DEF Spec

=============================================================================
