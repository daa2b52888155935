------------------------- MODULE IncidentScanProofs -------------------------
(***************************************************************************)
(* Proofs about the incident scanner, for any number of processes,         *)
(* cohorts and windows.                                                    *)
(***************************************************************************)
EXTENDS IncidentScan, FiniteSetTheorems, TLAPS

-----------------------------------------------------------------------------
(* The rows and reports the actions build have their types.                *)

NoEvidence == [c \in {} |-> AbsentDetection]

\* A function of detections over any set of cohorts is evidence.
LEMMA EvidenceType ==
  ASSUME NEW C \in SUBSET Cohorts, NEW f \in [C -> Detections]
  PROVE  f \in Evidences
  <1>1. [C -> Detections] \in {[D -> Detections] : D \in SUBSET Cohorts}
    OBVIOUS
  <1>2. QED
    BY <1>1 DEF Evidences

\* A new transaction has the type of a transaction.
LEMMA NewTxType ==
  ASSUME NEW w \in Windows, NEW now \in Clocks
  PROVE  NewTx(w, now) \in Transactions
  <1>1. NoEvidence \in Evidences
    <2>1. NoEvidence \in [{} -> Detections]
      BY DEF NoEvidence
    <2>2. QED
      BY <2>1, EvidenceType
  <1>2. <<>> \in Seq(AuditRecords)
    OBVIOUS
  <1>3. QED
    BY <1>1, <1>2 DEF NewTx, Transactions, Windows, Clocks, NoEvidence

\* A report without a summary is a report.
LEMMA EmptyReportType ==
  ASSUME NEW kind \in {"none", "scanned", "replayed", "stale", "unavailable"}
  PROVE  Reported(kind, NoSummary) \in Reports
  BY DEF Reports, Reported, NoSummary, Summary, Summaries, Windows, Clocks

\* create_incident yields a row that passes the constraints.
LEMMA CreateType ==
  ASSUME NEW c \in Cohorts, NEW d \in Detections, d.outcome = "degraded",
         NEW w \in Windows, NEW now \in Clocks
  PROVE  /\ CreateIncident(c, d, w, now) \in IncidentRows
         /\ WellFormed(CreateIncident(c, d, w, now))
  <1>1. d.severity \in Severities
    BY DEF Detections, Outcomes
  <1>2. QED
    BY <1>1 DEF CreateIncident, IncidentRows, Incidents, WellFormed, Chronological,
       Windows, Clocks, Severities, Rank, Outcomes, NotResolved

\* advance_incident turns an open row that passes the constraints into one
\* that passes them, if the chronology constraint does.
LEMMA AdvanceType ==
  ASSUME NEW i \in IncidentRows, WellFormed(i), NEW d \in Detections,
         NEW w \in Windows, NEW now \in Clocks, CanAdvance(i, w)
  PROVE  LET j == AdvanceIncident(i, d, w, now)
         IN  /\ j \in IncidentRows
             /\ SameIncident(i, j)
             /\ j.last = w
             /\ Chronological(j) => WellFormed(j)
  <1>1. i.streak \in {0, 1}
    BY DEF WellFormed, IncidentRows, Incidents, CanAdvance
  <1>2. Streak(i, d, w) \in 0..2 /\ (Streak(i, d, w) > 0 <=> d.outcome = "healthy")
    BY <1>1 DEF Streak
  <1>3. Peak(i, d) \in Severities /\ Rank[i.peak] <= Rank[Peak(i, d)]
    BY DEF Peak, IncidentRows, Incidents, Detections, Severities, Rank, Outcomes, NoSeverity
  <1>4. d.outcome \in Outcomes
    BY DEF Detections, Outcomes
  <1>5. AdvanceIncident(i, d, w, now) \in IncidentRows
    BY <1>2, <1>3, <1>4 DEF AdvanceIncident, IncidentRows, Incidents
  <1>6. QED
    BY <1>2, <1>3, <1>4, <1>5 DEF AdvanceIncident, IncidentRows, Incidents, WellFormed, CanAdvance,
       SameIncident, Windows, Clocks, NotResolved, Severities, Rank

-----------------------------------------------------------------------------
(* Type correctness, with the CHECK constraints as the part that makes it  *)
(* inductive: an open row's streak is at most one, so it advances to two;  *)
(* and the cohorts still to be recorded all have evidence.                 *)

TxInv(t) ==
  /\ \A i \in t.open \cup t.rows : WellFormed(i)
  /\ t.todo \subseteq DOMAIN t.evidence

RowsInv ==
  /\ \A i \in incidents : WellFormed(i)
  /\ \A p \in Scanners : TxInv(tx[p])

TypeInv == TypeOK /\ RowsInv

\* The initial state is well typed and has no rows.
LEMMA InitTypeInv == Init => TypeInv
  <1>1. NoTx \in Transactions
    BY NewTxType DEF NoTx, Windows, Clocks
  <1>2. Reported("none", NoSummary) \in Reports
    BY EmptyReportType
  <1>3. TxInv(NoTx)
    BY DEF NoTx, NewTx, TxInv
  <1>4. QED
    BY <1>1, <1>2, <1>3, TimeAssumption DEF Init, TypeInv, TypeOK, RowsInv, Clocks

\* A step that changes one transaction's private state keeps the types.
LEMMA PrivateStep ==
  ASSUME TypeInv, NEW p \in Scanners, NEW t \in Transactions,
         TxInv(t),
         tx' = [tx EXCEPT ![p] = t],
         pc' \in [Scanners -> InTransaction \cup {"idle", "waiting"}],
         result' \in [Scanners -> Reports],
         UNCHANGED <<clock, lock, db>>
  PROVE  TypeInv'
  BY DEF TypeInv, TypeOK, RowsInv, db

\* The end of a transaction keeps the types of what it resets.
LEMMA EndType ==
  ASSUME TypeInv, NEW p \in Scanners, NEW r \in Reports, EndTransaction(p, r)
  PROVE  /\ lock' \in Scanners \cup {NoScanner}
         /\ pc' \in [Scanners -> InTransaction \cup {"idle", "waiting"}]
         /\ tx' \in [Scanners -> Transactions]
         /\ result' \in [Scanners -> Reports]
         /\ \A q \in Scanners : TxInv(tx'[q])
  <1>1. NoTx \in Transactions /\ TxInv(NoTx)
    BY NewTxType DEF NoTx, NewTx, TxInv, Windows, Clocks
  <1>2. QED
    BY <1>1 DEF EndTransaction, TypeInv, TypeOK, RowsInv

\* A rollback keeps the types.
LEMMA RollbackType ==
  ASSUME TypeInv, NEW p \in Scanners,
         NEW kind \in {"none", "scanned", "replayed", "stale", "unavailable"},
         Rollback(p, kind)
  PROVE  TypeInv'
  BY EmptyReportType, EndType DEF Rollback, TypeInv, TypeOK, RowsInv, db

\* Starting a scan keeps the types: its window is a completed one.
LEMMA BeginType ==
  ASSUME TypeInv, NEW p \in Scanners, Begin(p)
  PROVE  TypeInv'
  <1>1. PICK asOf \in 0..clock :
          /\ WindowOf(asOf) >= 0
          /\ tx' = [tx EXCEPT ![p] = NewTx(WindowOf(asOf), clock)]
    BY DEF Begin
  <1>2. WindowOf(asOf) \in Windows
    BY <1>1, TimeAssumption DEF WindowOf, Windows, TypeInv, TypeOK, Clocks
  <1>3. NewTx(WindowOf(asOf), clock) \in Transactions
    BY <1>2, NewTxType DEF TypeInv, TypeOK
  <1>4. TxInv(NewTx(WindowOf(asOf), clock))
    BY DEF NewTx, TxInv
  <1>5. /\ pc' \in [Scanners -> InTransaction \cup {"idle", "waiting"}]
        /\ result' \in [Scanners -> Reports]
    BY EmptyReportType DEF Begin, TypeInv, TypeOK
  <1>6. QED
    BY <1>1, <1>3, <1>4, <1>5, PrivateStep DEF Begin

\* Reading the open incidents keeps the types.
LEMMA ReadType ==
  ASSUME TypeInv, NEW p \in Scanners, ReadOpenIncidents(p)
  PROVE  TypeInv'
  <1> DEFINE t == [tx[p] EXCEPT !.open = {i \in incidents : i.status = "open"}]
  <1>1. t \in Transactions /\ TxInv(t)
    BY DEF TypeInv, TypeOK, RowsInv, TxInv, Transactions
  <1>2. pc' \in [Scanners -> InTransaction \cup {"idle", "waiting"}]
    BY DEF ReadOpenIncidents, TypeInv, TypeOK, InTransaction
  <1>3. tx' = [tx EXCEPT ![p] = t]
    BY DEF ReadOpenIncidents
  <1>4. QED
    BY <1>1, <1>2, <1>3, PrivateStep DEF ReadOpenIncidents, TypeInv, TypeOK

\* Aggregating the evidence keeps the types.
LEMMA AggregateType ==
  ASSUME TypeInv, NEW p \in Scanners, AggregateEvidence(p)
  PROVE  TypeInv'
  <1>1. PICK seen \in SUBSET Cohorts : \E found \in [seen -> Findings] :
          tx' = [tx EXCEPT ![p] = WithEvidence(tx[p], WithAbsent(found, OpenCohorts(p)))]
    BY DEF AggregateEvidence
  <1> DEFINE all == seen \cup OpenCohorts(p)
             f(found) == WithAbsent(found, OpenCohorts(p))
  <1>2. PICK found \in [seen -> Findings] :
          tx' = [tx EXCEPT ![p] = WithEvidence(tx[p], f(found))]
    BY <1>1
  <1>3. tx[p] \in Transactions /\ TxInv(tx[p])
    BY DEF TypeInv, TypeOK, RowsInv
  <1>4. all \in SUBSET Cohorts
    BY <1>3 DEF OpenCohorts, Transactions, IncidentRows, Incidents
  <1>5. AbsentDetection \in Detections
    BY DEF AbsentDetection, Detections, Outcomes
  <1>6. f(found) \in [all -> Detections]
    BY <1>5, FindingAssumption DEF WithAbsent
  <1>7. f(found) \in Evidences /\ DOMAIN f(found) = all
    BY <1>4, <1>6, EvidenceType
  <1>8. WithEvidence(tx[p], f(found)) \in Transactions /\ TxInv(WithEvidence(tx[p], f(found)))
    <2> HIDE DEF f, all
    <2> QED BY <1>3, <1>4, <1>7 DEF Transactions, TxInv, WithEvidence
  <1>9. pc' \in [Scanners -> InTransaction \cup {"idle", "waiting"}]
    BY DEF AggregateEvidence, TypeInv, TypeOK, InTransaction
  <1>10. result' \in [Scanners -> Reports] /\ UNCHANGED <<clock, lock, db>>
    BY DEF AggregateEvidence, TypeInv, TypeOK
  <1>11. QED
    <2> HIDE DEF f
    <2> QED BY <1>2, <1>8, <1>9, <1>10, PrivateStep

\* Passing over a cohort keeps the types.
LEMMA PassOverType ==
  ASSUME TypeInv, NEW p \in Scanners, PassOver(p)
  PROVE  TypeInv'
  <1>1. PICK c \in tx[p].todo : tx' = [tx EXCEPT ![p].todo = @ \ {c}]
    BY DEF PassOver
  <1> DEFINE t == [tx[p] EXCEPT !.todo = @ \ {c}]
  <1>2. t \in Transactions /\ TxInv(t)
    BY DEF TypeInv, TypeOK, RowsInv, TxInv, Transactions
  <1>3. tx' = [tx EXCEPT ![p] = t]
    BY <1>1
  <1>4. QED
    BY <1>2, <1>3, PrivateStep DEF PassOver, TypeInv, TypeOK

\* The finding a recording transaction has for a cohort of its loop.
LEMMA FindingType ==
  ASSUME TypeInv, NEW p \in Scanners, NEW c \in DOMAIN tx[p].evidence
  PROVE  c \in Cohorts /\ tx[p].evidence[c] \in Detections
  <1>1. PICK C \in SUBSET Cohorts : tx[p].evidence \in [C -> Detections]
    <2>1. tx[p].evidence \in Evidences
      BY DEF TypeInv, TypeOK, Transactions, Evidences
    <2>2. QED
      BY <2>1 DEF Evidences
  <1>2. QED
    BY <1>1

\* An audit record of a row is an audit record.
LEMMA AuditType ==
  ASSUME NEW i \in IncidentRows, NEW w \in Windows,
         NEW type \in {"incident.opened", "incident.observation_updated", "incident.resolved"}
  PROVE  AuditRecord(type, i, w) \in AuditRecords
  BY DEF AuditRecord, AuditRecords, IncidentRows, Incidents

\* An observation of a row is an observation.
LEMMA ObservationType ==
  ASSUME NEW i \in IncidentRows, NEW w \in Windows, NEW d \in Detections
  PROVE  Observation(i, w, d) \in Observations
  BY DEF Observation, Observations, IncidentRows, Incidents, Detections, Outcomes

\* Counting keeps a transaction well typed.
LEMMA CountType ==
  ASSUME NEW t \in Transactions, TxInv(t), NEW i
  PROVE  /\ CountOpened(t) \in Transactions /\ TxInv(CountOpened(t))
         /\ CountUpdated(t, i) \in Transactions /\ TxInv(CountUpdated(t, i))
  <1>1. CountOpened(t) \in Transactions /\ TxInv(CountOpened(t))
    BY DEF CountOpened, Transactions, TxInv
  <1>2. CountUpdated(t, i) \in Transactions /\ TxInv(CountUpdated(t, i))
    <2> DEFINE n == IF i.status = "resolved" THEN 1 ELSE 0
    <2>1. n \in Nat
      OBVIOUS
    <2>2. CountUpdated(t, i) = [t EXCEPT !.updated = @ + 1, !.resolved = @ + n]
      BY DEF CountUpdated
    <2> HIDE DEF n
    <2>3. t.updated + 1 \in Nat /\ t.resolved + n \in Nat
      BY <2>1 DEF Transactions
    <2>4. CountUpdated(t, i) \in Transactions
      BY <2>2, <2>3 DEF Transactions
    <2>5. QED
      BY <2>2, <2>4 DEF Transactions, TxInv
  <1>3. QED
    BY <1>1, <1>2

\* A recorded row, observation and audit leave a transaction well typed.
LEMMA RecordType ==
  ASSUME NEW t \in Transactions, TxInv(t), NEW i \in IncidentRows, WellFormed(i),
         NEW d \in Detections, NEW records \in Seq(AuditRecords)
  PROVE  LET r == Record(t, i, d, records)
         IN  /\ r \in Transactions /\ TxInv(r)
             /\ CountOpened(r) \in Transactions /\ TxInv(CountOpened(r))
             /\ CountUpdated(r, i) \in Transactions /\ TxInv(CountUpdated(r, i))
  <1> DEFINE r == Record(t, i, d, records)
  <1>1. Observation(i, t.window, d) \in Observations
    BY ObservationType DEF Transactions
  <1>2. t.audit \o records \in Seq(AuditRecords)
    BY DEF Transactions
  <1>3. r \in Transactions /\ TxInv(r)
    BY <1>1, <1>2 DEF Record, Transactions, TxInv
  <1>4. QED
    BY <1>3, CountType

\* Opening an incident keeps the types.
LEMMA OpenType ==
  ASSUME TypeInv, NEW p \in Scanners, OpenIncident(p)
  PROVE  TypeInv'
  <1> DEFINE w == tx[p].window
             d(c) == tx[p].evidence[c]
             i(c) == CreateIncident(c, d(c), w, tx[p].now)
             records(c) == <<AuditRecord("incident.opened", i(c), w)>>
             t(c) == CountOpened(Record(tx[p], i(c), d(c), records(c)))
  <1>1. PICK c \in tx[p].todo : d(c).outcome = "degraded" /\ tx' = [tx EXCEPT ![p] = t(c)]
    BY DEF OpenIncident
  <1>2. tx[p] \in Transactions /\ TxInv(tx[p])
    BY DEF TypeInv, TypeOK, RowsInv
  <1>3. c \in Cohorts /\ d(c) \in Detections
    BY <1>2, FindingType DEF TxInv
  <1>4. w \in Windows /\ tx[p].now \in Clocks
    BY <1>2 DEF Transactions
  <1>5. i(c) \in IncidentRows /\ WellFormed(i(c))
    BY <1>1, <1>3, <1>4, CreateType
  <1>6. records(c) \in Seq(AuditRecords)
    BY <1>4, <1>5, AuditType
  <1>7. t(c) \in Transactions /\ TxInv(t(c))
    BY <1>2, <1>3, <1>5, <1>6, RecordType
  <1>8. QED
    <2> HIDE DEF t
    <2> QED BY <1>1, <1>7, PrivateStep DEF OpenIncident, TypeInv, TypeOK

\* Updating an incident keeps the types.
LEMMA UpdateType ==
  ASSUME TypeInv, NEW p \in Scanners, UpdateIncident(p)
  PROVE  TypeInv'
  <1> DEFINE w == tx[p].window
             d(i) == tx[p].evidence[i.cohort]
             j(i) == Advanced(p, i)
             t(i) == CountUpdated(Record(tx[p], j(i), d(i), UpdateAudit(j(i), w)), j(i))
  <1>1. PICK i \in tx[p].open :
          IsNextCohort(p, i.cohort) /\ UpdateAllowed(p, i) /\ tx' = [tx EXCEPT ![p] = t(i)]
    BY DEF UpdateIncident
  <1>2. tx[p] \in Transactions /\ TxInv(tx[p])
    BY DEF TypeInv, TypeOK, RowsInv
  <1>3. d(i) \in Detections
    BY <1>1, <1>2, FindingType DEF TxInv, IsNextCohort
  <1>4. w \in Windows /\ tx[p].now \in Clocks /\ i \in IncidentRows /\ WellFormed(i)
    BY <1>2 DEF Transactions, TxInv
  <1>5. j(i) \in IncidentRows /\ WellFormed(j(i))
    BY <1>1, <1>3, <1>4, AdvanceType DEF Advanced, UpdateAllowed
  <1>6. UpdateAudit(j(i), w) \in Seq(AuditRecords)
    BY <1>4, <1>5, AuditType DEF UpdateAudit
  <1>7. t(i) \in Transactions /\ TxInv(t(i))
    <2> HIDE DEF j, d, w
    <2> QED BY <1>2, <1>3, <1>5, <1>6, RecordType
  <1>8. QED
    <2> HIDE DEF t
    <2> QED BY <1>1, <1>7, PrivateStep DEF UpdateIncident, TypeInv, TypeOK

\* The summary a scan commits is a summary.
LEMMA SummaryType ==
  ASSUME TypeInv, NEW p \in Scanners
  PROVE  FinalSummary(p) \in Summaries
  <1>1. tx[p] \in Transactions
    BY DEF TypeInv, TypeOK
  <1>2. DOMAIN tx[p].evidence \subseteq Cohorts
    BY FindingType
  <1>3. Cardinality(DOMAIN tx[p].evidence) \in Nat
    BY <1>2, CohortAssumption, FS_Subset, FS_CardinalityType
  <1>4. QED
    BY <1>1, <1>3 DEF FinalSummary, Summary, Summaries, Transactions

\* Committing keeps the types: the rows of the transaction replace its
\* incidents' old ones.
LEMMA CommitType ==
  ASSUME TypeInv, NEW p \in Scanners, CommitScan(p)
  PROVE  TypeInv'
  <1>1. PICK report \in {Reported("scanned", FinalSummary(p)), Reported("unavailable", NoSummary)} :
          EndTransaction(p, report)
    BY DEF CommitScan
  <1>2. report \in Reports
    BY <1>1, SummaryType, EmptyReportType DEF Reports, Reported
  <1>3. tx[p] \in Transactions /\ TxInv(tx[p])
    BY DEF TypeInv, TypeOK, RowsInv
  <1>4. scans' \subseteq Summaries
    BY SummaryType DEF CommitScan, TypeInv, TypeOK
  <1>5. incidents' \subseteq IncidentRows /\ \A i \in incidents' : WellFormed(i)
    BY <1>3 DEF CommitScan, Written, TypeInv, TypeOK, RowsInv, TxInv, Transactions
  <1>6. observations' \subseteq Observations /\ audit' \in Seq(AuditRecords)
    BY <1>3 DEF CommitScan, TypeInv, TypeOK, Transactions
  <1>7. clock' \in Clocks
    BY DEF CommitScan, TypeInv, TypeOK
  <1>8. QED
    BY <1>1, <1>2, <1>4, <1>5, <1>6, <1>7, EndType DEF TypeInv, TypeOK, RowsInv

\* Replaying a stored summary keeps the types.
LEMMA ReplayType ==
  ASSUME TypeInv, NEW p \in Scanners, Replay(p)
  PROVE  TypeInv'
  <1>1. PICK s \in scans : EndTransaction(p, Reported("replayed", s))
    BY DEF Replay
  <1>2. Reported("replayed", s) \in Reports
    BY DEF Reports, Reported, TypeInv, TypeOK
  <1>3. QED
    BY <1>1, <1>2, EndType DEF Replay, TypeInv, TypeOK, RowsInv, db

\* Every step keeps the types.
LEMMA NextTypeInv == TypeInv /\ [Next]_vars => TypeInv'
  <1> SUFFICES ASSUME TypeInv, [Next]_vars PROVE TypeInv'
    OBVIOUS
  <1>1. CASE Tick
    BY <1>1 DEF Tick, TypeInv, TypeOK, RowsInv, Clocks, db
  <1>2. ASSUME NEW p \in Scanners, LockMerchant(p) PROVE TypeInv'
    BY <1>2 DEF LockMerchant, TypeInv, TypeOK, RowsInv, InTransaction, db
  <1>3. ASSUME NEW p \in Scanners, FindNothing(p) \/ ClaimScan(p) PROVE TypeInv'
    BY <1>3 DEF FindNothing, ClaimScan, TypeInv, TypeOK, RowsInv, InTransaction, db
  <1>4. ASSUME NEW p \in Scanners, RejectStale(p) \/ RefuseWrite(p) \/ Fail(p) PROVE TypeInv'
    BY <1>4, RollbackType DEF RejectStale, RefuseWrite, Fail
  <1>5. CASE UNCHANGED vars
    BY <1>5 DEF vars, TypeInv, TypeOK, RowsInv, TxInv
  <1>6. QED
    BY <1>1, <1>2, <1>3, <1>4, <1>5, BeginType, ReplayType, ReadType, AggregateType,
       PassOverType, OpenType, UpdateType, CommitType DEF Next, Advance

\* Every variable has its type and every row, committed or still private to a
\* transaction, passes the constraints of its table, in every reachable state.
THEOREM TypeCorrect == Spec => []TypeInv
  BY InitTypeInv, NextTypeInv, PTL DEF Spec

\* Every row a scan commits passes the CHECK constraints of the incidents
\* table, and every variable has its type, in every interleaving of any
\* number of scanners (services/incidents.py, incident_models.py).
THEOREM RowsPassConstraints == Spec => [](TypeOK /\ RowsWellFormed)
  <1>1. TypeInv => TypeOK /\ RowsWellFormed
    BY DEF TypeInv, RowsInv, RowsWellFormed
  <1>2. QED
    BY <1>1, TypeCorrect, PTL

\* TypeOK: whatever the interleaving of any number of scanners, each holds a
\* transaction of its own in a step it can be in, with the scans, incidents
\* and evaluations it has flushed but not committed, and the tables hold
\* nothing but such rows (services/incidents.py, scan).
THEOREM TypesKept == Spec => []TypeOK
  <1>1. TypeInv => TypeOK
    BY DEF TypeInv
  <1>2. QED
    BY <1>1, TypeCorrect, PTL

-----------------------------------------------------------------------------
(* The advisory lock serialises the transactions.                          *)

\* Every step keeps the lock's holder and the transactions in step.
LEMMA NextMutualExclusion == TypeOK /\ MutualExclusion /\ [Next]_vars => MutualExclusion'
  <1> SUFFICES ASSUME TypeOK, MutualExclusion, [Next]_vars PROVE MutualExclusion'
    OBVIOUS
  <1> USE DEF MutualExclusion, InTransaction, TypeOK
  <1>1. CASE Tick
    BY <1>1 DEF Tick
  <1>2. ASSUME NEW p \in Scanners, Begin(p) PROVE MutualExclusion'
    BY <1>2 DEF Begin
  <1>3. ASSUME NEW p \in Scanners, LockMerchant(p) PROVE MutualExclusion'
    BY <1>3, ScannerAssumption DEF LockMerchant
  <1>4. ASSUME NEW p \in Scanners, NEW r, EndTransaction(p, r) PROVE MutualExclusion'
    BY <1>4, ScannerAssumption DEF EndTransaction
  <1>5. ASSUME NEW p \in Scanners,
               \/ FindNothing(p) \/ ClaimScan(p) \/ ReadOpenIncidents(p)
               \/ AggregateEvidence(p)
        PROVE MutualExclusion'
    BY <1>5 DEF FindNothing, ClaimScan, ReadOpenIncidents, AggregateEvidence
  <1>6. ASSUME NEW p \in Scanners, PassOver(p) \/ OpenIncident(p) \/ UpdateIncident(p)
        PROVE MutualExclusion'
    BY <1>6 DEF PassOver, OpenIncident, UpdateIncident
  <1>7. ASSUME NEW p \in Scanners,
               \/ Replay(p) \/ RejectStale(p) \/ RefuseWrite(p) \/ CommitScan(p) \/ Fail(p)
        PROVE MutualExclusion'
    BY <1>4, <1>7 DEF Replay, RejectStale, RefuseWrite, CommitScan, Fail, Rollback
  <1>8. CASE UNCHANGED vars
    BY <1>8 DEF vars
  <1>9. QED
    BY <1>1, <1>2, <1>3, <1>5, <1>6, <1>7, <1>8 DEF Next, Advance

\* Exactly the lock's holder is inside its transaction.
THEOREM LockSerialises == Spec => []MutualExclusion
  <1>1. Init => MutualExclusion
    BY ScannerAssumption DEF Init, MutualExclusion, InTransaction
  <1>2. TypeInv => TypeOK
    BY DEF TypeInv
  <1>3. QED
    BY <1>1, <1>2, NextMutualExclusion, TypeCorrect, PTL DEF Spec

-----------------------------------------------------------------------------
(***************************************************************************)
(* Windows are committed in order, and the incidents of a cohort are       *)
(* disjoint.  What a transaction has read stays true while it runs,        *)
(* because only the lock's holder commits: its window is newer than every  *)
(* committed one (ClaimInv), its snapshot of the open incidents is exact   *)
(* (SnapshotInv), and the rows it has written so far are one per cohort,   *)
(* each of an incident of the snapshot or of a cohort that had none        *)
(* (ProgressInv).                                                          *)
(***************************************************************************)
ClaimInv(p) ==
  pc[p] \in {"claimed", "reading", "recording"} =>
    \A s \in scans : s.window < tx[p].window

SnapshotInv(p) ==
  pc[p] \in {"reading", "recording"} =>
    tx[p].open = {i \in incidents : i.status = "open"}

ProgressInv(p) ==
  IF pc[p] = "recording"
  THEN /\ \A j \in tx[p].rows :
            /\ j.last = tx[p].window
            /\ j.cohort \notin tx[p].todo
            /\ \/ \E i \in tx[p].open : SameIncident(i, j)
               \/ j.opening = tx[p].window /\ j.cohort \notin OpenCohorts(p)
       /\ \A j, k \in tx[p].rows : j.cohort = k.cohort => j = k
  ELSE tx[p].rows = {}

LastInv == \A i \in incidents : \E s \in scans : i.last = s.window

LedgerInv ==
  /\ TypeInv
  /\ MutualExclusion
  /\ \A p \in Scanners : ClaimInv(p) /\ SnapshotInv(p) /\ ProgressInv(p)
  /\ LastInv
  /\ IncidentsDisjoint

\* The invariant holds at first: there are no rows and no transactions.
LEMMA InitLedgerInv == Init => LedgerInv
  <1>1. Init => MutualExclusion
    BY ScannerAssumption DEF Init, MutualExclusion, InTransaction
  <1>2. QED
    BY <1>1, InitTypeInv DEF Init, LedgerInv, ClaimInv, SnapshotInv, ProgressInv, LastInv,
       IncidentsDisjoint, NoTx, NewTx

\* A step that leaves the database alone keeps the invariant if it does so
\* for the process that takes it.
LEMMA LocalStep ==
  ASSUME LedgerInv, TypeInv', MutualExclusion', NEW p \in Scanners, UNCHANGED db,
         \A q \in Scanners \ {p} : pc'[q] = pc[q] /\ tx'[q] = tx[q],
         ClaimInv(p)', SnapshotInv(p)', ProgressInv(p)'
  PROVE  LedgerInv'
  <1>1. ASSUME NEW q \in Scanners \ {p} PROVE (ClaimInv(q) /\ SnapshotInv(q) /\ ProgressInv(q))'
    BY <1>1 DEF LedgerInv, ClaimInv, SnapshotInv, ProgressInv, OpenCohorts, db
  <1>2. LastInv' /\ IncidentsDisjoint'
    BY DEF LedgerInv, LastInv, IncidentsDisjoint, db
  <1>3. QED
    BY <1>1, <1>2 DEF LedgerInv

\* Nobody but the lock's holder has anything to lose when it commits.
LEMMA OnlyHolder ==
  ASSUME MutualExclusion, NEW p \in Scanners, NEW q \in Scanners,
         pc[p] \in InTransaction, q # p
  PROVE  pc[q] \notin InTransaction
  BY DEF MutualExclusion

\* A committed row is an old one of an incident the scan did not touch, or
\* one the transaction wrote; either way the cohort's incidents are disjoint.
LEMMA WrittenDisjoint ==
  ASSUME LedgerInv, NEW p \in Scanners, pc[p] = "recording",
         NEW i \in Written(p), NEW j \in Written(p), i.cohort = j.cohort, i # j
  PROVE  \/ i.status = "resolved" /\ i.last < j.opening
         \/ j.status = "resolved" /\ j.last < i.opening
  <1> USE DEF LedgerInv
  <1>1. ASSUME NEW a \in incidents, \A r \in tx[p].rows : ~SameIncident(a, r),
               NEW b \in tx[p].rows, a.cohort = b.cohort
        PROVE  a.status = "resolved" /\ a.last < b.opening
    <2>1. CASE \E o \in tx[p].open : SameIncident(o, b)
      <3>1. PICK o \in tx[p].open : SameIncident(o, b)
        BY <2>1
      <3>2. o \in incidents /\ o.status = "open" /\ o # a /\ o.cohort = a.cohort /\ o.opening = b.opening
        BY <1>1, <3>1 DEF SnapshotInv, SameIncident
      <3>3. QED
        BY <1>1, <3>2 DEF IncidentsDisjoint
    <2>2. CASE b.opening = tx[p].window /\ b.cohort \notin OpenCohorts(p)
      <3>1. a \notin tx[p].open
        BY <1>1, <2>2 DEF OpenCohorts
      <3>2. a.status = "resolved"
        BY <1>1, <3>1 DEF SnapshotInv, TypeInv, TypeOK, IncidentRows, Incidents
      <3>3. a.last < tx[p].window
        BY <1>1 DEF LastInv, ClaimInv
      <3>4. QED
        BY <2>2, <3>2, <3>3
    <2>3. QED
      BY <1>1, <2>1, <2>2 DEF ProgressInv
  <1>2. CASE i \in tx[p].rows /\ j \in tx[p].rows
    BY <1>2 DEF ProgressInv
  <1>3. CASE i \notin tx[p].rows /\ j \in tx[p].rows
    BY <1>1, <1>3 DEF Written
  <1>4. CASE i \in tx[p].rows /\ j \notin tx[p].rows
    BY <1>1, <1>4 DEF Written
  <1>5. CASE i \notin tx[p].rows /\ j \notin tx[p].rows
    BY <1>5 DEF Written, IncidentsDisjoint
  <1>6. QED
    BY <1>2, <1>3, <1>4, <1>5

\* Writing one more row of a cohort that was still to be recorded keeps the
\* transaction's progress.
LEMMA RecordProgress ==
  ASSUME LedgerInv, NEW p \in Scanners, pc[p] = "recording", pc'[p] = pc[p],
         NEW j, j.cohort \in tx[p].todo, j.last = tx[p].window,
         \/ \E i \in tx[p].open : SameIncident(i, j)
         \/ j.opening = tx[p].window /\ j.cohort \notin OpenCohorts(p),
         tx'[p].window = tx[p].window, tx'[p].open = tx[p].open,
         tx'[p].todo = tx[p].todo \ {j.cohort},
         tx'[p].rows = tx[p].rows \cup {j}
  PROVE  ProgressInv(p)'
  BY DEF LedgerInv, ProgressInv, OpenCohorts

\* Opening an incident keeps the invariant.
LEMMA OpenLedger ==
  ASSUME LedgerInv, TypeInv', MutualExclusion', NEW p \in Scanners, OpenIncident(p)
  PROVE  LedgerInv'
  <1> DEFINE d(c) == tx[p].evidence[c]
             i(c) == CreateIncident(c, d(c), tx[p].window, tx[p].now)
             records(c) == <<AuditRecord("incident.opened", i(c), tx[p].window)>>
             t(c) == CountOpened(Record(tx[p], i(c), d(c), records(c)))
  <1>1. PICK c \in tx[p].todo : c \notin OpenCohorts(p) /\ tx' = [tx EXCEPT ![p] = t(c)]
    BY DEF OpenIncident
  <1>2. tx \in [Scanners -> Transactions]
    BY DEF LedgerInv, TypeInv, TypeOK
  <1>3. /\ t(c).window = tx[p].window /\ t(c).open = tx[p].open
        /\ t(c).todo = tx[p].todo \ {c} /\ t(c).rows = tx[p].rows \cup {i(c)}
    BY <1>2 DEF CountOpened, Record, Transactions, CreateIncident
  <1>4. i(c).cohort = c /\ i(c).last = tx[p].window /\ i(c).opening = tx[p].window
    BY DEF CreateIncident
  <1> HIDE DEF t, i
  <1>5. pc[p] = "recording" /\ UNCHANGED <<pc, db>>
    BY DEF OpenIncident
  <1>6. ProgressInv(p)'
    BY <1>1, <1>2, <1>3, <1>4, <1>5, RecordProgress
  <1>7. ClaimInv(p)' /\ SnapshotInv(p)'
    BY <1>1, <1>2, <1>3, <1>5 DEF LedgerInv, ClaimInv, SnapshotInv, db
  <1>8. QED
    BY <1>1, <1>2, <1>5, <1>6, <1>7, LocalStep

\* Updating an incident keeps the invariant.
LEMMA UpdateLedger ==
  ASSUME LedgerInv, TypeInv', MutualExclusion', NEW p \in Scanners, UpdateIncident(p)
  PROVE  LedgerInv'
  <1> DEFINE d(i) == tx[p].evidence[i.cohort]
             j(i) == Advanced(p, i)
             t(i) == CountUpdated(Record(tx[p], j(i), d(i), UpdateAudit(j(i), tx[p].window)), j(i))
  <1>1. PICK i \in tx[p].open :
          IsNextCohort(p, i.cohort) /\ tx' = [tx EXCEPT ![p] = t(i)]
    BY DEF UpdateIncident
  <1>2. tx \in [Scanners -> Transactions]
    BY DEF LedgerInv, TypeInv, TypeOK
  <1>3. j(i).cohort = i.cohort /\ j(i).opening = i.opening /\ j(i).last = tx[p].window
    BY <1>2 DEF Advanced, AdvanceIncident, Transactions, IncidentRows, Incidents
  <1>4. /\ t(i).window = tx[p].window /\ t(i).open = tx[p].open
        /\ t(i).todo = tx[p].todo \ {j(i).cohort} /\ t(i).rows = tx[p].rows \cup {j(i)}
    <2> HIDE DEF j, d
    <2> QED BY <1>2, <1>3 DEF CountUpdated, Record, Transactions
  <1> HIDE DEF t, j
  <1>5. pc[p] = "recording" /\ UNCHANGED <<pc, db>>
    BY DEF UpdateIncident
  <1>6. ProgressInv(p)'
    BY <1>1, <1>2, <1>3, <1>4, <1>5, RecordProgress DEF IsNextCohort, SameIncident
  <1>7. ClaimInv(p)' /\ SnapshotInv(p)'
    BY <1>1, <1>2, <1>4, <1>5 DEF LedgerInv, ClaimInv, SnapshotInv, db
  <1>8. QED
    BY <1>1, <1>2, <1>5, <1>6, <1>7, LocalStep

\* Committing keeps the invariant: no other transaction is running.
LEMMA CommitLedger ==
  ASSUME LedgerInv, TypeInv', MutualExclusion', NEW p \in Scanners, CommitScan(p)
  PROVE  LedgerInv'
  <1>1. pc[p] = "recording"
    BY DEF CommitScan
  <1>2. PICK r : EndTransaction(p, r)
    BY DEF CommitScan
  <1>3. ASSUME NEW q \in Scanners PROVE (ClaimInv(q) /\ SnapshotInv(q) /\ ProgressInv(q))'
    <2>1. CASE q = p
      <3>1. pc'[p] = "idle" /\ tx'[p].rows = {}
        BY <1>2 DEF EndTransaction, LedgerInv, TypeInv, TypeOK, NoTx, NewTx
      <3>2. QED
        BY <2>1, <3>1 DEF ClaimInv, SnapshotInv, ProgressInv
    <2>2. CASE q # p
      <3>1. pc[q] \notin InTransaction
        BY <1>1, <2>2, OnlyHolder DEF LedgerInv, InTransaction
      <3>2. pc'[q] = pc[q] /\ tx'[q] = tx[q]
        BY <1>2, <2>2 DEF EndTransaction, LedgerInv, TypeInv, TypeOK
      <3>3. QED
        BY <3>1, <3>2 DEF LedgerInv, ClaimInv, SnapshotInv, ProgressInv, InTransaction
    <2>3. QED
      BY <2>1, <2>2
  <1>4. LastInv'
    <2>1. \A j \in tx[p].rows : j.last = FinalSummary(p).window
      BY <1>1 DEF LedgerInv, ProgressInv, FinalSummary, Summary
    <2>2. QED
      BY <2>1 DEF CommitScan, Written, LedgerInv, LastInv
  <1>5. IncidentsDisjoint'
    BY <1>1, WrittenDisjoint DEF CommitScan, IncidentsDisjoint
  <1>6. QED
    BY <1>3, <1>4, <1>5 DEF LedgerInv

\* The steps that write no row keep the invariant.
LEMMA OtherLedger ==
  ASSUME LedgerInv, TypeInv', MutualExclusion', NEW p \in Scanners,
         \/ Begin(p) \/ LockMerchant(p) \/ Replay(p) \/ FindNothing(p) \/ RejectStale(p)
         \/ ClaimScan(p) \/ ReadOpenIncidents(p) \/ AggregateEvidence(p) \/ PassOver(p)
         \/ RefuseWrite(p) \/ Fail(p)
  PROVE  LedgerInv'
  <1> USE DEF LedgerInv, TypeInv, TypeOK, ClaimInv, SnapshotInv, ProgressInv
  <1>1. CASE Begin(p)
    BY <1>1, LocalStep DEF Begin, NewTx
  <1>2. CASE LockMerchant(p) \/ FindNothing(p)
    BY <1>2, LocalStep DEF LockMerchant, FindNothing
  <1>3. ASSUME NEW r, EndTransaction(p, r), UNCHANGED db PROVE LedgerInv'
    BY <1>3, LocalStep DEF EndTransaction, NoTx, NewTx
  <1>4. CASE ClaimScan(p)
    <2>1. \A s \in scans : s.window < tx[p].window
      BY <1>4 DEF ClaimScan, Stale, Summaries, Transactions, Windows
    <2>2. QED
      BY <1>4, <2>1, LocalStep DEF ClaimScan, db
  <1>5. CASE ReadOpenIncidents(p)
    BY <1>5, LocalStep DEF ReadOpenIncidents, Transactions, db
  <1>6. CASE AggregateEvidence(p)
    <2>1. PICK e : tx' = [tx EXCEPT ![p] = WithEvidence(tx[p], e)]
      BY <1>6 DEF AggregateEvidence
    <2>2. tx'[p].window = tx[p].window /\ tx'[p].open = tx[p].open /\ tx'[p].rows = tx[p].rows
      BY <2>1 DEF WithEvidence, Transactions
    <2>3. QED
      BY <1>6, <2>1, <2>2, LocalStep DEF AggregateEvidence, db
  <1>7. CASE PassOver(p)
    <2>1. PICK c : tx' = [tx EXCEPT ![p].todo = @ \ {c}]
      BY <1>7 DEF PassOver
    <2>2. /\ tx'[p].window = tx[p].window /\ tx'[p].open = tx[p].open
          /\ tx'[p].rows = tx[p].rows /\ tx'[p].todo \subseteq tx[p].todo
      BY <2>1 DEF Transactions
    <2>3. QED
      BY <1>7, <2>1, <2>2, LocalStep DEF PassOver, OpenCohorts, db
  <1>8. QED
    BY <1>1, <1>2, <1>3, <1>4, <1>5, <1>6, <1>7
       DEF Replay, RejectStale, RefuseWrite, Fail, Rollback

\* Every step keeps the invariant.
LEMMA NextLedgerInv == LedgerInv /\ [Next]_vars => LedgerInv'
  <1> SUFFICES ASSUME LedgerInv, [Next]_vars PROVE LedgerInv'
    OBVIOUS
  <1>1. TypeInv' /\ MutualExclusion'
    BY NextTypeInv, NextMutualExclusion DEF LedgerInv, TypeInv
  <1>2. CASE Tick \/ UNCHANGED vars
    <2>1. UNCHANGED <<pc, tx, db>>
      BY <1>2 DEF Tick, vars, db
    <2>2. QED
      BY <1>1, <2>1 DEF LedgerInv, ClaimInv, SnapshotInv, ProgressInv, LastInv,
         IncidentsDisjoint, OpenCohorts, db
  <1>3. QED
    BY <1>1, <1>2, OtherLedger, OpenLedger, UpdateLedger, CommitLedger DEF Next, Advance

\* What the holder of the merchant's lock has read is still what the tables say,
\* and what it has written fits them, up to its commit (scan_merchant).
THEOREM LedgerCorrect == Spec => []LedgerInv
  BY InitLedgerInv, NextLedgerInv, PTL DEF Spec

\* However many scanners race, wait, fail and are repeated, no cohort ever
\* has two incidents at once: each is resolved before the next one opens
\* (services/incidents.py and the partial unique index).
THEOREM NoOverlap == Spec => []IncidentsDisjoint
  <1>1. LedgerInv => IncidentsDisjoint
    BY DEF LedgerInv
  <1>2. QED
    BY <1>1, LedgerCorrect, PTL

\* Scan windows are committed once and in order, whatever order the
\* processes asked for them in (find_scan, latest_scan and claim_scan).
THEOREM WindowsInOrder == Spec => ScansAdvance
  <1>1. LedgerInv /\ [Next]_vars =>
          [\A s \in scans' \ scans : \A t \in scans : t.window < s.window]_scans
    <2> SUFFICES ASSUME LedgerInv, [Next]_vars, scans' # scans
                 PROVE  \A s \in scans' \ scans : \A t \in scans : t.window < s.window
      OBVIOUS
    <2>1. PICK p \in Scanners : CommitScan(p)
      BY DEF Next, Advance, vars, db, Tick, Begin, LockMerchant, Replay, FindNothing, RejectStale,
         ClaimScan, ReadOpenIncidents, AggregateEvidence, PassOver, OpenIncident,
         UpdateIncident, RefuseWrite, Fail, Rollback
    <2>2. \A t \in scans : t.window < FinalSummary(p).window
      BY <2>1 DEF LedgerInv, ClaimInv, CommitScan, FinalSummary, Summary
    <2>3. QED
      BY <2>1, <2>2 DEF CommitScan
  <1>2. QED
    BY <1>1, LedgerCorrect, PTL DEF Spec, ScansAdvance
=============================================================================
