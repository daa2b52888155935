---------------------------- MODULE IncidentScan ----------------------------
(***************************************************************************)
(* The scanner processes of one merchant (payrecover-scan-incidents) over  *)
(* one PostgreSQL database.  Each process reads its clock, fixes a window, *)
(* queues for the merchant's advisory transaction lock, and then runs one  *)
(* transaction: replay or claim the window, read the open incidents,       *)
(* aggregate the evidence, write one cohort at a time, commit.  What a     *)
(* transaction has written is private to it (tx) until it commits; every   *)
(* read sees the rows committed at that moment (READ COMMITTED).           *)
(*                                                                         *)
(* An incident is named by its cohort and its opening window instead of    *)
(* its generated id; a scan is named by its window.                        *)
(***************************************************************************)
EXTENDS IncidentLifecycle, FiniteSets, Sequences

CONSTANTS
  Scanners,      \* the processes
  Cohorts,       \* cohort hashes, numbers so that they have a sort order
  Findings,      \* what the detector may report of a cohort with events
  WindowTicks,   \* clock ticks in an observation window
  DelayTicks,    \* clock ticks from a window's end to its completion
  MaxClock,      \* bound: the clock stops here
  NoScanner      \* the advisory lock is free

ASSUME CohortAssumption == Cohorts \subseteq Int /\ IsFiniteSet(Cohorts)
ASSUME FindingAssumption == Findings \subseteq Detections
ASSUME TimeAssumption ==
  /\ WindowTicks \in Nat \ {0}
  /\ DelayTicks \in Nat
  /\ MaxClock \in Nat
  /\ WindowTicks + DelayTicks <= MaxClock
ASSUME ScannerAssumption == NoScanner \notin Scanners

VARIABLES
  clock,         \* wall clock
  lock,          \* holder of the merchant's advisory transaction lock
  pc,            \* where each process is
  tx,            \* each process's transaction: what it read and wrote
  result,        \* what each process last reported to its caller
  scans,         \* committed scan summaries
  incidents,     \* committed incident rows
  observations,  \* committed observation rows
  audit          \* committed audit records, in commit order

db == <<scans, incidents, observations, audit>>
vars == <<clock, lock, pc, tx, result, scans, incidents, observations, audit>>

-----------------------------------------------------------------------------
Windows == Nat

\* The latest window completed at a given time.
WindowOf(t) == (t - DelayTicks) \div WindowTicks - 1

\* claim_scan inserts the summary with zero counts.
NewTx(w, now) ==
  [window |-> w, now |-> now, open |-> {}, evidence |-> [c \in {} |-> AbsentDetection], todo |-> {},
   rows |-> {}, obs |-> {}, audit |-> <<>>, opened |-> 0, updated |-> 0, resolved |-> 0]

NoTx == NewTx(0, 0)

Reported(kind, summary) == [kind |-> kind, summary |-> summary]
NoSummary == Summary(0, 0, 0, 0, 0, 0)

InTransaction == {"locked", "absent", "claimed", "reading", "recording"}

Init ==
  /\ clock = WindowTicks + DelayTicks
  /\ lock = NoScanner
  /\ pc = [p \in Scanners |-> "idle"]
  /\ tx = [p \in Scanners |-> NoTx]
  /\ result = [p \in Scanners |-> Reported("none", NoSummary)]
  /\ scans = {}
  /\ incidents = {}
  /\ observations = {}
  /\ audit = <<>>

-----------------------------------------------------------------------------
Tick ==
  /\ clock < MaxClock
  /\ clock' = clock + 1
  /\ UNCHANGED <<lock, pc, tx, result, db>>

\* The command reads the clock once, before it connects; as-of may lie in
\* the past but not in the future.
Begin(p) ==
  /\ pc[p] = "idle"
  /\ \E asOf \in 0..clock :
       /\ WindowOf(asOf) >= 0
       /\ tx' = [tx EXCEPT ![p] = NewTx(WindowOf(asOf), clock)]
  /\ pc' = [pc EXCEPT ![p] = "waiting"]
  /\ result' = [result EXCEPT ![p] = Reported("none", NoSummary)]
  /\ UNCHANGED <<clock, lock, db>>

\* Mutant: nobody waits for the lock.
LockWithoutWaiting(p) ==
  /\ pc[p] = "waiting"
  /\ lock' = p
  /\ pc' = [pc EXCEPT ![p] = "locked"]
  /\ UNCHANGED <<clock, tx, result, db>>

\* pg_advisory_xact_lock
LockMerchant(p) ==
  /\ pc[p] = "waiting"
  /\ lock = NoScanner
  /\ lock' = p
  /\ pc' = [pc EXCEPT ![p] = "locked"]
  /\ UNCHANGED <<clock, tx, result, db>>

\* Mutant: the end of a transaction leaves the lock held.
EndLocked(p, report) ==
  /\ lock' = lock
  /\ pc' = [pc EXCEPT ![p] = "idle"]
  /\ tx' = [tx EXCEPT ![p] = NoTx]
  /\ result' = [result EXCEPT ![p] = report]

\* Commit or rollback: the lock goes and so does all that was not committed.
EndTransaction(p, report) ==
  /\ lock' = IF lock = p THEN NoScanner ELSE lock
  /\ pc' = [pc EXCEPT ![p] = "idle"]
  /\ tx' = [tx EXCEPT ![p] = NoTx]
  /\ result' = [result EXCEPT ![p] = report]

\* Mutant: what a failing scan had written stays.
RollbackKeepsRows(p, kind) ==
  /\ EndTransaction(p, Reported(kind, NoSummary))
  /\ observations' = observations \cup tx[p].obs
  /\ UNCHANGED <<clock, scans, incidents, audit>>

Rollback(p, kind) ==
  /\ EndTransaction(p, Reported(kind, NoSummary))
  /\ UNCHANGED <<clock, db>>

\* find_scan: the window was scanned before; its stored summary is returned.
Replay(p) ==
  /\ pc[p] = "locked"
  /\ \E s \in scans :
       /\ s.window = tx[p].window
       /\ EndTransaction(p, Reported("replayed", s))
  /\ UNCHANGED <<clock, db>>

FindNothing(p) ==
  /\ pc[p] = "locked"
  /\ \A s \in scans : s.window # tx[p].window
  /\ pc' = [pc EXCEPT ![p] = "absent"]
  /\ UNCHANGED <<clock, lock, tx, result, db>>

\* latest_scan: an unseen window older than the latest committed one.
Stale(p) == \E s \in scans : tx[p].window < s.window

RejectStale(p) ==
  /\ pc[p] = "absent"
  /\ Stale(p)
  /\ Rollback(p, "stale")

\* claim_scan inserts the window's row: uq_scan_merchant_detector_window.
ClaimScan(p) ==
  /\ pc[p] = "absent"
  /\ ~Stale(p)
  /\ \A s \in scans : s.window # tx[p].window
  /\ pc' = [pc EXCEPT ![p] = "claimed"]
  /\ UNCHANGED <<clock, lock, tx, result, db>>

ReadOpenIncidents(p) ==
  /\ pc[p] = "claimed"
  /\ tx' = [tx EXCEPT ![p].open = {i \in incidents : i.status = "open"}]
  /\ pc' = [pc EXCEPT ![p] = "reading"]
  /\ UNCHANGED <<clock, lock, result, db>>

OpenCohorts(p) == {i.cohort : i \in tx[p].open}

WithEvidence(t, e) == [t EXCEPT !.evidence = e, !.todo = DOMAIN e]

\* The aggregation finds events of any cohorts; ingestion never takes the
\* lock, so the evidence of a window may differ from one attempt to the next.
\* An open incident whose cohort has none gets absent evidence.
AggregateEvidence(p) ==
  /\ pc[p] = "reading"
  /\ \E seen \in SUBSET Cohorts : \E found \in [seen -> Findings] :
       tx' = [tx EXCEPT ![p] = WithEvidence(tx[p], WithAbsent(found, OpenCohorts(p)))]
  /\ pc' = [pc EXCEPT ![p] = "recording"]
  /\ UNCHANGED <<clock, lock, result, db>>

-----------------------------------------------------------------------------
(* The loop over sorted(evidence).                                         *)

IsNextCohort(p, c) == c \in tx[p].todo /\ \A e \in tx[p].todo : c <= e

\* Mutant: an open incident's cohort is passed over too.
PassOverOpen(p) ==
  /\ pc[p] = "recording"
  /\ \E c \in tx[p].todo :
       /\ IsNextCohort(p, c)
       /\ tx[p].evidence[c].outcome # "degraded"
       /\ tx' = [tx EXCEPT ![p].todo = @ \ {c}]
  /\ UNCHANGED <<clock, lock, pc, result, db>>

PassOver(p) ==
  /\ pc[p] = "recording"
  /\ \E c \in tx[p].todo :
       /\ IsNextCohort(p, c)
       /\ c \notin OpenCohorts(p)
       /\ tx[p].evidence[c].outcome # "degraded"
       /\ tx' = [tx EXCEPT ![p].todo = @ \ {c}]
  /\ UNCHANGED <<clock, lock, pc, result, db>>

\* A cohort's turn writes the incident's row, its observation and its audit
\* records; the summary counts what happened.
Record(t, i, d, records) ==
  [t EXCEPT !.todo = @ \ {i.cohort},
            !.rows = @ \cup {i},
            !.obs = @ \cup {Observation(i, t.window, d)},
            !.audit = @ \o records]

CountOpened(t) == [t EXCEPT !.opened = @ + 1]
CountUpdated(t, i) ==
  [t EXCEPT !.updated = @ + 1,
            !.resolved = @ + IF i.status = "resolved" THEN 1 ELSE 0]

\* The partial unique index uq_incident_open_cohort.
CohortFree(c) == \A i \in incidents : i.cohort = c => i.status # "open"

OpenIncident(p) ==
  /\ pc[p] = "recording"
  /\ \E c \in tx[p].todo :
       LET d == tx[p].evidence[c]
           i == CreateIncident(c, d, tx[p].window, tx[p].now)
           records == <<AuditRecord("incident.opened", i, tx[p].window)>>
       IN /\ IsNextCohort(p, c)
          /\ c \notin OpenCohorts(p)
          /\ d.outcome = "degraded"
          /\ CohortFree(c)
          /\ tx' = [tx EXCEPT ![p] = CountOpened(Record(tx[p], i, d, records))]
  /\ UNCHANGED <<clock, lock, pc, result, db>>

\* update_incident locks the row, re-reads it and refuses one that is no
\* longer open or whose peak would fall; the chronology constraint refuses
\* a resolution recorded before the opening.
StoredOpen(i) == \E j \in incidents : SameIncident(i, j) /\ j.status = "open"

Advanced(p, i) == AdvanceIncident(i, tx[p].evidence[i.cohort], tx[p].window, tx[p].now)

\* Mutant: the table accepts a resolution recorded before the opening.
UpdateAllowedAnyTime(p, i) ==
  /\ CanAdvance(i, tx[p].window)
  /\ StoredOpen(i)
  /\ \A j \in incidents : SameIncident(i, j) => Rank[Advanced(p, i).peak] >= Rank[j.peak]

UpdateAllowed(p, i) ==
  /\ CanAdvance(i, tx[p].window)
  /\ StoredOpen(i)
  /\ \A j \in incidents : SameIncident(i, j) => Rank[Advanced(p, i).peak] >= Rank[j.peak]
  /\ Chronological(Advanced(p, i))

\* Mutant: a resolution leaves no record of its own.
UpdateAuditOnly(i, w) == <<AuditRecord("incident.observation_updated", i, w)>>

UpdateAudit(i, w) ==
  <<AuditRecord("incident.observation_updated", i, w)>>
    \o IF i.status = "resolved" THEN <<AuditRecord("incident.resolved", i, w)>> ELSE <<>>

UpdateIncident(p) ==
  /\ pc[p] = "recording"
  /\ \E i \in tx[p].open :
       LET d == tx[p].evidence[i.cohort]
           j == Advanced(p, i)
           records == UpdateAudit(j, tx[p].window)
       IN /\ IsNextCohort(p, i.cohort)
          /\ UpdateAllowed(p, i)
          /\ tx' = [tx EXCEPT ![p] = CountUpdated(Record(tx[p], j, d, records), j)]
  /\ UNCHANGED <<clock, lock, pc, result, db>>

\* The write a rule or a constraint refuses fails the whole scan.
RefuseWrite(p) ==
  /\ pc[p] = "recording"
  /\ \E c \in tx[p].todo :
       /\ IsNextCohort(p, c)
       /\ \/ \E i \in tx[p].open : i.cohort = c /\ ~UpdateAllowed(p, i)
          \/ c \notin OpenCohorts(p) /\ tx[p].evidence[c].outcome = "degraded" /\ ~CohortFree(c)
  /\ Rollback(p, "unavailable")

-----------------------------------------------------------------------------
FinalSummary(p) ==
  Summary(tx[p].window, tx[p].now, Cardinality(DOMAIN tx[p].evidence),
          tx[p].opened, tx[p].updated, tx[p].resolved)

Written(p) ==
  {i \in incidents : \A j \in tx[p].rows : ~SameIncident(i, j)} \cup tx[p].rows

\* finish_scan and commit; the acknowledgement of a commit that took place
\* may be lost, and the process then reports a failure.
CommitScan(p) ==
  /\ pc[p] = "recording"
  /\ tx[p].todo = {}
  /\ scans' = scans \cup {FinalSummary(p)}
  /\ incidents' = Written(p)
  /\ observations' = observations \cup tx[p].obs
  /\ audit' = audit \o tx[p].audit
  /\ \E report \in {Reported("scanned", FinalSummary(p)), Reported("unavailable", NoSummary)} :
       EndTransaction(p, report)
  /\ UNCHANGED clock

\* Any statement may fail, while waiting for the lock too, and the process
\* may die: the server rolls the transaction back and frees the lock.
Fail(p) ==
  /\ pc[p] \in InTransaction \cup {"waiting"}
  /\ Rollback(p, "unavailable")

-----------------------------------------------------------------------------
Advance(p) ==
  \/ Replay(p) \/ FindNothing(p) \/ RejectStale(p) \/ ClaimScan(p)
  \/ ReadOpenIncidents(p) \/ AggregateEvidence(p)
  \/ PassOver(p) \/ OpenIncident(p) \/ UpdateIncident(p) \/ RefuseWrite(p)
  \/ CommitScan(p)

Next ==
  \/ Tick
  \/ \E p \in Scanners : Begin(p) \/ LockMerchant(p) \/ Advance(p) \/ Fail(p)

Spec == Init /\ [][Next]_vars

\* A process inside its transaction goes on; the lock's wait queue is first
\* come, first served, so no waiter is passed over for ever.  Nothing makes
\* anybody start a scan, and nothing has to fail.
Fairness ==
  \A p \in Scanners : WF_vars(Advance(p)) /\ SF_vars(LockMerchant(p))

FairSpec == Spec /\ Fairness

-----------------------------------------------------------------------------
(***************************************************************************)
(* Properties                                                              *)
(***************************************************************************)
Clocks == Nat
Summaries ==
  [window : Windows, recordedAt : Clocks, evaluated : Nat,
   opened : Nat, updated : Nat, resolved : Nat]
IncidentRows == Incidents(Cohorts, Windows, Clocks)
Observations ==
  [cohort : Cohorts, opening : Windows, window : Windows,
   outcome : Outcomes, severity : Severities \cup {NoSeverity}]
AuditRecords ==
  [type : {"incident.opened", "incident.observation_updated", "incident.resolved"},
   cohort : Cohorts, opening : Windows, window : Windows,
   outcome : Outcomes, streak : 0..2]
Evidences == UNION {[C -> Detections] : C \in SUBSET Cohorts}
Transactions ==
  [window : Windows, now : Clocks, open : SUBSET IncidentRows,
   evidence : Evidences,
   todo : SUBSET Cohorts, rows : SUBSET IncidentRows, obs : SUBSET Observations,
   audit : Seq(AuditRecords), opened : Nat, updated : Nat, resolved : Nat]
Reports ==
  [kind : {"none", "scanned", "replayed", "stale", "unavailable"}, summary : Summaries]

\* Every variable has its type (the columns of incident_models.py).
TypeOK ==
  /\ clock \in Clocks
  /\ lock \in Scanners \cup {NoScanner}
  /\ pc \in [Scanners -> InTransaction \cup {"idle", "waiting"}]
  /\ tx \in [Scanners -> Transactions]
  /\ result \in [Scanners -> Reports]
  /\ scans \subseteq Summaries
  /\ incidents \subseteq IncidentRows
  /\ observations \subseteq Observations
  /\ audit \in Seq(AuditRecords)

ObservationsOf(i) == {o \in observations : SameIncident(o, i)}

\* No row is lost and none is invented: an incident has exactly one
\* observation for each scan committed from its opening to its resolution (or
\* to now, while it is open), whatever ran, waited, failed or was retried in
\* between (services/incidents.py: absent evidence and the loop).
ObservationsComplete ==
  \A i \in incidents :
    /\ {o.window : o \in ObservationsOf(i)}
         = {s.window : s \in {t \in scans :
             i.opening <= t.window /\ (i.status = "resolved" => t.window <= i.last)}}
    /\ \A o, q \in ObservationsOf(i) : o.window = q.window => o = q

\* The mutable incident row is what its append-only observations say: the
\* first severity, the latest outcome, the highest severity, the healthy streak,
\* and a resolution exactly when the last two observations are healthy in
\* adjacent windows; its times are those of the scans that opened and resolved
\* it (advance_incident and update_incident together).
RowMatchesEvidence ==
  \A i \in incidents :
    LET obs == ObservationsOf(i)
        Healthy(w) == \E o \in obs : o.window = w /\ o.outcome = "healthy"
    IN /\ \E o \in obs : o.window = i.opening /\ o.severity = i.openingSeverity
       /\ \A o \in obs : o.window <= i.last
       /\ \E o \in obs : o.window = i.last /\ o.outcome = i.outcome
       /\ \E o \in obs : o.severity = i.peak
       /\ \A o \in obs : o.severity # NoSeverity => Rank[o.severity] <= Rank[i.peak]
       /\ (i.status = "resolved") <=> (Healthy(i.last) /\ Healthy(i.last - 1))
       /\ (i.streak > 0) <=> Healthy(i.last)
       /\ \E s \in scans : s.window = i.opening /\ s.recordedAt = i.openedAt
       /\ i.status = "resolved" =>
            \E s \in scans : s.window = i.last /\ s.recordedAt = i.resolvedAt

\* Two incidents of one cohort never overlap: all but the latest are resolved,
\* and the next one opens in a later window than the one that resolved it.
IncidentsDisjoint ==
  \A i, j \in incidents :
    i.cohort = j.cohort /\ i # j =>
      \/ i.status = "resolved" /\ i.last < j.opening
      \/ j.status = "resolved" /\ j.last < i.opening

AuditFor(types, i, w) ==
  {k \in DOMAIN audit : audit[k].type \in types /\ SameIncident(audit[k], i) /\ audit[k].window = w}

\* The audit trail is one record for each observation, of the kind and with
\* the outcome that observation has, one more for a resolution, and no other;
\* it is in window order although failed scans are repeated.
AuditMatchesHistory ==
  /\ \A o \in observations :
       LET type == IF o.window = o.opening
                   THEN "incident.opened" ELSE "incident.observation_updated"
           own == AuditFor({"incident.opened", "incident.observation_updated"}, o, o.window)
       IN /\ Cardinality(own) = 1
          /\ \A k \in own : audit[k].type = type /\ audit[k].outcome = o.outcome
  /\ \A i \in incidents :
       \A w \in {s.window : s \in scans} :
         Cardinality(AuditFor({"incident.resolved"}, i, w))
           = IF i.status = "resolved" /\ w = i.last THEN 1 ELSE 0
  /\ \A k \in DOMAIN audit : \E o \in observations :
       SameIncident(audit[k], o) /\ audit[k].window = o.window
  /\ \A k, m \in DOMAIN audit : k < m => audit[k].window <= audit[m].window

\* Every row the scanner computes passes the CHECK constraints of its table:
\* the peak is at least the opening severity, the streak is what the outcome
\* and the status say, and a resolution is not recorded before the opening
\* although each process reads its clock before it waits for the lock.
RowsWellFormed == \A i \in incidents : WellFormed(i)

\* The advisory lock serialises the transactions: whoever is past it holds it.
MutualExclusion == \A p \in Scanners : pc[p] \in InTransaction <=> lock = p

\* Windows are committed in order and once: a scan that committed while
\* another waited makes the waiting one replay or stale.
ScansAdvance ==
  [][\A s \in scans' \ scans : \A t \in scans : t.window < s.window]_scans

\* The scanners together behave like one that takes each window in a single
\* step: no interleaving, failure or repetition shows in what is committed.
Ledger == INSTANCE ScanLedger WITH
  Times <- 0..MaxClock, trail <- {audit[k] : k \in DOMAIN audit}
ImplementsLedger == Ledger!LedgerSpec

\* A scan that was started ends: nobody waits for the lock for ever.
ScanEnds == \A p \in Scanners : (pc[p] = "waiting") ~> (pc[p] = "idle")
=============================================================================
