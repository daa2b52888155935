----------------------------- MODULE ScanLedger -----------------------------
(***************************************************************************)
(* What the incident scanner promises of one merchant, without processes,  *)
(* locks, transactions or failures: windows are scanned one after the      *)
(* other, each once, and a scan advances every open incident, opens one    *)
(* for every degraded cohort that has none, and leaves an observation, its *)
(* audit records and a summary that counts them, all in one step.          *)
(***************************************************************************)
EXTENDS IncidentLifecycle, FiniteSets

CONSTANTS
  Cohorts,
  Findings,      \* what the detector may report of a cohort with events
  Times          \* windows and clock readings

VARIABLES
  scans,         \* summaries of the scanned windows
  incidents,
  observations,
  trail          \* audit records

ledger == <<scans, incidents, observations, trail>>

LedgerInit ==
  scans = {} /\ incidents = {} /\ observations = {} /\ trail = {}

-----------------------------------------------------------------------------
Open == {i \in incidents : i.status = "open"}
OpenCohorts == {i.cohort : i \in Open}
Resolved(I) == {i \in I : i.status = "resolved"}

Advanced(e, w, now) == {AdvanceIncident(i, e[i.cohort], w, now) : i \in Open}

Opened(e, w, now) ==
  {CreateIncident(c, e[c], w, now) :
     c \in {b \in DOMAIN e \ OpenCohorts : e[b].outcome = "degraded"}}

Records(type, I, w) == {AuditRecord(type, i, w) : i \in I}

ScanWindow(w, now, e) ==
  LET advanced == Advanced(e, w, now)
      opened == Opened(e, w, now)
  IN /\ \A s \in scans : s.window < w
     /\ \A i \in advanced : Chronological(i)
     /\ scans' = scans \cup
          {Summary(w, now, Cardinality(DOMAIN e), Cardinality(opened),
                   Cardinality(advanced), Cardinality(Resolved(advanced)))}
     /\ incidents' = (incidents \ Open) \cup advanced \cup opened
     /\ observations' = observations \cup
          {Observation(i, w, e[i.cohort]) : i \in advanced \cup opened}
     /\ trail' = trail
          \cup Records("incident.opened", opened, w)
          \cup Records("incident.observation_updated", advanced, w)
          \cup Records("incident.resolved", Resolved(advanced), w)

\* The first conjunct follows from the second; it tells TLC at once that a step
\* of a process that leaves the tables alone is not a scan.
LedgerNext ==
  /\ scans' # scans
  /\ \E w, now \in Times, seen \in SUBSET Cohorts :
       \E found \in [seen -> Findings] :
         ScanWindow(w, now, WithAbsent(found, OpenCohorts))

LedgerSpec == LedgerInit /\ [][LedgerNext]_ledger
=============================================================================
