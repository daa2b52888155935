-------------------------- MODULE IncidentLifecycle --------------------------
(***************************************************************************)
(* The life of one incident as pure operators: what the detector may       *)
(* report, the row a first degraded window opens and the row every later   *)
(* window turns it into.  Windows are numbered: window w is the quarter of *)
(* an hour that starts w * 15 minutes after an arbitrary origin, so the    *)
(* window adjacent to w is w + 1.                                          *)
(***************************************************************************)
EXTENDS Integers

Rank == [medium |-> 0, high |-> 1, critical |-> 2]
Severities == DOMAIN Rank
NoSeverity == "none"

Outcomes == {"degraded", "healthy", "watch", "insufficient"}

\* Only a degraded outcome carries a severity.
Detections ==
  [outcome : {"degraded"}, severity : Severities]
    \cup [outcome : Outcomes \ {"degraded"}, severity : {NoSeverity}]

\* The detector's verdict on a cohort that had no event in either window.
AbsentDetection == [outcome |-> "insufficient", severity |-> NoSeverity]

NotResolved == -1

Incidents(C, W, T) ==
  [cohort : C, opening : W, openedAt : T, openingSeverity : Severities,
   peak : Severities, outcome : Outcomes, last : W, streak : 0..2,
   status : {"open", "resolved"}, resolvedAt : T \cup {NotResolved}]

\* create_incident: the row a degraded cohort without an open incident gets.
CreateIncident(c, d, w, now) ==
  [cohort |-> c, opening |-> w, openedAt |-> now, openingSeverity |-> d.severity,
   peak |-> d.severity, outcome |-> d.outcome, last |-> w, streak |-> 0,
   status |-> "open", resolvedAt |-> NotResolved]

\* The two errors advance_incident raises are the negation of this.
CanAdvance(i, w) == i.status = "open" /\ w > i.last

Adjacent(i, w) == i.outcome = "healthy" /\ i.last + 1 = w

\* Mutant: an outcome other than healthy leaves the streak alone.
StreakKept(i, d, w) ==
  CASE d.outcome # "healthy" -> i.streak
    [] d.outcome = "healthy" /\ Adjacent(i, w) -> i.streak + 1
    [] d.outcome = "healthy" /\ ~Adjacent(i, w) -> 1

Streak(i, d, w) ==
  CASE d.outcome # "healthy" -> 0
    [] d.outcome = "healthy" /\ Adjacent(i, w) -> i.streak + 1
    [] d.outcome = "healthy" /\ ~Adjacent(i, w) -> 1

Peak(i, d) ==
  IF d.severity # NoSeverity /\ Rank[d.severity] > Rank[i.peak]
  THEN d.severity ELSE i.peak

\* Mutant: the second healthy window does not resolve.
AdvanceNeverResolves(i, d, w, now) ==
  [i EXCEPT !.peak = Peak(i, d), !.outcome = d.outcome, !.last = w,
            !.streak = Streak(i, d, w)]

AdvanceIncident(i, d, w, now) ==
  LET s == Streak(i, d, w)
  IN  [i EXCEPT !.peak = Peak(i, d),
                !.outcome = d.outcome,
                !.last = w,
                !.streak = s,
                !.status = IF s = 2 THEN "resolved" ELSE "open",
                !.resolvedAt = IF s = 2 THEN now ELSE NotResolved]

\* A resolution is not recorded before the opening.
Chronological(i) == i.resolvedAt = NotResolved \/ i.resolvedAt >= i.openedAt

\* The CHECK constraints of the incidents table.
WellFormed(i) ==
  /\ Rank[i.openingSeverity] <= Rank[i.peak]
  /\ i.streak > 0 <=> i.outcome = "healthy"
  /\ i.status = "resolved" <=> i.streak = 2
  /\ i.status = "resolved" <=> i.resolvedAt # NotResolved
  /\ i.opening <= i.last
  /\ Chronological(i)

SameIncident(i, j) == i.cohort = j.cohort /\ i.opening = j.opening
-----------------------------------------------------------------------------
(* What a scan leaves behind.                                              *)

Summary(w, now, evaluated, opened, updated, resolved) ==
  [window |-> w, recordedAt |-> now, evaluated |-> evaluated,
   opened |-> opened, updated |-> updated, resolved |-> resolved]

Observation(i, w, d) ==
  [cohort |-> i.cohort, opening |-> i.opening, window |-> w,
   outcome |-> d.outcome, severity |-> d.severity]

AuditRecord(type, i, w) ==
  [type |-> type, cohort |-> i.cohort, opening |-> i.opening, window |-> w,
   outcome |-> i.outcome, streak |-> i.streak]

\* The detector's verdicts on the cohorts with events, and absent evidence for
\* the open incidents of the cohorts without.
WithAbsent(found, open) ==
  [c \in DOMAIN found \cup open |->
     IF c \in DOMAIN found THEN found[c] ELSE AbsentDetection]
=============================================================================
