--------------------------- MODULE SimulationWorld ---------------------------
(***************************************************************************)
(* The synthetic world of a simulation run as pure operators: what is      *)
(* delivered for a payment in each stage, when its attempts fall due, what *)
(* blocks one, and what the hidden model answers.  At the end, told        *)
(* without any runner, the attempts and the accounting a scenario leads to.*)
(*                                                                         *)
(* A payment's scenario is a record: the reported label, whether the scan  *)
(* of the outage sees its cohort, the contradicting event delivered with   *)
(* the failure (extra), a success delivered one stage later (late), a      *)
(* duplicate delivery, the visible fixture (consent, flow, status) and the *)
(* hidden one.  Times are seconds since EPOCH.                             *)
(***************************************************************************)
EXTENDS PlanningRules, FiniteSets, Sequences

Stages == -1..3
Outage == 1

StageTime(s) == ((s + 1) * 15 + 7) * 60
Cutoff(s) == StageTime(s) + 15 * 60
ReconcileSeconds == 60

\* What traffic, the scan and fixtures make of a payment.
World ==
  [label : Reviewed \cup {"UNMAPPED"}, seen : BOOLEAN, extra : {"none", "amount", "success"},
   late : BOOLEAN, duplicate : BOOLEAN,
   consent : BOOLEAN, flow : BOOLEAN, status : {"failed", "unknown"},
   restored : Nat, persistent : BOOLEAN, lost : BOOLEAN, reconcilable : BOOLEAN]

-----------------------------------------------------------------------------
(* Traffic.                                                                *)

\* Rows of the events and of the plans of a run.
Events(payments) ==
  [id : {"event", "history", "late"}, source : {"normalized_api"}, payment : payments,
   status : {"failed", "success"}, error : Reviewed \cup {"UNMAPPED", "none"},
   cohort : {"card"}, amount : {1, 2}, window : {Outage}]

Plans == [advice : {Decide(v) : v \in Evidence}, created : {StageTime(s) : s \in Stages}]

FailedEvent(p, w) ==
  [id |-> "event", source |-> "normalized_api", payment |-> p, status |-> "failed",
   error |-> w.label, cohort |-> "card", amount |-> 1, window |-> Outage]

HistoryEvent(p, w) ==
  IF w.extra = "amount"
  THEN [FailedEvent(p, w) EXCEPT !.id = "history", !.amount = 2]
  ELSE [FailedEvent(p, w) EXCEPT !.id = "history", !.status = "success", !.error = "none"]

LateEvent(p, w) ==
  [FailedEvent(p, w) EXCEPT !.id = "late", !.status = "success", !.error = "none"]

\* A stage delivers payment after payment, and each one's by occurrence and key.
Delivery(kind, rank, e) == [key |-> <<kind, e.payment, 0>>, rank |-> rank, event |-> e]

Before(d, f) ==
  \/ d.event.payment < f.event.payment
  \/ d.event.payment = f.event.payment /\ d.rank < f.rank

Deliveries(p, w, s) ==
  IF s = Outage
  THEN {Delivery("event", 2, FailedEvent(p, w))}
         \cup (IF w.duplicate THEN {Delivery("duplicate", 1, FailedEvent(p, w))} ELSE {})
         \cup (IF w.extra # "none" THEN {Delivery("history", 3, HistoryEvent(p, w))} ELSE {})
  ELSE IF s = Outage + 1 /\ w.late THEN {Delivery("late", 1, LateEvent(p, w))} ELSE {}

\* Deliveries that enter a payment into the population.
Enrols(d) ==
  d.event.window = Outage /\ d.event.status = "failed" /\ d.key[1] \notin {"duplicate", "late"}

-----------------------------------------------------------------------------
(* Attempts.                                                               *)

Seconds(advice) == IF advice.delay = NoDelay THEN 0 ELSE advice.delay

Outstanding == {"reserved", "uncertain"}

States(records) == {records[k].state : k \in DOMAIN records}

\* Mutant: an attempt whose outcome is unknown does not stand in the way.
EligibilityAfterUncertain(plan, history, w, records, now) ==
  LET current == Decide(history)
      least == IF Seconds(plan.advice) > Seconds(current)
               THEN Seconds(plan.advice) ELSE Seconds(current)
      due == IF records = <<>> THEN plan.created + least
             ELSE records[Len(records)].at + 2 * least
  IN IF history.success THEN "stored_success"
     ELSE IF Integrity(history) THEN "integrity"
     ELSE IF plan.advice.action \notin Retries \/ current.action \notin Retries
     THEN "terminal_or_unknown"
     ELSE IF ~w.consent THEN "missing_consent"
     ELSE IF ~w.flow THEN "unsupported_flow"
     ELSE IF w.status # "failed" THEN "unresolved_status"
     ELSE IF "succeeded" \in States(records) THEN "simulated_success"
     ELSE IF Len(records) >= 2 THEN "attempt_limit"
     ELSE IF now < due THEN "backoff"
     ELSE "eligible"

\* eligibility: the first blocker in this order.
Eligibility(plan, history, w, records, now) ==
  LET current == Decide(history)
      least == IF Seconds(plan.advice) > Seconds(current)
               THEN Seconds(plan.advice) ELSE Seconds(current)
      due == IF records = <<>> THEN plan.created + least
             ELSE records[Len(records)].at + 2 * least
  IN IF history.success THEN "stored_success"
     ELSE IF Integrity(history) THEN "integrity"
     ELSE IF plan.advice.action \notin Retries \/ current.action \notin Retries
     THEN "terminal_or_unknown"
     ELSE IF ~w.consent THEN "missing_consent"
     ELSE IF ~w.flow THEN "unsupported_flow"
     ELSE IF w.status # "failed" THEN "unresolved_status"
     ELSE IF "succeeded" \in States(records) THEN "simulated_success"
     ELSE IF States(records) \cap Outstanding # {} THEN "outstanding_attempt"
     ELSE IF \E most \in {2, plan.advice.attempts, current.attempts} : Len(records) >= most
     THEN "attempt_limit"
     ELSE IF now < due THEN "backoff"
     ELSE "eligible"

\* model: the truth of an attempt depends on when it was reserved only.
Truth(w, at) == IF ~w.persistent /\ at >= w.restored THEN "succeeded" ELSE "failed"
Observed(w, at) == IF w.lost THEN "uncertain" ELSE Truth(w, at)

Classify(amounts, success, recovered) ==
  IF amounts # 1 THEN "excluded"
  ELSE IF success THEN "already_successful"
  ELSE IF recovered THEN "simulated_recovered" ELSE "unresolved"

-----------------------------------------------------------------------------
(* What a scenario leads to (docs/simulation.md).                          *)

ExpectedReason(w) ==
  IF ~w.seen THEN "unplanned"
  ELSE IF w.extra = "success" THEN "stored_success"
  ELSE IF w.extra = "amount" THEN "integrity"
  ELSE IF w.label \notin {"network_timeout", "issuer_unavailable"} THEN "terminal_or_unknown"
  ELSE IF ~w.consent THEN "missing_consent"
  ELSE IF ~w.flow THEN "unsupported_flow"
  ELSE IF w.status # "failed" THEN "unresolved_status"
  ELSE "eligible"

ExpectedAttempt(w, at) ==
  [at |-> at,
   state |-> IF w.lost /\ ~w.reconcilable THEN "uncertain" ELSE Truth(w, at),
   truth |-> Truth(w, at)]

\* The second attempt of a slow signal falls due after the late success.
ExpectedAttempts(w) ==
  LET wait == IF w.label = "network_timeout" THEN 30 ELSE 480
      first == ExpectedAttempt(w, StageTime(Outage) + wait)
      second == ExpectedAttempt(w, first.at + 2 * wait)
      overtaken == w.late /\ second.at + ReconcileSeconds > Cutoff(Outage)
  IN IF ExpectedReason(w) # "eligible" THEN <<>>
     ELSE IF first.state = "failed" /\ ~overtaken THEN <<first, second>>
     ELSE <<first>>

ExpectedCategory(w) ==
  IF w.extra = "amount" THEN "excluded"
  ELSE IF w.extra = "success" \/ w.late THEN "already_successful"
  ELSE IF "succeeded" \in States(ExpectedAttempts(w)) THEN "simulated_recovered"
  ELSE "unresolved"
=============================================================================
