---------------------------- MODULE PlanningRules ----------------------------
(***************************************************************************)
(* The rules of diagnosis and recovery planning as pure operators: the     *)
(* evidence a payment's stored history gives, the recommendation that      *)
(* follows from it, the events a cohort observation admits, and the        *)
(* diagnosis an observation leads to.                                      *)
(*                                                                         *)
(* An event carries the cohort it belongs to (method, issuer, provider,    *)
(* their availability and the amount band), its exact amount and the       *)
(* number of the window it occurred in.                                    *)
(***************************************************************************)
EXTENDS Integers

Reviewed == {"network_timeout", "issuer_unavailable", "insufficient_funds", "incorrect_pin"}
Signals == Reviewed \cup {"unknown"}

\* candidate: only an internal label of the normalized API is a signal.
Signal(e) ==
  IF e.source = "normalized_api" /\ e.error \in Reviewed THEN e.error ELSE "unknown"

SamePayment(e, f) == e.source = f.source /\ e.payment = f.payment

SignalledFailure(e) == e.status = "failed" /\ Signal(e) # "unknown"

\* history: what all stored events of the payment say, in whatever order they
\* occurred or arrived.
History(rows, e) ==
  LET own == {r \in rows : SamePayment(r, e)}
      succeeded == \E r \in own : r.status = "success"
      failed == \E r \in own : r.status = "failed"
  IN [signal |-> Signal(e),
      success |-> succeeded,
      mixed |-> succeeded /\ failed,
      inconsistent |->
        \E r, s \in own : r.cohort # s.cohort \/ r.amount # s.amount,
      conflicting |->
        \E r, s \in own : SignalledFailure(r) /\ SignalledFailure(s) /\ r.error # s.error]

Evidence ==
  [signal : Signals, success : BOOLEAN, mixed : BOOLEAN,
   inconsistent : BOOLEAN, conflicting : BOOLEAN]

Integrity(v) == v.mixed \/ v.inconsistent \/ v.conflicting

NoDelay == -1

Advice(action, decision, reason) ==
  [action |-> action, decision |-> decision, reason |-> reason,
   delay |-> NoDelay, attempts |-> 0]

RetryAdvice(action, reason, delay) ==
  [action |-> action, decision |-> "blocked", reason |-> reason,
   delay |-> delay, attempts |-> 2]

\* What is said of a payment whose history is consistent and has no success.
BySignal ==
  [incorrect_pin |-> Advice("no_action", "no_action", "authentication_failure"),
   insufficient_funds |-> Advice("notify_customer", "manual_review", "customer_funding_action"),
   network_timeout |-> RetryAdvice("retry_now", "transient_network", 30),
   issuer_unavailable |-> RetryAdvice("wait_and_retry", "issuer_health_wait", 480),
   unknown |-> Advice("escalate", "manual_review", "unknown_signal")]

\* Mutant: the signal is looked at before the integrity of the history.
DecideBySignalFirst(v) ==
  IF v.success
  THEN Advice("no_action", "no_action", "stored_success")
  ELSE BySignal[v.signal]

\* Mutant: a payment that failed and succeeded is judged by its signal.
DecideMixedBySignal(v) ==
  IF v.mixed THEN BySignal[v.signal]
  ELSE IF v.success THEN Advice("no_action", "no_action", "stored_success")
  ELSE IF Integrity(v) THEN Advice("escalate", "manual_review", "contradictory_history")
  ELSE BySignal[v.signal]

\* decide_recovery_plan: terminal rules first.
Decide(v) ==
  IF v.success THEN Advice("no_action", "no_action", "stored_success")
  ELSE IF Integrity(v) THEN Advice("escalate", "manual_review", "contradictory_history")
  ELSE BySignal[v.signal]

Retries == {"retry_now", "wait_and_retry"}
RetryAdvised(v) == Decide(v).action \in Retries

-----------------------------------------------------------------------------
\* The predicates of _candidates: a failed event of the observed cohort in the
\* observed window.
Associated(e, o) == e.status = "failed" /\ e.cohort = o.cohort /\ e.window = o.window

Cause ==
  [network_timeout |-> "probable_transient_network_failure",
   issuer_unavailable |-> "probable_issuer_unavailability",
   insufficient_funds |-> "probable_customer_funding_issue",
   incorrect_pin |-> "probable_authentication_failure"]

\* diagnose: the loop over the ranked error counts keeps the last label that
\* has a strict majority of all failures, counted or not.
Majorities(o) ==
  {k \in DOMAIN o.errors : o.errors[k].code \in Reviewed /\ 2 * o.errors[k].count > o.failed}

Finding(outcome, reason, count) == [outcome |-> outcome, reason |-> reason, count |-> count]

Diagnose(o) ==
  IF o.outcome = "insufficient" \/ o.failed = 0
  THEN Finding("insufficient_evidence", "insufficient_failures", 0)
  ELSE IF Majorities(o) = {}
  THEN Finding("unknown", "mixed_or_unmapped_failures", 0)
  ELSE LET last == CHOOSE k \in Majorities(o) : \A j \in Majorities(o) : j <= k
       IN Finding(Cause[o.errors[last].code], "strict_majority", o.errors[last].count)
-----------------------------------------------------------------------------
(* The records planning stores.                                            *)

Diagnosis(o) == [observation |-> o, finding |-> Diagnose(o)]

Plan(o, e, v) ==
  [source |-> e.source, payment |-> e.payment, event |-> e, observation |-> o,
   evidence |-> v, advice |-> Decide(v)]

DiagnosisRecord(d) == [type |-> "incident.diagnosed", subject |-> d]
PlanRecord(q) == [type |-> "recovery_plan.created", subject |-> q]
=============================================================================
