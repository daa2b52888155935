---------------------------- MODULE EventIdentity ----------------------------
(***************************************************************************)
(* What makes two payment events the same event, and the audit records of  *)
(* ingestion.  An event is reduced to its source, its merchant, the key    *)
(* its sender named it by and the digest of its canonical payload.         *)
(***************************************************************************)

API == "normalized_api"
WEBHOOK == "razorpay_webhook"

\* The unique constraints of payment_events: a key is unique per source and
\* merchant, and for webhooks per source alone.
Collide(e, f) ==
  /\ e.source = f.source
  /\ e.key = f.key
  /\ e.merchant = f.merchant \/ e.source = WEBHOOK

\* Mutant: the API searches the webhook's scope.
ProviderScope(e) == "provider"

\* The scope each entry point looks an existing event up in.
Scope(e) == IF e.source = API THEN "merchant" ELSE "provider"

\* The row add_if_absent selects once its insert has done nothing.
Names(e, row) ==
  /\ row.source = e.source
  /\ row.key = e.key
  /\ Scope(e) = "merchant" => row.merchant = e.merchant

Ingested(e) ==
  [type |-> "payment_event.ingested", event |-> e, incoming |-> e.digest]

\* Mutant: the record names the stored payload as the incoming one.
ConflictAuditStored(row, digest) ==
  [type |-> "payment_event.idempotency_conflict", event |-> row, incoming |-> row.digest]

ConflictAudit(row, digest) ==
  [type |-> "payment_event.idempotency_conflict", event |-> row, incoming |-> digest]
=============================================================================
