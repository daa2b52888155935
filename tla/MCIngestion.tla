----------------------------- MODULE MCIngestion -----------------------------
EXTENDS Ingestion, TLC

CONSTANTS k, d1, d2, m1, m2

ApiEvent(m, key, d) == [source |-> API, merchant |-> m, key |-> key, digest |-> d]
WebhookEvent(m, d) == [source |-> WEBHOOK, merchant |-> m, key |-> k, digest |-> d]

\* Two merchants use the same key, one of them for two payloads; one request
\* has no key.
ApiMessages ==
  {ApiEvent(m1, k, d1), ApiEvent(m1, k, d2), ApiEvent(m2, k, d1), ApiEvent(m1, NoKey, d1)}

\* One provider event is delivered with two payloads for two merchants.
WebhookMessages == {WebhookEvent(m1, d1), WebhookEvent(m2, d2)}

HandlerSymmetry == Permutations(Handlers)
=============================================================================
