---------------------------- MODULE EventIntake ----------------------------
(***************************************************************************)
(* What becomes of a payment event between its sender and the aggregation: *)
(* the normalization of a webhook and of an API request, the CHECK         *)
(* constraints of payment_events, and what the constructors of the cohort  *)
(* accept.  A text is one of the blank ones below, one with a NUL          *)
(* character in it, or stands for a name.                                  *)
(***************************************************************************)
EXTENDS Integers, FiniteSets

CONSTANTS
  MaxAmount,   \* bound: the largest amount its column (BIGINT) holds
  None         \* NULL, an absent field

\* What str.strip() empties, and what BTRIM() does: only spaces.
PythonBlank == {"", "spaces", "tab"}
ASSUME NoneAssumption == None \notin PythonBlank
ASSUME AmountAssumption == MaxAmount \in Nat
SqlBlank == {"", "spaces"}

\* A NUL character is a character to JSON, pydantic and strip(); no text of
\* PostgreSQL can hold it, and psycopg raises.
NulTexts == {"nul"}

Dimension(value, availability) == [value |-> value, availability |-> availability]

-----------------------------------------------------------------------------
(* Webhooks                                                                *)

SUPPORTED_EVENT_TYPES == {"payment.captured", "payment.failed"}
SUPPORTED_PAYMENT_METHODS == {"card", "emi", "netbanking", "upi", "wallet"}

\* What becomes of a webhook whose signature is right: it is answered 422, or
\* 204, or stored.  "valid" says that the models of the payload accept it.
WebhookVerdict(w) ==
  IF w.event \notin SUPPORTED_EVENT_TYPES THEN "unsupported"
  ELSE IF ~w.valid THEN "malformed"
  ELSE IF w.method \notin SUPPORTED_PAYMENT_METHODS \/ w.currency # "INR" THEN "unsupported"
  ELSE IF w.status # (IF w.event = "payment.captured" THEN "captured" ELSE "failed")
       THEN "malformed"
  ELSE "supported"

\* Mutant: blank texts are taken for values.
NonblankKept(value) == value

\* _nonblank; what strip() leaves of a name stands for the same name.
Nonblank(value) == IF value \in PythonBlank THEN None ELSE value

ProvidedOrMissing(value) ==
  IF Nonblank(value) = None
  THEN Dimension(None, "missing") ELSE Dimension(Nonblank(value), "provided")

OfCard(w, field) == IF w.card THEN ProvidedOrMissing(field) ELSE Dimension(None, "missing")

\* _method_dimensions
Issuer(w) ==
  IF w.method \in {"card", "emi"} THEN OfCard(w, w.issuer)
  ELSE IF w.method = "netbanking" THEN ProvidedOrMissing(w.bank)
  ELSE Dimension(None, IF w.method = "wallet" THEN "not_applicable" ELSE "missing")

Provider(w) ==
  IF w.method \in {"card", "emi"} THEN OfCard(w, w.network)
  ELSE IF w.method = "wallet" THEN ProvidedOrMissing(w.wallet)
  ELSE Dimension(None, IF w.method = "netbanking" THEN "not_applicable" ELSE "redacted")

Failed(w) == w.event = "payment.failed"

\* normalize_webhook; the reason stands for error_source and error_step too.
Normalize(w) ==
  [method |-> w.method, issuer |-> Issuer(w), provider |-> Provider(w), amount |-> w.amount,
   status |-> IF Failed(w) THEN "failed" ELSE "success",
   code |-> IF Failed(w)
            THEN ProvidedOrMissing(w.error_code) ELSE Dimension(None, "not_applicable"),
   reason |-> IF Failed(w) THEN Nonblank(w.error_reason) ELSE None]

-----------------------------------------------------------------------------
(* API requests                                                            *)

\* PaymentEvent: no constraint on the names but that a failure has a code.
ApiValid(m) == m.amount > 0 /\ (m.status = "failed" => m.error_code \notin {None, ""})

\* ingest_payment_event
FromApi(m) ==
  [method |-> m.method, issuer |-> Dimension(m.issuer, "provided"),
   provider |-> Dimension(m.provider, "provided"), amount |-> m.amount, status |-> m.status,
   code |-> Dimension(m.error_code,
                      IF m.error_code # None THEN "provided" ELSE "not_applicable"),
   reason |-> None]

-----------------------------------------------------------------------------
(* The table                                                               *)

Stores(d) ==
  IF d.availability = "provided" THEN d.value \notin SqlBlank \cup {None} ELSE d.value = None

\* The columns of an event that hold what its sender wrote.
TextsOf(e) == {e.method, e.issuer.value, e.provider.value, e.code.value, e.reason}
HoldsNul(e) == TextsOf(e) \cap NulTexts # {}

\* The CHECK constraints of payment_events, the width of the amount and what a
\* text can hold; what they refuse is answered 503.
Storable(e) ==
  /\ e.amount \in 1..MaxAmount
  /\ ~HoldsNul(e)
  /\ Stores(e.issuer) /\ Stores(e.provider) /\ Stores(e.code)
  /\ e.code.availability \in
       (IF e.status = "failed" THEN {"provided", "missing"} ELSE {"provided", "not_applicable"})
  /\ e.method \notin SqlBlank
  /\ e.reason \notin SqlBlank

-----------------------------------------------------------------------------
(* The cohort                                                              *)

AMOUNT_BAND_UPPER_BOUNDS_PAISE == {50000, 100000, 200000, 500000, 1000000}

\* The first band whose upper bound is above the amount.
AmountBand(amount) == Cardinality({b \in AMOUNT_BAND_UPPER_BOUNDS_PAISE : b <= amount})

Cohort(e) ==
  [method |-> e.method, issuer |-> e.issuer, provider |-> e.provider,
   band |-> AmountBand(e.amount)]

\* CohortDimension
Accepts(d) ==
  IF d.availability = "provided" THEN d.value \notin PythonBlank \cup {None} ELSE d.value = None

\* PaymentCohortV2
CohortAccepted(c) == Accepts(c.issuer) /\ Accepts(c.provider) /\ c.method \notin PythonBlank

\* ErrorCodeCount
CodeAccepted(code) == code \notin PythonBlank
=============================================================================
