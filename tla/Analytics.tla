----------------------------- MODULE Analytics -----------------------------
(***************************************************************************)
(* Events of one merchant are delivered, late or in time, through the two  *)
(* entry points, while the payments of a window are aggregated by cohort   *)
(* and judged.  An analysis is a single statement, so it sees the table of *)
(* one moment; it may be of any moment up to now.  A delivery stands for   *)
(* count events that differ in nothing the aggregation looks at.           *)
(***************************************************************************)
EXTENDS EventIntake, Detector, Sequences, FiniteSetsExt

CONSTANTS
  Deliveries,            \* what is sent: a name, the entry, the message, how many, when it occurred
  CodeOrder,             \* the error codes in the order of the C collation
  Webhooks,              \* the webhooks normalization is checked for
  OBSERVATION_DURATION,  \* ticks; 15 minutes
  BASELINE_DURATION,     \* bound: ticks; seven days
  COMPLETION_DELAY,      \* ticks; 5 minutes
  Day,                   \* bound: ticks of a day
  MAX_ERROR_CODES_PER_COHORT,  \* bound: 20
  MaxTime,               \* bound: the last tick
  MaxStored,             \* bound: deliveries that are stored
  MaxReports             \* bound: analyses that are remembered

ASSUME DurationAssumption ==
  /\ OBSERVATION_DURATION \in Nat \ {0} /\ BASELINE_DURATION \in Nat \ {0}
  /\ COMPLETION_DELAY \in Nat
  /\ Day \in Nat \ {0} /\ Day % OBSERVATION_DURATION = 0
ASSUME DeliveryAssumption ==
  \A d \in Deliveries :
    /\ d.entry \in {"api", "webhook"} /\ d.count \in Nat \ {0} /\ d.occurred \in Nat
    /\ \A e \in Deliveries : d.name = e.name => d = e
\* The collation orders every code that is sent.
ASSUME CodeAssumption ==
  /\ MAX_ERROR_CODES_PER_COHORT \in Nat \ {0}
  /\ \A d \in Deliveries : d.message.error_code # None =>
       \E k \in DOMAIN CodeOrder : CodeOrder[k] = d.message.error_code
  /\ DOMAIN CodeOrder \subseteq Nat
ASSUME WebhookAssumption == \A w \in Webhooks : w.amount \in Nat \ {0}

VARIABLES
  now,      \* the clock, in ticks
  stored,   \* the deliveries in the table and whether each came late
  reports   \* history: what was analysed, on which table, and the result

vars == <<now, stored, reports>>

-----------------------------------------------------------------------------
(* Windows                                                                 *)

Window(end) ==
  [baseline_start |-> end - OBSERVATION_DURATION - BASELINE_DURATION,
   observation_start |-> end - OBSERVATION_DURATION,
   observation_end |-> end]

\* Mutant: windows are complete as soon as they have ended.
WindowAtOnce(asOf) ==
  LET midnight == (asOf \div Day) * Day
      completed == ((asOf - midnight) \div OBSERVATION_DURATION) * OBSERVATION_DURATION
  IN Window(midnight + completed)

\* calculate_analytics_window; the baseline ends where the observation starts.
AnalyticsWindow(asOf) ==
  LET effective == asOf - COMPLETION_DELAY
      midnight == (effective \div Day) * Day
      completed == ((effective - midnight) \div OBSERVATION_DURATION) * OBSERVATION_DURATION
  IN Window(midnight + completed)

\* Half-open intervals.
InBaseline(x, w) ==
  w.baseline_start <= x.occurred /\ x.occurred < w.observation_start

\* Mutant: the end belongs to the window.
ObservedToTheEnd(x, w) == w.observation_start <= x.occurred /\ x.occurred <= w.observation_end

Observed(x, w) == w.observation_start <= x.occurred /\ x.occurred < w.observation_end

-----------------------------------------------------------------------------
(* Aggregation                                                             *)

Event(d) == IF d.entry = "api" THEN FromApi(d.message) ELSE Normalize(d.message)

\* A row of the table: what the statement reads of a delivery's events.
Row(d, late) ==
  LET e == Event(d)
  IN [name |-> d.name, entry |-> d.entry, cohort |-> Cohort(e), status |-> e.status, code |-> e.code.value,
      count |-> d.count, occurred |-> d.occurred, late |-> late]

Count(rows) == MapThenSumSet(LAMBDA x : x.count, rows)
OfStatus(rows, status) == {x \in rows : x.status = status}

\* error_counts: the codes of a group's failures and how often each is there.
Codes(failures) == {x.code : x \in failures} \ {None}
ErrorCount(failures, code) == Count({x \in failures : x.code = code})

\* ranked_errors: the more frequent first, the collation decides among equals.
Place(code) == CHOOSE k \in DOMAIN CodeOrder : CodeOrder[k] = code

Before(failures, c, d) ==
  \/ ErrorCount(failures, c) > ErrorCount(failures, d)
  \/ ErrorCount(failures, c) = ErrorCount(failures, d) /\ Place(c) < Place(d)

Rank(failures, code) == 1 + Cardinality({c \in Codes(failures) : Before(failures, c, code)})

\* top_errors, in the order of their ranks.
Top(failures) == {c \in Codes(failures) : Rank(failures, c) <= MAX_ERROR_CODES_PER_COHORT}
OfRank(failures, k) == CHOOSE c \in Top(failures) : Rank(failures, c) = k

Ranked(failures) ==
  [k \in 1..Cardinality(Top(failures)) |->
     [code |-> OfRank(failures, k), count |-> ErrorCount(failures, OfRank(failures, k))]]

\* Mutant: NULL joins nothing.
JoinedByEquality(c, d) == c = d /\ c.issuer.value # None /\ c.provider.value # None

\* join_conditions: IS NOT DISTINCT FROM where a dimension may be NULL.
Joined(c, d) == c = d

\* One row of cohort_counts with the rows of top_errors that join it.
Aggregate(c, rows, w) ==
  LET baseline == {x \in rows : x.cohort = c /\ InBaseline(x, w)}
      observed == {x \in rows : x.cohort = c /\ Observed(x, w)}
      joining == {x \in rows : Joined(c, x.cohort) /\ Observed(x, w)}
  IN [cohort |-> c,
      sample |-> Sample(Count(baseline), Count(OfStatus(baseline, "success")),
                        Count(observed), Count(OfStatus(observed, "success"))),
      codes |-> Ranked(OfStatus(joining, "failed"))]

\* aggregate_for_merchant; the constructors may raise.
InSpan(rows, w) == {x \in rows : InBaseline(x, w) \/ Observed(x, w)}

Aggregates(rows, w) ==
  {Aggregate(c, InSpan(rows, w), w) : c \in {x.cohort : x \in InSpan(rows, w)}}

Accepted(a) ==
  CohortAccepted(a.cohort) /\ \A k \in DOMAIN a.codes : CodeAccepted(a.codes[k].code)

-----------------------------------------------------------------------------
\* The events that the webhooks make which are taken.
Normalized == {Normalize(w) : w \in {v \in Webhooks : WebhookVerdict(v) = "supported"}}

\* Those that can be stored, but for their amount and for NUL characters, and
\* aggregated.
Usable ==
  {e \in Normalized :
    /\ e.amount <= MaxAmount /\ ~HoldsNul(e) => Storable(e)
    /\ CohortAccepted(Cohort(e))
    /\ e.code.value # None => CodeAccepted(e.code.value)}

Init == now = 0 /\ stored = {} /\ reports = {}

Tick == now < MaxTime /\ now' = now + 1 /\ UNCHANGED <<stored, reports>>

\* Whether an entry point hands a delivery to the table.
Taken(d) ==
  IF d.entry = "api" THEN ApiValid(d.message) ELSE WebhookVerdict(d.message) = "supported"

\* The ingestion of an event, once (Ingestion); what the table refuses is
\* answered 503 and not stored.
Deliver(d) ==
  /\ Cardinality(stored) < MaxStored
  /\ Taken(d) /\ Storable(Event(d))
  /\ \A x \in stored : x.name # d.name
  /\ stored' = stored \cup {[name |-> d.name, late |-> now > d.occurred + COMPLETION_DELAY]}
  /\ UNCHANGED <<now, reports>>

Table == {Row(CHOOSE d \in Deliveries : d.name = x.name, x.late) : x \in stored}

\* analyze_payment_cohorts, and the scan that starts with it: it raises when
\* one cohort of the window is refused.
Analyse(asOf) ==
  LET w == AnalyticsWindow(asOf)
      found == Aggregates(Table, w)
      raised == \E a \in found : ~Accepted(a)
  IN /\ Cardinality(reports) < MaxReports
     /\ reports' = reports \cup
          {[window |-> w, seen |-> Table, raised |-> raised,
            cohorts |-> IF raised THEN {} ELSE found]}
     /\ UNCHANGED <<now, stored>>

Next ==
  \/ Tick
  \/ \E d \in Deliveries : Deliver(d)
  \/ \E asOf \in COMPLETION_DELAY..now : Analyse(asOf)

Spec == Init /\ [][Next]_vars

-----------------------------------------------------------------------------
(***************************************************************************)
(* Properties                                                              *)
(***************************************************************************)
\* An analysis, of whatever moment, misses no event that was stored within the
\* completion delay of its occurrence: repeated, it counts nothing new but
\* events that came late (docs/incidents.md: late arrivals).
PunctualEventsCounted ==
  \A r \in reports : \A x \in InSpan(Table, r.window) : ~x.late => x \in r.seen

\* The windows of different analyses are the same or tile the time line, so
\* that an event is observed in one window only and is baseline of the later
\* ones until it is too old for them; an analysis counts each event of its
\* span in one cohort.
EventsCountedOnce ==
  \A r \in reports :
    /\ r.raised \/
         MapThenSumSet(LAMBDA a : a.sample.bn + a.sample.on, r.cohorts)
           = Count(InSpan(r.seen, r.window))
    /\ \A q \in reports :
         r.window.observation_end < q.window.observation_end =>
           \A x \in r.seen : Observed(x, r.window) =>
             /\ ~Observed(x, q.window)
             /\ InBaseline(x, q.window) <=> x.occurred >= q.window.baseline_start

\* The error codes of a cohort's observed failures are in its distribution
\* with all their failures, unless it is full of codes that are as frequent;
\* the first of them is a most frequent one (the planner's diagnosis needs it).
CodesKept ==
  \A r \in reports : \A a \in r.cohorts :
    LET failures == {x \in OfStatus(r.seen, "failed") : x.cohort = a.cohort /\ Observed(x, r.window)}
    IN \A code \in Codes(failures) :
         /\ \/ \E k \in DOMAIN a.codes : a.codes[k] = [code |-> code, count |-> ErrorCount(failures, code)]
            \/ /\ Len(a.codes) = MAX_ERROR_CODES_PER_COHORT
               /\ \A k \in DOMAIN a.codes : a.codes[k].count >= ErrorCount(failures, code)
         /\ a.codes[1].count >= ErrorCount(failures, code)

\* One more observed failure in the place of a success, or one more baseline
\* success in the place of a failure, never softens the verdict on a cohort:
\* rounding, thresholds and score agree on the direction.
VerdictMonotone ==
  \A r \in reports : \A a \in r.cohorts :
    LET s == a.sample
        Hard(t) == Hardness[Verdict(t)]
    IN Sufficient(s) =>
         /\ \A n \in 0..(s.on - 1) :
              Hard([s EXCEPT !.os = n]) >= Hard([s EXCEPT !.os = n + 1])
         /\ \A n \in 0..(s.bn - 1) :
              Hard([s EXCEPT !.bs = n + 1]) >= Hard([s EXCEPT !.bs = n])

\* A webhook that is taken can be stored unless its amount is beyond the column
\* or a text that normalization keeps holds a NUL character, which it neither
\* strips nor refuses (such a webhook is answered 503 however often it is
\* repeated): whatever fields were blank, what normalization leaves passes the
\* CHECK constraints of the table.  And it passes the constructors of the
\* cohort, so no analysis raises because of webhooks.
NormalizedUsable ==
  /\ Normalized = Usable
  /\ \A r \in reports : r.raised => \E x \in r.seen : x.entry = "api"

\* What the table took can be aggregated: "provided dimensions require a
\* nonblank value" (CohortDimension), as the constraints of the table say.
StoredEventsAnalysable == \A r \in reports : ~r.raised
=============================================================================
