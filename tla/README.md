# PayRecover: TLA+ models, model checking and proofs

PayRecover ingests payment events (a normalized API and a provider webhook),
scans each merchant's completed quarter-hour windows for degraded payment
cohorts, keeps an incident history, diagnoses incidents, recommends a recovery
plan per failed payment, and simulates recovery attempts. All state is in one
PostgreSQL database, read and written by several processes.

## Inventory

| Part | State | Operations | Hard behaviour | What makes it correct |
| --- | --- | --- | --- | --- |
| Incident lifecycle (`services/incidents.py`, `incident_models.py`) | one incident row | open, advance, resolve | gaps between windows, absent evidence | the row is what its observations say |
| Incident scanner (`services/incidents.py`, `infrastructure/database/incidents.py`, `cli.py`) | scan summaries, incidents, observations, audit records; advisory lock | one scan: replay or claim a window, evidence, a write per cohort, commit | concurrent scans, waiting, failure between writes, lost commit acknowledgements, old clocks | a scan is one atomic step; no window twice or backwards; no evidence lost or rewritten |
| Ingestion (`services/ingestion.py`, `repositories.py`, `api/main.py`, `api/razorpay.py`) | payment events, audit records; connection pool | ingest by API, ingest by webhook, audit a conflict | racing inserts, redelivery, ambiguous commits, two transactions for a conflict | one audited event per name; an answer is true for good |
| Webhook verification and intake (`webhooks/razorpay.py`, `domain/models.py`, constraints of `models.py`) | none | verify, normalize, constrain | absent and blank fields of five payment methods, three places that call a text blank | what is taken can be stored and analysed |
| Analytics and detector (`domain/analytics.py`, `services/analytics.py`, `database/analytics.py`) | none | window, aggregate, detect | edges of windows and days, late events, NULL dimensions, rounding near thresholds | every punctual event counted once, in its cohort, with its code; monotone verdicts |
| Diagnosis and planning (`services/planning.py`, `database/planning.py`, `diagnosis.py`, `policy.py`) | diagnoses, plans, audit records | diagnose, plan, list candidates | repeated requests, history that ingestion changes meanwhile, failure between diagnosis and plan | one diagnosis per observation, one plan per payment and policy, evidence not older than the plan's start |
| Read model (`services/incident_reads.py`, `api/incidents.py`) | none (cursors) | list, detail | pages while scans take ids, commit and fail; four statements per answer | every row once; a coherent answer |
| Dashboard (`database/dashboard_reads.py`, `domain/dashboard.py`) | none (cursors) | scoped listings, single rows | the listings have no captured bound | as the read model, but newer rows may show |
| Simulation (`simulation/`, `database/simulation.py`) | run, steps, payments, attempts; session lock | run and resume, reserve, outcome, reconcile, report | crash between any two commits, lost run lock | at most two attempts, none after success or uncertainty, same report after any crash |
| Legacy endpoints, configuration, migrations | none | wiring, DDL | none | not modelled: stateless or pure I/O |

Interactions. Scanner, planner and simulation runner take the same advisory
transaction lock of a merchant. Ingestion never takes it: what a scan
aggregates, and the payment history a plan reads, may change between two
statements. The simulation runner calls ingestion, scanner and planner in
transactions of their own and records checkpoints in others. The read model and
the dashboard only read what scans and runs commit; the scanner starts with an
analysis and keeps its verdicts.

## Modules

| Module | Models |
| --- | --- |
| `IncidentLifecycle` | `advance_incident`, `create_incident`, the row constraints; windows are numbered and adjacent when their numbers are |
| `IncidentScan` | the scanner processes of one merchant, statement by statement |
| `ScanLedger` | the abstract promise of the scanner: a window is scanned in one step |
| `IncidentScanProofs`, `LedgerProofs` | theorems about `IncidentScan`; its refinement of `ScanLedger` and its audit trail |
| `EventIdentity` | the unique constraints and the lookup scope of payment events |
| `Ingestion` | the request handlers, statement by statement |
| `EventStore` | the abstract promise of ingestion: an event and its record are stored in one step |
| `IngestionProofs` | theorems about `Ingestion` |
| `PlanningRules` | diagnosis by strict majority, payment history, recovery policy, as pure operators |
| `Planning` | the processes that diagnose and plan for one merchant, statement by statement |
| `PlanBook` | the abstract promise of planning: an observation is diagnosed, a payment is planned, in one step |
| `PlanningProofs` | theorems about `Planning` |
| `SimulationWorld` | traffic, due times, eligibility, hidden model and accounting as pure operators; what a scenario leads to |
| `Simulation` | the coordinators of one simulation run, commit by commit |
| `AttemptBook` | the abstract promise about attempts: at most two, none while one is open, one truth |
| `SimulationProofs`, `ReportProofs` | theorems about `Simulation`: coordinators, stages and arrivals; plans, attempts and the report |
| `PageContract` | the abstract promise of paged reads: what was there at the beginning is handed out, in order, once |
| `PagedReads` | clients that page, statement by statement, and scans of several merchants that take ids and commit |
| `PagedReadsProofs` | theorems about `PagedReads` |
| `EventIntake` | normalization of webhooks and API requests, the table's constraints and the cohort's, as pure operators |
| `Detector` | degradation-v2 in decimal arithmetic of limited precision, as pure operators |
| `Analytics` | events that arrive in time or late, and analyses of any moment: window, aggregation, verdict |
| `AnalyticsProofs` | theorems about `Analytics` |
| `MCIncidentScan`, `MCIngestion`, `MCPlanning`, `MCSimulation`, `MCPagedReads`, `MCAnalytics` | values for the constants and symmetry sets |

`IncidentScan` has a process per running command. `tx[p]` is its uncommitted
transaction, `pc[p]` the statement it is at, `result[p]` what it last told its
caller. `Begin` reads the clock and fixes the window before the process queues
(`LockMerchant`); `Replay`, `FindNothing`, `RejectStale`, `ClaimScan` are the
branches of `scan_merchant` up to the claim; `ReadOpenIncidents` and
`AggregateEvidence` are its two reads; `PassOver`, `OpenIncident`,
`UpdateIncident` and `RefuseWrite` are one turn of the loop; `CommitScan`
publishes everything at once, and may report a failure although it committed;
`Fail` may strike at every statement and stands for errors, timeouts and the
death of the process alike, which all end in a rollback by the server. An
incident is named by cohort and opening window instead of its generated id,
which is legitimate because a window opens at most one incident per cohort.
The detector's verdict is an arbitrary member of `Findings` for an arbitrary
set of cohorts, so whatever ingestion does meanwhile is covered.

`Ingestion` has a process per request in progress. A row that is inserted and
not committed is visible to nobody, but an insert that collides with it waits
(`InsertWaits`), as PostgreSQL does for ON CONFLICT DO NOTHING. A handler holds
a pool connection from `Connect` to its commit or rollback; the conflict of a
webhook needs a second one, taken after the first was returned. `Fail` is any
failing statement, `CommitEvent` and `CommitConflict` may be answered 503
although they took effect, `Vanish` loses the handler or its response.
Senders may deliver any message at any time, also several times at once.
Requests refused before the database is used have no step.

`Planning` has a process per running request, which either diagnoses an
observation or plans a payment's recovery. `FindCandidate` is the joined select
of `_candidates`; `ReplayPlan`, `RefuseConflict` and `FindNoPlan` are the three
outcomes of `existing_plan`; `UseDiagnosis`, `FindNoDiagnosis` and
`AddDiagnosis` are `_diagnose`, which both requests share; `ReadHistory` reads
the payment's history in one snapshot; `AddPlan` decides, looks the candidate
up again and inserts; `Commit` publishes a diagnosis, a plan or both with their
records. `Ingest` may commit an event between any two of these statements, as
ingestion does not take the lock; `Observe` stands for a whole scan, which does
take it. The field `since` of a transaction is not in the code: it remembers
how many events were committed when the request began, and only
`EvidenceCurrent` reads it. Records are compared by content: generated ids and
times of creation are left out, as are the digests of the evidence. An event's
cohort stands for method, issuer, provider, their availability and the amount
band; its window for the interval its time of occurrence lies in.

`Simulation` has a process per command that holds, or held, the run's session
lock. `me[c]` holds the locals of `run` and `simulate`; every other variable is
stored. `Acquire`, `Start`, `Resume` begin; a stage is `Deliver`, `Register`
and `RecordDelivery` for each delivery, `Analyse`, `RecordEvaluation`,
`CloseAnalysis`, `Scan`, `Enumerate`, `PlanRecovery` and `AttachPlan` for each
candidate, `ClosePlanning`, then `simulate`: `TakeUp` or `PassOver` an ordinal,
`Reserve`, `FindReserved` or `Refuse` it, `RecordOutcome`, `Suppress` (the
injected second dispatch), `Reconcile`, `CloseDispatch`; `CloseStage` ends it.
`CountSteps`, `CountPayment` and `Finish` report. Every action is at most one
committed transaction, so `Fail`, possible at each, covers the five injected
crashes and all others, and the rollback of the transaction that would come
next. `LoseLock` breaks the lock's connection without its holder noticing, as
business transactions use others; from then on a second command may run.
`Conflict` is the refusal of a step that says something else than the recorded
one. A step is keyed by its kind, its payment or stage, and its ordinal. What
is computed from stored events without the detail mattering is represented by
the events themselves: an evaluation's data is its evidence, and another
evidence may or may not give another verdict. Ingestion, scan and planning are
single steps, as `EventStore`, `ScanLedger` and `PlanBook` promise. Three more
simplifications are of one kind: `Reserve` reads the history and commits in one
step, which nothing can tell, as the transaction locks the payment's row and a
stage is delivered before it is simulated; `RecordEvaluation` stands for one
commit for each group of cohorts; `Enumerate` for the pages of candidates, and
for the diagnosis that precedes them in a transaction of its own and that
`PlanRecovery` would make otherwise. Only the
payments that fail in the outage are followed; whether the scan sees their
cohort is part of the scenario, not computed by the detector.

`PagedReads` has a process per client and per scan. A scan takes an id from a
sequence when it inserts (`CreateIncident`, `UpdateIncident`), long before the
row commits, so that ids of different merchants commit in any order and those
of a failed scan are never seen. A client's request runs `ReadRow`,
`ReadUpper`, `ReadPage` and `ReadOpening` as separate statements, each of which
sees what has committed by then; `Respond` hands over the page and the cursor,
`Lose` loses the answer. A client may use its cursor with another page size,
offer it for another resource, or start again. `traversal` is not in the code:
it remembers what has been sent and what was there at the start. The feed
stands for the dashboard's runs, payments and steps and the planner's
candidates, whose keys are random, or names, or times: new ones appear anywhere
in the order, and no bound is captured. Which incidents a scan writes and what
it writes into them is the matter of `IncidentScan`; here every choice is
possible.

`Analytics` delivers events through either entry point: `Taken` is the check
of the request, `Storable` that of the table. `Analyse` is the aggregation
statement, which sees the table of one moment, for any moment up to now: a
command may run late. `AnalyticsWindow`, `InBaseline`, `Observed` are the
intervals, `Ranked` the ranked and cut-off error codes, `Joined` the condition
that joins them to their cohort again, `Accepted` the constructors that may
raise. A delivery stands for a number of equal events. Names of issuers,
providers and codes stand for themselves; a blank text is empty, spaces only or
white space of another kind, which is what the code's two ideas of blank tell
apart; one more text has a NUL character in it, which passes every check of a
request and which PostgreSQL cannot hold (`NulTexts`). Decimals are integers of a fixed scale: a quotient is rounded half-even
to so many significant digits, as is the difference of two; the comparison of
the score with its threshold is made exactly, on squares, where the code rounds
variance, root and quotient. A quotient below a thousandth keeps fewer digits
than in the code, which no threshold reaches. Sums of failed
amounts, and the quantized copies of rates that are stored, are left out.

Operators whose comment says "Mutant" are deliberate mistakes. They are not
used by any specification; each property is known to fail when the definition
after the mutant is replaced by it.

## Runs

| Run | Instance | Question |
| --- | --- | --- |
| `scan_races` | 2 scanners, 1 cohort, 4 findings, 3 windows, fair | do rows, observations and audit agree under every interleaving and failure, and does every started scan end |
| `scan_reopen` | 2 scanners, 1 cohort, 2 findings, 4 windows | resolve, reopen, and a resolver whose clock is behind the opening |
| `scan_cohorts` | 2 scanners, 2 cohorts, 3 windows | is a scan one atomic step although it writes cohort by cohort |
| `ingest_api` | 2 handlers, 2 merchants, shared key, a request without key, 2 failures | does a racing or repeated request find exactly the row it collides with |
| `ingest_webhook` | 3 handlers, 2 connections, one provider event with two payloads, fair | one atomic store, conflicts audited before they are acknowledged, true answers, one delivery told it was the first, and an answer for a sender that repeats its message |
| `planning_races` | 2 planners, 2 observations, 3 events of one payment that fails in both windows and succeeds late | one diagnosis, one plan, audited together, from current evidence |
| `planning_history` | 2 planners, 1 observation, one payment that fails, succeeds late and is reported with another amount, fair | is a retry advised of consistent failures only and never because of more history, are answers lasting, and does every request end |
| `simulation_crashes` | 1 coordinator, 2 payments, one in each of 112 scenarios, 2 failures, fair | does a resumed run complete, and is its result that of an uninterrupted run |
| `simulation_takeover` | 2 coordinators, 2 scenarios with a late success, the lock lost once | does stored state survive two runners at once |
| `reads` | 2 merchants, 2 scanners, 1 client, pages of 1 and 2, 2 incidents, 3 observations, 2 live rows | is a traversal complete and without repetition while ids commit out of order, and is an answer read by four statements coherent |
| `analytics` | 9 deliveries at edges of windows and of the day, one that cannot be stored, 3 of them stored, 2 analyses; every webhook with any fields missing, blank or with a NUL | is every punctual event counted once and with its code, does the verdict follow the failures, can what webhooks bring be used |
| `analytics_blank` | an API event whose issuer is a tab | violated: can every stored event be analysed |

Bounds. `MaxClock` stops the clock: three windows are the least that open and
resolve an incident, four the least in which it reopens, in which a skipped
window separates two healthy ones, or in which a resolver's clock lags behind
the opener's. `MaxFaults` and
`MaxFresh` bound failures and generated keys; `MaxTrail` stops the redelivery
of a message already answered as a conflict, each of which adds an audit
record. Two scanners suffice for every race of two transactions, as the lock
admits one at a time. Planning needs no bound on its counters: events,
observations, diagnoses and plans are finite, and a replay writes nothing.
The scenarios of `simulation_crashes` are every combination of the two retry
signals, a late success, persistence, response loss, reconcilability and three
restoration times (before the first attempt, between the two, after both of a
timeout), and each reason not to retry with and without a late success. The
other payment recovers at its second attempt, or its outcome is never known. Two
failures let a resumed runner be interrupted again at every later point.
`ReportReproduced` compares with `ExpectedAttempts` and `ExpectedReport`, which
know no runner, no steps and no stored state. `simulation_takeover` has no
further failures: a runner that lost its lock and one that took over already
race at every commit.
In `reads` one client suffices, as clients share nothing; two merchants are
needed for ids that commit out of order, three observations for an incident
whose history grows behind a captured bound while a page is open.
`Analytics` scales the program's numbers: minima of 100 and 30 events become 10
and 3, 50 digits become 5, a quarter of an hour and five minutes become 3 ticks
and 1, a day 6 ticks, the baseline's seven days one day, twenty error codes
two. Two windows then fit a day, one analysis can cross midnight, an event can
be baseline of one window and too old for the next, and three codes exceed the
distribution. Five digits decide every sample of the instance as fifty do,
except where the drop equals a threshold exactly.
Processes are symmetric and interchangeable; the fair runs use no symmetry.

Fairness. A process inside its transaction keeps going (weak fairness of its
next statement). PostgreSQL grants a lock, and the pool a connection, in the
order of waiting, so no waiter is passed over for ever (strong fairness of
`LockMerchant` of scanners and planners, and of `Connect` and
`ConnectForConflict` together, which wait for one pool). A sender repeats a message
that has no definitive answer (strong fairness of `Retry`), which is how the
provider treats a 503. Nothing obliges anybody to start a scan, and failures
are never obliged to happen. In `Ingestion` and `Simulation` they are finitely
many. A runner that is not interrupted goes on, and somebody resumes a run that
is not complete (weak fairness of both), as the documented procedure has it.

## Findings

`analytics_blank`: the API puts no constraint on the text of an issuer or
provider (`domain/models.py:34`), the table asks that
`CHAR_LENGTH(BTRIM(issuer)) > 0` (`infrastructure/database/models.py:55`), which
trims spaces only, and the cohort's constructor raises "provided dimensions
require a nonblank value" (`domain/analytics.py:71`) for whatever `str.strip()`
empties. One stored event with a tab as its issuer therefore makes every
analysis, and every scan, of its merchant fail until it is older than the
baseline. The webhook cannot store one: it strips first (`NormalizedUsable`).

Observed, without a run: a webhook with a NUL character (`\u0000`) in its bank,
wallet, issuer, network, error code or another text that is stored is valid
JSON and a valid model, `_nonblank` (`webhooks/razorpay.py:88`) keeps the
character, and PostgreSQL refuses it; the delivery is answered 503 as often as
the provider repeats it. So is one whose amount exceeds its column. These are
the two exceptions of `NormalizedUsable`; absent and blank fields, and fields of
another method, are no obstacle.

Observed, without a run: a drop of exactly 0.10 is not always "at least 0.10"
(`README.md:125`, `docs/architecture.md:55`): with 40 successes of 300 against 10
of 300 the difference of the two quotients, each rounded to fifty digits, ends
just below, and the cohort is watched instead of degraded. The deviation is in
the fiftieth digit, so a sample that differs by one event is never affected,
and the verdict still follows the failures (`VerdictMonotone`).

## Proofs

`IncidentScanProofs` proves, for every set of scanners and cohorts, every
length of window and delay and any clock bound:

* `TypeCorrect`, `TypesKept`, `RowsPassConstraints`: types, and every committed
  incident row satisfies the constraints of its table. The strengthening says the same of
  the rows that are still private to a transaction, and that what a
  transaction read as open is open.
* `LockSerialises`: being inside the transaction is holding the lock.
* `LedgerCorrect`: the inductive invariant behind the next two. Of the lock's
  holder it says that what it read as open is exactly what the table holds as
  open, that its window is later than every committed one, and that the rows
  it has written belong to cohorts whose turn is over and fit the open ones.
* `NoOverlap`: two incidents of a cohort never overlap. It is not inductive by
  itself: two open incidents are excluded only because the holder's reading is
  still current when it commits.
* `WindowsInOrder`: a committed scan is later than all before it.

`LedgerProofs` builds on that invariant, under the same assumptions:

* `ScannersImplementLedger`: `IncidentScan` implements `ScanLedger`. A commit is a
  step of the ledger, everything else a stutter. The invariant (`BookInv`) says
  what a transaction has written half way through the loop: rows, observations,
  audit records and counts of the cohorts whose turn is over (`AdvancedRows`,
  `OpenedRows`) and of no others. When no cohort is left they are those of the
  ledger's step, and the rows they replace are the open ones.
* `NoObservationLost`, `RowTellsHistory`: `ObservationsComplete` and
  `RowMatchesEvidence` of the runs, the opening of a row and its times included. Only commits matter to them by then: a row is
  advanced with the one observation it gains, opened with its first, or is
  resolved and gains none. That an observation is never of an incident about to
  open rests on windows being later than all before.
* `AuditTellsHistory`: `AuditMatchesHistory` of the runs. A transaction writes no
  record twice (`DistinctInv`), because its records are of cohorts whose turn is
  over; what a commit appends is therefore one record for each row it writes and
  one more for each it resolves, all of a window later than any record before.
  Records are matched with observations by their place in the trail, so that
  duplicates would count.

`PlanningProofs` proves, for every set of planners, events and observations:

* `TypeCorrect`: types.
* `AdviceOnlyHardens`: whatever is ingested, no advice about a payment turns
  into a retry. It rests on a lemma about the rules alone: a superset of a
  history never advises a retry when the history does not.
* `Invariance`: the inductive invariant of the rest. A process is inside its
  transaction exactly while it holds the lock; what it has found out (the
  candidate, the absence of a plan or a diagnosis, the history at some moment
  since the request) stays true while it holds it, although events keep
  arriving; and a stored plan is what the rules make of some moment's history.
* `OnePlanForPayment`, `NoInsertCollides`, `RetriesJustified`,
  `EvidenceIsCurrent`: the corresponding properties of the runs.
* `AnswersStand`: `AnswersDurable` of the runs. A process answers from what it
  finds committed or commits itself, and the tables only grow.
* `Implementation`: `Planning` implements `PlanBook` under the identity mapping.
  Every commit is one step of the book, everything else a stutter. The book
  instantiates the rules a second time, so a lemma first shows both copies equal.

They assume that the free lock is not a process, for `RetriesJustified` that an
event is a success or a failure (`PaymentStatus`), and for `AnswersStand` that
the absent value is no plan (`PlanAssumption`).

`PagedReadsProofs` proves, for every set of merchants, scans, clients, page
sizes and live rows:

* `Invariance`: the inductive invariant. Its part about the store
  (`StoreInv`) says that a scan holds its merchant's lock, that rows and
  observations point at each other, that an id belongs to one merchant, and
  that what a scan has yet to commit has a higher id than anything its merchant
  has committed (`Fresh`): ids are taken before rows commit, so without the
  lock a bound captured now could be overtaken later. From it a captured bound
  stays one (`ListBound`, `DetailBound`): no step adds an id below it. The part
  about readers (`Position`, `PageOf`) says that what a client has been sent is
  exactly what was there up to its cursor.
* `DetailIsCoherent`: `DetailCoherent` of the run.
* `PagesKeepContract`: `PagedReads` implements `PageContract`. The writers'
  steps are growth, the read of the bound (or the first page of a live listing)
  opens a traversal, the answer is a page, everything else a stutter. It rests
  on lemmas about `Lowest` (the rows of a query with ORDER BY and LIMIT): it
  takes a prefix of the order, and one row more than the page shows whether
  there is another.

They assume that page sizes and keys are positive and that the absent value is
no scanner, merchant or number.

`AnalyticsProofs` proves, for every set of deliveries and every length of
windows, days and delays (a day is a multiple of a window):

* `PunctualCounted`: `PunctualEventsCounted` of the run. The invariant behind it
  says that every reported window had ended a completion delay ago; an event
  stored afterwards that belongs to it is late.
* `CountedOnce`: `EventsCountedOnce`. The cohorts of an analysis share out the
  events of its span, so sums over cohorts are sums over events; windows end at
  multiples of their length, although they are counted from midnight, because a
  day is a multiple of it.
* `CodesRanked`: `CodesKept`. Two codes of a cohort never tie, because the
  collation orders every code; the ranks therefore have no gap, and the code at
  the cut-off is at least as frequent as any beyond it.
* `WebhooksNeverRaise`: `NormalizedUsable`, for every webhook: normalization
  leaves no text that only one of the two ideas of blank calls blank. An amount
  beyond its column, or a NUL character in a text that is kept, still makes a
  webhook impossible to store.
* `VerdictHardensWithFailures`: `VerdictMonotone`, for every sample, every
  count of failures and every precision. The quotient of a larger count is not
  smaller although the scale of its digits changes at a tenth and a hundredth,
  rounding half-even keeps order, and the sign of the difference and the
  comparison of the squares with the threshold follow.

Sums over a set of deliveries are reasoned about through the least set that
would be a counterexample, as induction over sets is not available. They assume
that deliveries have positive counts and different names, that the collation
knows every code sent, that a webhook's amount is positive, that the absent
value is not a blank text, that the minimum samples are positive, and that the
precision is a multiple of ten.

`IngestionProofs` proves, for every set of handlers, messages, merchants and
keys, any pool size and any number of failures and redeliveries:

* `TypeCorrect`: types.
* `Invariance`: the inductive invariant. Rows that are inserted and not committed
  collide neither with each other nor with committed ones, because an insert
  waits for the rows it would collide with; a generated key is nobody else's; a
  handler that looks an event up does so only after an insert that collided
  with a committed one; and every response, kept or lost, has its grounds in
  the database. Two deliveries of an event are never both told `accepted`: who
  commits the row finds its name absent, hence nobody has been told so before.
* `LookupFinds`, `RecordsExplain`, `AnswersTrue`: `LookupFindsOne`,
  `AuditExplains` and `AnswersBacked` of the runs. The first is what
  `scalar_one` relies on; it holds only because the lookup is by the very
  constraint the insert hit.
* `Implementation`: `Ingestion` implements `EventStore`. A commit is one step of
  the store even where the handler is told that it failed; a conflict's second
  transaction is another.

They assume that generated keys (numbers) are no sender's keys, and that the
absent value is no row or reply.

`SimulationProofs` and `ReportProofs` prove, for every set of coordinators,
payments and scenarios and any number of failures and lost locks, first:

* `Invariance`: the inductive invariant. Of the stores it says that attempts have
  their types and are at most two, that the truth of an attempt is known from
  its outcome on, that a payment refers to its own plan and is enrolled by its
  own event. Of a coordinator it says that the payment, the ordinal and the due
  time it holds fit what is stored. None of it mentions the run's lock: the
  attempts are safe by the transactions alone.
* `ProjectionTrue`: `ProjectionMatchesSteps`. It needs that outcomes are recorded
  with the change of the attempt they are about, and nothing else records them.
* `NeverAfterSuccess`: `NoAttemptAfterSuccess`. The reservation reads the history
  again, and enrolment has tied the payment to its own events.
* `Freezing`, `StagesFrozen`: `StageFrozen`. The invariant behind it (`FrozenInv`) ties the
  recorded steps to each other: a stage with a checkpoint was evaluated, scanned
  and delivered completely, and an event is only stored when all stages before
  its own have one. So while a stage is not yet evaluated or not yet scanned,
  nothing later can have arrived, and reading all events reads the stage's
  (`NothingLater`), also for a coordinator that lost its lock and lags behind
  another. A coordinator that comes late finds the evaluation or the scan
  already there and leaves it.
* `Implementation`: `Simulation` implements `AttemptBook`: a reservation adds an
  attempt, an outcome observes it, a reconciliation that reveals nothing is a
  stutter.

Then, layer upon layer, that a run's result is determined by its scenario. Each
layer is an invariant that is inductive together with those below it:

* `Arrivals` (`ArrivedInv`): a delivery is recorded only in its stage and after
  its event is stored; an enrolled payment is enrolled by its own failed event;
  a closed stage has delivered everything, and so has that of a coordinator that
  went on to analyse.
* `Plannings` (`PlannedInv`): every payment the outage's scan sees is planned
  once, by the history of the outage's stage, and attached before any attempt of
  it is considered. It needs `FrozenInv`: a late success must not be in the
  history that the plan reads.
* `Attempts` (`TrackedInv`): the attempts of a payment are a beginning of
  `ExpectedAttempts`, each as foreseen or on its way there. The reservation's
  verdict is that of the scenario because a stage has delivered everything
  before it simulates, and because a stage closes only when the attempts due in
  it have come to their end (`Settled`), so that a coordinator which still works
  on an older stage finds them recorded.
  What a coordinator holds (`Doing`) is bounded from both sides: payments it
  left behind need nothing more in this stage, and those it has yet to take up
  may be ahead of it, moved on by another coordinator.
* `Reports` (`ReportInv`): a run has no report or the expected one, and a
  coordinator that is counting has counted what is expected of the payments it
  passed. Evaluations, decisions and suppressions in the report are read from
  the steps, which all stages being closed pins down.
* `RunReproduced`, `ReportsKept`, `Types`: `ReportReproduced`, `ReportsFinal` and
  `TypeOK` of the runs. That at most one attempt is outstanding or succeeded
  follows from the attempts being foreseen.

They assume that payments are finitely many numbers, that scenarios give each
payment a world of the kind traffic and fixtures make (`World`), and that the
absent value is no coordinator, event or plan. The absence of a report is
`NoReport`, which the proof shows to be no report.

The assumptions of the first module are those of `IncidentScan`: cohorts are finitely many
integers (their hashes have an order), findings are detector verdicts, the
free lock is not a process. Only model-checked: the liveness properties
`ScanEnds`, `EveryoneAnswered`, `RequestsEnd` and `Completes`, which are out of
the prover's reach. Every other property of a passing run is also a theorem.

## What is left

* `IncidentScan` over the cohorts that `Analytics` computes, instead of any.
* Shorter proofs: several layers of `ReportProofs` repeat the case split over
  the coordinator's actions.

Not modelled: the legacy detection and policy endpoints (stateless functions),
the dashboard's overview, diagnosis and payment answers (a few statements each
over rows that only grow, labelled as live views) and its static files,
configuration and commands' argument parsing, migrations (run once, by
hand; the constraints are modelled from the tables), the webhook's signature,
headers and body limit (they refuse a request before its content is looked at),
lengths of texts, sums of amounts, the encoding of cursors and records, the
wording of messages.
