------------------------------ MODULE Simulation ------------------------------
(***************************************************************************)
(* The checkpointed runner of one simulation run.  A coordinator takes the *)
(* run's session lock, which lives on a connection of its own, and walks   *)
(* through five stages; every call of a service or of the store is one     *)
(* committed transaction.  A coordinator may fail between any two of them  *)
(* and another one resumes from the recorded steps.  The lock's connection *)
(* may be lost without its holder noticing, so that two coordinators run.  *)
(*                                                                         *)
(* Ingestion, scan and planning are single steps here: see EventStore,     *)
(* ScanLedger and PlanBook, which Ingestion, IncidentScan and Planning     *)
(* implement.                                                              *)
(***************************************************************************)
EXTENDS SimulationWorld

CONSTANTS
  Coordinators,    \* processes that may run the simulation
  Payments,        \* the failing payments of the outage, by number
  Scenarios,       \* assignments of a world to each payment
  MaxFaults,       \* bound on failures
  MaxLosses,       \* bound on lost lock connections
  None

ASSUME PaymentsAssumption == Payments \subseteq Nat /\ IsFiniteSet(Payments)
ASSUME ScenariosAssumption == Scenarios \subseteq [Payments -> World]
ASSUME NoneAssumption == None \notin Coordinators \cup Events(Payments) \cup Plans

VARIABLES
  world,           \* each payment's scenario
  lock,            \* holder of the run's session lock
  pc,              \* where each coordinator is
  me,              \* each coordinator's local variables
  told,            \* what each coordinator last answered
  run,             \* the run's row: status and report
  steps,           \* recorded steps: key to data
  events,          \* stored payment events
  scanned,         \* each scanned stage's evidence
  enrolled,        \* each population payment's failed event
  plans,           \* stored recovery plans
  attached,        \* the plan each population payment refers to
  attempts,        \* each payment's attempts
  faults, losses

db == <<run, steps, events, scanned, enrolled, plans, attached, attempts>>
vars == <<world, lock, pc, me, told, db, faults, losses>>

-----------------------------------------------------------------------------
\* The column of the run's report before finish writes it.
NoReport == <<>>

\* The local variables of run and simulate.
NewMe ==
  [stage |-> -1, done |-> {}, delivery |-> None, evidence |-> {}, known |-> {},
   left |-> {}, payment |-> 0, ordinal |-> 1, due |-> 0, report |-> NoReport]

Told(kind, report) == [kind |-> kind, report |-> report]

Init ==
  /\ world \in Scenarios
  /\ lock = None
  /\ pc = [c \in Coordinators |-> "idle"]
  /\ me = [c \in Coordinators |-> NewMe]
  /\ told = [c \in Coordinators |-> Told("none", NoReport)]
  /\ run = [status |-> "absent", report |-> NoReport]
  /\ steps = <<>>
  /\ events = {}
  /\ scanned = <<>>
  /\ enrolled = [p \in Payments |-> None]
  /\ plans = [p \in Payments |-> None]
  /\ attached = [p \in Payments |-> None]
  /\ attempts = [p \in Payments |-> <<>>]
  /\ faults = 0
  /\ losses = 0

Goto(c, to) == pc' = [pc EXCEPT ![c] = to]

Least(S) == CHOOSE x \in S : \A y \in S : x <= y

\* A coordinator ends; the lock goes with it if its connection still has it.
End(c, kind, report) ==
  /\ Goto(c, "idle")
  /\ me' = [me EXCEPT ![c] = NewMe]
  /\ told' = [told EXCEPT ![c] = Told(kind, report)]
  /\ lock' = IF lock = c THEN None ELSE lock

\* Unlocking on a connection that is gone raises.
Return(c, report) ==
  IF lock = c THEN End(c, "complete", report) ELSE End(c, "interrupted", NoReport)

Keep == UNCHANGED <<world, lock, told, faults, losses>>

-----------------------------------------------------------------------------
(* Recorded steps (_append): a key is written once.                        *)

Contradicts(key, data) == key \in DOMAIN steps /\ steps[key] # data

\* Mutant: the last writer wins.
AppendLast(key, data) ==
  steps' = [k \in DOMAIN steps \cup {key} |-> IF k = key THEN data ELSE steps[k]]

AppendStep(key, data) ==
  /\ ~Contradicts(key, data)
  /\ steps' = [k \in DOMAIN steps \cup {key} |-> IF k = key THEN data ELSE steps[k]]

\* A step of a coordinator that touches nothing stored, and one that does
\* nothing but record a step.
Local(c, to) == Goto(c, to) /\ UNCHANGED db /\ Keep

Record(c, key, data, to) ==
  /\ AppendStep(key, data)
  /\ Goto(c, to)
  /\ UNCHANGED <<run, events, scanned, enrolled, plans, attached, attempts>>
  /\ Keep

Checkpoint(kind, s) == <<kind, s, 0>>
AttemptKey(kind, c) == <<kind, me[c].payment, me[c].ordinal>>
Evaluation(c) == Checkpoint("evaluation", me[c].stage)

-----------------------------------------------------------------------------
(* Starting and resuming.                                                  *)

\* run_lock: a command that finds the lock taken ends at once, to no effect.
Acquire(c) ==
  /\ pc[c] = "idle" /\ lock = None
  /\ lock' = c
  /\ told' = [told EXCEPT ![c] = Told("none", NoReport)]
  /\ Goto(c, "starting")
  /\ UNCHANGED <<world, me, db, faults, losses>>

\* Mutant: a complete run starts all over.
StartAgain(c) ==
  /\ pc[c] = "starting"
  /\ run' = [status |-> "running", report |-> NoReport]
  /\ Goto(c, "resuming")
  /\ UNCHANGED <<me, steps, events, scanned, enrolled, plans, attached, attempts>>
  /\ Keep

\* start: the same manifest is taken for granted.
Start(c) ==
  /\ pc[c] = "starting" /\ run.status # "complete"
  /\ run' = [status |-> "running", report |-> NoReport]
  /\ Goto(c, "resuming")
  /\ UNCHANGED <<me, steps, events, scanned, enrolled, plans, attached, attempts>>
  /\ Keep

\* Mutant: any run that was started answers.
ReturnAnyReport(c) ==
  /\ pc[c] = "starting" /\ run.status # "absent"
  /\ Return(c, run.report)
  /\ UNCHANGED <<world, db, faults, losses>>

ReturnReport(c) ==
  /\ pc[c] = "starting" /\ run.status = "complete"
  /\ Return(c, run.report)
  /\ UNCHANGED <<world, db, faults, losses>>

\* The next stage without a checkpoint among those known at the start.
EnterStage(c, s, done) ==
  LET open == {t \in Stages : t >= s /\ Checkpoint("stage", t) \notin done}
  IN /\ me' = [me EXCEPT ![c] = [NewMe EXCEPT !.done = done,
                                 !.stage = IF open = {} THEN 4 ELSE Least(open)]]
     /\ Goto(c, IF open = {} THEN "reporting" ELSE "delivering")

Resume(c) ==
  /\ pc[c] = "resuming"
  /\ EnterStage(c, -1, DOMAIN steps)
  /\ UNCHANGED db
  /\ Keep

-----------------------------------------------------------------------------
(* Delivering a stage.                                                     *)

StageDeliveries(s) == UNION {Deliveries(p, world[p], s) : p \in Payments}

\* Mutant: what is late is delivered with the rest.
UndeliveredEarly(c) ==
  {d \in StageDeliveries(me[c].stage) \cup StageDeliveries(me[c].stage + 1) :
     d.key \notin me[c].done}

Undelivered(c) == {d \in StageDeliveries(me[c].stage) : d.key \notin me[c].done}

\* ingest_payment_event stores a duplicate's event once.
Deliver(c) ==
  /\ pc[c] = "delivering"
  /\ \E d \in Undelivered(c) :
       /\ \A f \in Undelivered(c) \ {d} : Before(d, f)
       /\ events' = events \cup {d.event}
       /\ me' = [me EXCEPT ![c].delivery = d]
       /\ Goto(c, IF Enrols(d) THEN "registering" ELSE "recording")
  /\ UNCHANGED <<run, steps, scanned, enrolled, plans, attached, attempts>>
  /\ Keep

\* population: a payment is entered once, by its first failed event.
Register(c) ==
  /\ pc[c] = "registering"
  /\ LET e == me[c].delivery.event
     IN enrolled' = [enrolled EXCEPT ![e.payment] = IF @ = None THEN e ELSE @]
  /\ Goto(c, "recording")
  /\ UNCHANGED <<me, run, steps, events, scanned, plans, attached, attempts>>
  /\ Keep

RecordDelivery(c) ==
  /\ pc[c] = "recording"
  /\ Record(c, me[c].delivery.key, "delivered", "delivering")
  /\ me' = [me EXCEPT ![c].done = @ \cup {me[c].delivery.key}, ![c].delivery = None]

\* Nothing is detected before the first window.
AllDelivered(c) ==
  /\ pc[c] = "delivering"
  /\ Undelivered(c) = {}
  /\ Local(c, IF me[c].stage = -1 THEN "dispatching"
             ELSE IF Checkpoint("analysis", me[c].stage) \in me[c].done THEN "scanning"
             ELSE "analysing")
  /\ UNCHANGED me

-----------------------------------------------------------------------------
(* Analysis, scan and planning of a stage.                                 *)

Analyse(c) ==
  /\ pc[c] = "analysing"
  /\ me' = [me EXCEPT ![c].evidence = events]
  /\ Local(c, "evaluating")

\* An evaluation is a verdict about its evidence: the same evidence gives the
\* same verdict, and other evidence may.
RecordEvaluation(c) ==
  /\ pc[c] = "evaluating"
  /\ IF Evaluation(c) \in DOMAIN steps
     THEN UNCHANGED steps
     ELSE AppendStep(Evaluation(c), me[c].evidence)
  /\ Goto(c, "analysed")
  /\ UNCHANGED <<me, run, events, scanned, enrolled, plans, attached, attempts>>
  /\ Keep

CloseAnalysis(c) ==
  /\ pc[c] = "analysed"
  /\ Record(c, Checkpoint("analysis", me[c].stage), "checkpoint", "scanning")
  /\ UNCHANGED me

\* scan_merchant: a window is scanned once, see ScanLedger.
Scan(c) ==
  /\ pc[c] = "scanning"
  /\ scanned' = [s \in DOMAIN scanned \cup {me[c].stage} |->
                   IF s \in DOMAIN scanned THEN scanned[s] ELSE events]
  /\ Goto(c, IF Checkpoint("planning", me[c].stage) \in me[c].done
             THEN "planned" ELSE "enumerating")
  /\ UNCHANGED <<me, run, steps, events, enrolled, plans, attached, attempts>>
  /\ Keep

\* The pages of candidates that are in the population.
Candidates(s) == {p \in Payments : enrolled[p] # None /\ world[p].seen /\ enrolled[p].window = s}

Enumerate(c) ==
  /\ pc[c] = "enumerating"
  /\ me' = [me EXCEPT ![c].left = Candidates(me[c].stage)]
  /\ Local(c, "planning")

\* plan_recovery: a payment is planned once, see PlanBook.
PlanRecovery(c) ==
  /\ pc[c] = "planning"
  /\ \E p \in me[c].left :
       /\ plans' = [plans EXCEPT ![p] =
                      IF @ # None THEN @
                      ELSE [advice |-> Decide(History(events, enrolled[p])),
                            created |-> StageTime(me[c].stage)]]
       /\ me' = [me EXCEPT ![c].payment = p, ![c].left = @ \ {p}]
  /\ Goto(c, "attaching")
  /\ UNCHANGED <<run, steps, events, scanned, enrolled, attached, attempts>>
  /\ Keep

\* attach_plan: no other plan was attached.
AttachPlan(c) ==
  /\ pc[c] = "attaching"
  /\ attached[me[c].payment] \in {None, plans[me[c].payment]}
  /\ attached' = [attached EXCEPT ![me[c].payment] = plans[me[c].payment]]
  /\ Goto(c, "planning")
  /\ UNCHANGED <<me, run, steps, events, scanned, enrolled, plans, attempts>>
  /\ Keep

ClosePlanning(c) ==
  /\ pc[c] = "planning" /\ me[c].left = {}
  /\ Record(c, Checkpoint("planning", me[c].stage), "checkpoint", "planned")
  /\ UNCHANGED me

-----------------------------------------------------------------------------
(* Simulated attempts (simulate).                                          *)

BeginSimulation(c) ==
  /\ pc[c] = "planned"
  /\ me' = [me EXCEPT ![c].known = DOMAIN steps,
                      ![c].left = IF me[c].stage < Outage THEN {}
                                  ELSE {p \in Payments : enrolled[p] # None}]
  /\ Local(c, "dispatching")

NextPayment(c) ==
  /\ pc[c] = "dispatching" /\ me[c].left # {}
  /\ LET p == Least(me[c].left)
     IN me' = [me EXCEPT ![c].payment = p, ![c].ordinal = 1, ![c].left = @ \ {p}]
  /\ Local(c, "considering")

\* When an attempt falls due by what is public.
Due(p, ordinal) ==
  LET delay == IF attached[p] = None THEN 0 ELSE Seconds(attached[p].advice)
      wait == IF 2 * delay > ReconcileSeconds THEN 2 * delay ELSE ReconcileSeconds
  IN IF ordinal = 2 THEN attempts[p][1].at + wait
     ELSE IF attached[p] = None THEN StageTime(Outage)
     ELSE attached[p].created + delay

\* No second attempt without a first.
Exhausted(c) ==
  \/ me[c].ordinal > 2
  \/ me[c].ordinal = 2 /\ attempts[me[c].payment] = <<>>

OutOfTurn(c) ==
  \/ Due(me[c].payment, me[c].ordinal) + ReconcileSeconds > Cutoff(me[c].stage)
  \/ AttemptKey("dispatch", c) \in me[c].known

LeavePayment(c) ==
  /\ pc[c] = "considering" /\ Exhausted(c)
  /\ Local(c, "dispatching")
  /\ UNCHANGED me

PassOver(c) ==
  /\ pc[c] = "considering" /\ ~Exhausted(c) /\ OutOfTurn(c)
  /\ me' = [me EXCEPT ![c].ordinal = @ + 1]
  /\ UNCHANGED <<pc, db>>
  /\ Keep

TakeUp(c) ==
  /\ pc[c] = "considering" /\ ~Exhausted(c) /\ ~OutOfTurn(c)
  /\ me' = [me EXCEPT ![c].due = Due(me[c].payment, me[c].ordinal)]
  /\ Local(c, "reserving")

\* Mutant: what was stored since the payment failed is not read.
BlockerOnce(c) ==
  LET p == me[c].payment
  IN IF attached[p] = None THEN "unplanned"
     ELSE Eligibility(attached[p], History({enrolled[p]}, enrolled[p]), world[p],
                      attempts[p], me[c].due)

\* What stands in the way of the attempt now.
Blocker(c) ==
  LET p == me[c].payment
  IN IF attached[p] = None THEN "unplanned"
     ELSE Eligibility(attached[p], History(events, enrolled[p]), world[p], attempts[p], me[c].due)

Reserved(c) == me[c].ordinal \in DOMAIN attempts[me[c].payment]

\* reserve: a dispatched attempt is not reserved again.
FindReserved(c) ==
  /\ pc[c] = "reserving" /\ Reserved(c)
  /\ Local(c, "modelling")
  /\ UNCHANGED me

\* The two steps that are recorded with an attempt.
WithReservation(c) ==
  [k \in DOMAIN steps \cup {AttemptKey("eligibility", c), AttemptKey("reserved", c)} |->
     IF k \in DOMAIN steps THEN steps[k]
     ELSE IF k = AttemptKey("reserved", c) THEN "reserved" ELSE "eligible"]

\* Mutant: a resumed dispatch is another attempt.
ReserveAgain(c) ==
  /\ pc[c] = "reserving" /\ Len(attempts[me[c].payment]) < 2
  /\ steps' = WithReservation(c)
  /\ attempts' = [attempts EXCEPT ![me[c].payment] =
                    Append(@, [at |-> me[c].due, state |-> "reserved", truth |-> None])]
  /\ Goto(c, "modelling")
  /\ UNCHANGED <<me, run, events, scanned, enrolled, plans, attached>>
  /\ Keep

\* The decision and the attempt are stored together.
Reserve(c) ==
  /\ pc[c] = "reserving" /\ ~Reserved(c)
  /\ me[c].ordinal = Len(attempts[me[c].payment]) + 1
  /\ Blocker(c) = "eligible"
  /\ ~Contradicts(AttemptKey("eligibility", c), "eligible")
  /\ steps' = WithReservation(c)
  /\ attempts' = [attempts EXCEPT ![me[c].payment] =
                    Append(@, [at |-> me[c].due, state |-> "reserved", truth |-> None])]
  /\ Goto(c, "modelling")
  /\ UNCHANGED <<me, run, events, scanned, enrolled, plans, attached>>
  /\ Keep

Refuse(c) ==
  /\ pc[c] = "reserving" /\ ~Reserved(c)
  /\ Blocker(c) # "eligible"
  /\ Record(c, AttemptKey("eligibility", c), Blocker(c), "refused")
  /\ UNCHANGED me

CloseRefused(c) ==
  /\ pc[c] = "refused"
  /\ Record(c, AttemptKey("dispatch", c), "checkpoint", "dispatching")
  /\ UNCHANGED me

\* An attempt once the model has answered.
Modelled(p, at) ==
  [at |-> at, state |-> Observed(world[p], at), truth |-> Truth(world[p], at)]

\* Mutant: an outcome that is known already is stored again.
RecordOutcomeAgain(c) ==
  LET p == me[c].payment
      k == me[c].ordinal
      at == attempts[p][k].at
  IN /\ pc[c] = "modelling"
     /\ attempts' = [attempts EXCEPT ![p][k] = Modelled(p, at)]
     /\ AppendStep(AttemptKey("outcome", c), Observed(world[p], at))
     /\ Goto(c, "observed")
     /\ UNCHANGED <<me, run, events, scanned, enrolled, plans, attached>>
     /\ Keep

\* model and outcome: the truth of the time the attempt was reserved; what is
\* known already must agree with it.
RecordOutcome(c) ==
  LET p == me[c].payment
      k == me[c].ordinal
      at == attempts[p][k].at
  IN /\ pc[c] = "modelling"
     /\ IF attempts[p][k].state # "reserved"
        THEN attempts[p][k].truth = Truth(world[p], at) /\ UNCHANGED <<attempts, steps>>
        ELSE /\ attempts' = [attempts EXCEPT ![p][k] = Modelled(p, at)]
             /\ AppendStep(AttemptKey("outcome", c), Observed(world[p], at))
     /\ Goto(c, "observed")
     /\ UNCHANGED <<me, run, events, scanned, enrolled, plans, attached>>
     /\ Keep

\* The injected second dispatch finds the attempt reserved.
Suppress(c) ==
  /\ pc[c] = "observed" /\ Reserved(c)
  /\ Record(c, AttemptKey("suppressed", c), "suppressed", "suppressed")
  /\ UNCHANGED me

\* Mutant: reconciliation settles an attempt without a record.
ReconcileSilently(c) ==
  LET p == me[c].payment
      k == me[c].ordinal
      revealed == IF world[p].reconcilable THEN attempts[p][k].truth ELSE "uncertain"
  IN /\ pc[c] = "suppressed"
     /\ attempts' = [attempts EXCEPT ![p][k].state = IF @ = "uncertain" THEN revealed ELSE @]
     /\ Goto(c, "reconciled")
     /\ UNCHANGED <<me, run, steps, events, scanned, enrolled, plans, attached>>
     /\ Keep

Reconcile(c) ==
  LET p == me[c].payment
      k == me[c].ordinal
      revealed == IF world[p].reconcilable THEN attempts[p][k].truth ELSE "uncertain"
  IN /\ pc[c] = "suppressed"
     /\ IF attempts[p][k].state # "uncertain"
        THEN UNCHANGED <<attempts, steps>>
        ELSE /\ me[c].due + 60 - attempts[p][k].at >= ReconcileSeconds
             /\ attempts' = [attempts EXCEPT ![p][k].state = revealed]
             /\ AppendStep(AttemptKey("reconcile", c), revealed)
     /\ Goto(c, "reconciled")
     /\ UNCHANGED <<me, run, events, scanned, enrolled, plans, attached>>
     /\ Keep

CloseDispatch(c) ==
  /\ pc[c] = "reconciled"
  /\ Record(c, AttemptKey("dispatch", c), "checkpoint", "considering")
  /\ me' = [me EXCEPT ![c].ordinal = @ + 1]

CloseStage(c) ==
  /\ pc[c] = "dispatching" /\ me[c].left = {}
  /\ AppendStep(Checkpoint("stage", me[c].stage), "checkpoint")
  /\ EnterStage(c, me[c].stage + 1, me[c].done)
  /\ UNCHANGED <<run, events, scanned, enrolled, plans, attached, attempts>>
  /\ Keep

-----------------------------------------------------------------------------
(* The report.                                                             *)

CountSteps(c) ==
  /\ pc[c] = "reporting"
  /\ me' = [me EXCEPT
       ![c].report =
         [deliveries |-> {k \in DOMAIN steps : k[1] \in {"event", "duplicate", "history", "late"}},
          evaluations |-> [s \in {t \in Stages : Checkpoint("evaluation", t) \in DOMAIN steps} |->
                             steps[Checkpoint("evaluation", s)]],
          decisions |-> [p \in {q \in Payments : <<"eligibility", q, 1>> \in DOMAIN steps} |->
                           steps[<<"eligibility", p, 1>>]],
          suppressed |-> {k \in DOMAIN steps : k[1] = "suppressed"},
          accounts |-> {}],
       ![c].left = {p \in Payments : enrolled[p] # None}]
  /\ Local(c, "accounting")

Account(p, category, records) ==
  [payment |-> p, category |-> category, attempts |-> Len(records),
   uncertain |-> Cardinality({k \in DOMAIN records : records[k].state \in Outstanding})]

\* One payment's stored history, then its attempts.
CountPayment(c) ==
  /\ pc[c] = "accounting" /\ me[c].left # {}
  /\ LET p == Least(me[c].left)
         own == {e \in events : SamePayment(e, enrolled[p])}
         category == Classify(Cardinality({e.amount : e \in own}),
                              \E e \in own : e.status = "success",
                              "succeeded" \in States(attempts[p]))
     IN me' = [me EXCEPT ![c].report.accounts = @ \cup {Account(p, category, attempts[p])},
                         ![c].left = @ \ {p}]
  /\ UNCHANGED <<pc, db>>
  /\ Keep

Finish(c) ==
  /\ pc[c] = "accounting" /\ me[c].left = {}
  /\ run' = [status |-> "complete", report |-> me[c].report]
  /\ Return(c, me[c].report)
  /\ UNCHANGED <<world, steps, events, scanned, enrolled, plans, attached, attempts, faults, losses>>

-----------------------------------------------------------------------------
(* What goes wrong.                                                        *)

\* "Conflicting simulation step".  Another verdict is possible on other
\* evidence only.
Conflict(c) ==
  /\ \/ pc[c] = "evaluating" /\ Contradicts(Evaluation(c), me[c].evidence)
     \/ /\ pc[c] = "reserving" /\ ~Reserved(c)
        /\ Contradicts(AttemptKey("eligibility", c), Blocker(c))
  /\ End(c, "conflict", NoReport)
  /\ UNCHANGED <<world, db, faults, losses>>

\* Between any two commits, or in the transaction that would be next; also two
\* inserts of one key, of which the database admits the first.
Fail(c) ==
  /\ faults < MaxFaults
  /\ pc[c] # "idle"
  /\ End(c, "interrupted", NoReport)
  /\ faults' = faults + 1
  /\ UNCHANGED <<world, db, losses>>

\* The lock's connection breaks; its holder does not look at it until the end.
LoseLock(c) ==
  /\ losses < MaxLosses
  /\ lock = c
  /\ lock' = None
  /\ losses' = losses + 1
  /\ UNCHANGED <<world, pc, me, told, db, faults>>

-----------------------------------------------------------------------------
Prepare(c) == Start(c) \/ ReturnReport(c) \/ Resume(c)
DeliverStage(c) == Deliver(c) \/ Register(c) \/ RecordDelivery(c) \/ AllDelivered(c)
PlanStage(c) ==
  \/ Analyse(c) \/ RecordEvaluation(c) \/ CloseAnalysis(c) \/ Scan(c)
  \/ Enumerate(c) \/ PlanRecovery(c) \/ AttachPlan(c) \/ ClosePlanning(c)
Schedule(c) ==
  \/ BeginSimulation(c) \/ NextPayment(c) \/ LeavePayment(c) \/ PassOver(c) \/ TakeUp(c)
  \/ CloseStage(c)
Attempt(c) ==
  \/ FindReserved(c) \/ Reserve(c) \/ Refuse(c) \/ CloseRefused(c) \/ RecordOutcome(c)
  \/ Suppress(c) \/ Reconcile(c) \/ CloseDispatch(c)
Complete(c) == CountSteps(c) \/ CountPayment(c) \/ Finish(c)

Proceed(c) ==
  \/ Prepare(c) \/ DeliverStage(c) \/ PlanStage(c) \/ Schedule(c) \/ Attempt(c)
  \/ Complete(c) \/ Conflict(c)

Next ==
  \E c \in Coordinators :
    Acquire(c) \/ Proceed(c) \/ Fail(c) \/ LoseLock(c)

Spec == Init /\ [][Next]_vars

\* A coordinator that runs goes on, and an interrupted run is resumed by hand.
Fairness ==
  /\ \A c \in Coordinators : WF_vars(Proceed(c))
  /\ WF_vars(\E c \in Coordinators : run.status # "complete" /\ Acquire(c))

FairSpec == Spec /\ Fairness

-----------------------------------------------------------------------------
(***************************************************************************)
(* Properties                                                              *)
(***************************************************************************)
Kinds ==
  {"event", "duplicate", "history", "late", "evaluation", "analysis", "planning", "stage",
   "eligibility", "reserved", "outcome", "suppressed", "reconcile", "dispatch"}
AttemptStates == {"reserved", "uncertain", "failed", "succeeded"}

\* Every variable has its type and every row passes the constraints of
\* simulation_models.py: attempt states, two attempts at most of which one is
\* outstanding and one succeeded at most, a population of failed events.
TypeOK ==
  /\ lock \in Coordinators \cup {None}
  /\ run.status \in {"absent", "running", "complete"}
  /\ run.status = "complete" <=> run.report # NoReport
  /\ \A k \in DOMAIN steps : k[1] \in Kinds
  /\ DOMAIN scanned \subseteq Stages \ {-1}
  /\ \A c \in Coordinators : me[c].stage \in Stages \cup {4} /\ me[c].ordinal \in 1..3
  /\ \A p \in Payments :
       /\ enrolled[p] # None => enrolled[p] \in events /\ enrolled[p].status = "failed"
       /\ attached[p] \in {None, plans[p]}
       /\ Len(attempts[p]) <= 2
       /\ States(attempts[p]) \subseteq AttemptStates
       /\ \A S \in {Outstanding, {"succeeded"}} :
            Cardinality({k \in DOMAIN attempts[p] : attempts[p][k].state \in S}) <= 1

DeliveredBy(s) == {d.event : d \in UNION {StageDeliveries(t) : t \in {u \in Stages : u <= s}}}

\* "Frozen stage": the evaluations, and the scan whose observations planning
\* enumerates, see what the stages up to this one delivered, no less and
\* nothing of a later stage, whoever records them and however often the stage
\* is taken up (run, "Candidate pagination" in docs/simulation.md).
StageFrozen ==
  /\ \A s \in DOMAIN scanned : scanned[s] = DeliveredBy(s)
  /\ \A s \in Stages :
       LET key == Checkpoint("evaluation", s)
       IN key \in DOMAIN steps => steps[key] = DeliveredBy(s)

ExpectedReport ==
  [deliveries |-> {d.key : d \in UNION {StageDeliveries(s) : s \in Stages}},
   evaluations |-> [s \in Stages \ {-1} |-> DeliveredBy(s)],
   decisions |-> [p \in Payments |-> ExpectedReason(world[p])],
   suppressed |->
     UNION {{<<"suppressed", p, k>> : k \in DOMAIN ExpectedAttempts(world[p])} : p \in Payments},
   accounts |->
     {Account(p, ExpectedCategory(world[p]), ExpectedAttempts(world[p])) : p \in Payments}]

\* A complete run has the attempts and the report that its scenario determines,
\* as if it had never been interrupted: no crash, resume or second coordinator
\* consumes an attempt, draws another outcome, decides anew or counts twice
\* (docs/simulation.md).
ReportReproduced ==
  run.status = "complete" =>
    /\ run.report = ExpectedReport
    /\ \A p \in Payments : attempts[p] = ExpectedAttempts(world[p])

\* The mutable state of an attempt is the last thing the append-only history
\* says of it, at any time ("Immutable simulation steps preserve outcomes and
\* transitions separately from mutable attempt-state projections").
ProjectionMatchesSteps ==
  \A p \in Payments : \A k \in 1..2 :
    LET said == {<<kind, p, k>> : kind \in {"reserved", "outcome", "reconcile"}} \cap DOMAIN steps
        Said(kind) == <<kind, p, k>> \in said
    IN IF k \notin DOMAIN attempts[p] THEN said = {}
       ELSE /\ Said("reserved")
            /\ attempts[p][k].state =
                 IF Said("reconcile") THEN steps[<<"reconcile", p, k>>]
                 ELSE IF Said("outcome") THEN steps[<<"outcome", p, k>>]
                 ELSE "reserved"

\* No attempt is added to a payment that has a stored success, even by a
\* coordinator that prepared it before the success arrived (reserve).
NoAttemptAfterSuccess ==
  [][\A p \in Payments :
       Len(attempts'[p]) > Len(attempts[p])
         => ~\E e \in events : e.payment = p /\ e.status = "success"]_attempts

\* A complete run stays complete and keeps its report, also when a coordinator
\* that lost its lock finishes it once more, and every command that answers
\* with a report answers with this one (start, finish).
ReportsFinal ==
  [][ /\ run.status = "complete" => run' = run
      /\ \A c \in Coordinators :
           told'[c] # told[c] /\ told'[c].kind = "complete" => told'[c].report = run'.report
    ]_<<run, told>>

\* Attempts go by the book, step by step.
Book == INSTANCE AttemptBook
ImplementsAttempts == Book!Spec

\* An interrupted run that is resumed completes: no death of a coordinator
\* leaves a lock or a half-done stage behind that would stop the next one.
Completes == <>(run.status = "complete")
=============================================================================
