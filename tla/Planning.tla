------------------------------ MODULE Planning ------------------------------
(***************************************************************************)
(* Diagnosis and recovery planning of one merchant: any number of planner  *)
(* processes over one PostgreSQL database.  A process takes the merchant's *)
(* advisory transaction lock and runs one READ COMMITTED transaction.  The *)
(* scanner, which records observations, takes the same lock; ingestion     *)
(* does not, so events arrive between any two statements.                  *)
(***************************************************************************)
EXTENDS PlanningRules, FiniteSets, Sequences

CONSTANTS
  Planners,        \* planner processes
  Events,          \* events that may be ingested
  Observations,    \* observations the scanner may record
  None

ASSUME NoneAssumption == None \notin Planners
\* PaymentStatus
ASSUME StatusAssumption == \A e \in Events : e.status \in {"success", "failed"}

VARIABLES
  lock,            \* holder of the merchant's advisory transaction lock
  pc,              \* where each process is
  request,         \* what each process was asked for
  tx,              \* each process's transaction: what it read and will insert
  answer,          \* what each process last told its caller
  events,          \* committed payment events, in commit order
  observations,    \* committed observations
  diagnoses,       \* committed diagnoses
  plans,           \* committed plans
  audit            \* committed audit records

db == <<events, observations, diagnoses, plans, audit>>
vars == <<lock, pc, request, tx, answer, events, observations, diagnoses, plans, audit>>

-----------------------------------------------------------------------------
Stored == {events[k] : k \in DOMAIN events}

DiagnoseRequest(o) == [kind |-> "diagnose", observation |-> o, event |-> None]
PlanRequest(o, e) == [kind |-> "plan", observation |-> o, event |-> e]
Requests ==
  {DiagnoseRequest(o) : o \in Observations}
    \cup {PlanRequest(o, e) : o \in Observations, e \in Events}

\* "since" counts the events committed before the request began; the code
\* keeps no such number, it is here for EvidenceCurrent.
NewTx(n) ==
  [since |-> n, diagnosis |-> None, fresh |-> FALSE, evidence |-> None, plan |-> None]

Told(kind, record) == [kind |-> kind, record |-> record]

InTransaction ==
  {"locked", "associated", "diagnosing", "undiagnosed", "reading", "deciding", "ready"}

Init ==
  /\ lock = None
  /\ pc = [p \in Planners |-> "idle"]
  /\ request = [p \in Planners |-> None]
  /\ tx = [p \in Planners |-> NewTx(0)]
  /\ answer = [p \in Planners |-> Told("none", None)]
  /\ events = <<>>
  /\ observations = {}
  /\ diagnoses = {}
  /\ plans = {}
  /\ audit = <<>>

Goto(p, to) == pc' = [pc EXCEPT ![p] = to]

-----------------------------------------------------------------------------
(* The rest of the system.                                                 *)

Ingest(e) ==
  /\ e \notin Stored
  /\ events' = Append(events, e)
  /\ UNCHANGED <<lock, pc, request, tx, answer, observations, diagnoses, plans, audit>>

\* A scan records an observation; it holds the lock from its first read to its
\* commit, which is why one step stands for it.
Observe(o) ==
  /\ lock = None
  /\ o \notin observations
  /\ observations' = observations \cup {o}
  /\ UNCHANGED <<lock, pc, request, tx, answer, events, diagnoses, plans, audit>>

-----------------------------------------------------------------------------
Begin(p, r) ==
  /\ pc[p] = "idle"
  /\ request' = [request EXCEPT ![p] = r]
  /\ tx' = [tx EXCEPT ![p] = NewTx(Len(events))]
  /\ answer' = [answer EXCEPT ![p] = Told("none", None)]
  /\ Goto(p, "waiting")
  /\ UNCHANGED <<lock, db>>

\* Mutant: nobody waits for the lock.
LockWithoutWaiting(p) ==
  /\ pc[p] = "waiting"
  /\ lock' = p
  /\ Goto(p, IF request[p].kind = "plan" THEN "locked" ELSE "diagnosing")
  /\ UNCHANGED <<request, tx, answer, db>>

LockMerchant(p) ==
  /\ pc[p] = "waiting"
  /\ lock = None
  /\ lock' = p
  /\ Goto(p, IF request[p].kind = "plan" THEN "locked" ELSE "diagnosing")
  /\ UNCHANGED <<request, tx, answer, db>>

\* Mutant: the end of a transaction leaves the lock held.
EndLocked(p, told) ==
  /\ lock' = lock
  /\ answer' = [answer EXCEPT ![p] = told]
  /\ UNCHANGED request
  /\ tx' = [tx EXCEPT ![p] = NewTx(0)]
  /\ Goto(p, "idle")

\* Commit or rollback; the lock goes with the transaction.
End(p, told) ==
  /\ lock' = IF lock = p THEN None ELSE lock
  /\ answer' = [answer EXCEPT ![p] = told]
  /\ UNCHANGED request
  /\ tx' = [tx EXCEPT ![p] = NewTx(0)]
  /\ Goto(p, "idle")

Rollback(p, kind) == End(p, Told(kind, None)) /\ UNCHANGED db

\* The joined select of _candidates: the observation and the event exist and
\* belong together.
IsCandidate(r) ==
  /\ r.observation \in observations
  /\ r.event \in Stored
  /\ Associated(r.event, r.observation)

FindCandidate(p) ==
  /\ pc[p] = "locked"
  /\ IsCandidate(request[p])
  /\ Goto(p, "associated")
  /\ UNCHANGED <<lock, request, tx, answer, db>>

RefuseUnknown(p) ==
  /\ \/ pc[p] = "locked" /\ ~IsCandidate(request[p])
     \/ pc[p] = "diagnosing" /\ request[p].observation \notin observations
  /\ Rollback(p, "not_found")

\* Mutant: a plan is looked for by the event it was made from.
ExistingPlansOfEvent(e) == {q \in plans : q.event = e}

ExistingPlans(e) == {q \in plans : q.source = e.source /\ q.payment = e.payment}
ExistingDiagnoses(o) == {d \in diagnoses : d.observation = o}

\* Mutant: a request is refused only if it names another observation.
SameObservation(q, r) == q.observation = r.observation

SameAssociation(q, r) == q.event = r.event /\ q.observation = r.observation

ReplayPlan(p) ==
  /\ pc[p] = "associated"
  /\ \E q \in ExistingPlans(request[p].event) :
       SameAssociation(q, request[p]) /\ End(p, Told("replayed", q))
  /\ UNCHANGED db

RefuseConflict(p) ==
  /\ pc[p] = "associated"
  /\ \E q \in ExistingPlans(request[p].event) :
       ~SameAssociation(q, request[p]) /\ End(p, Told("conflict", q))
  /\ UNCHANGED db

FindNoPlan(p) ==
  /\ pc[p] = "associated"
  /\ ExistingPlans(request[p].event) = {}
  /\ Goto(p, "diagnosing")
  /\ UNCHANGED <<lock, request, tx, answer, db>>

\* _diagnose, shared by both requests.
AfterDiagnosis(p) == IF request[p].kind = "plan" THEN "reading" ELSE "ready"

UseDiagnosis(p) ==
  /\ pc[p] = "diagnosing"
  /\ request[p].observation \in observations
  /\ \E d \in ExistingDiagnoses(request[p].observation) :
       tx' = [tx EXCEPT ![p].diagnosis = d]
  /\ Goto(p, AfterDiagnosis(p))
  /\ UNCHANGED <<lock, request, answer, db>>

FindNoDiagnosis(p) ==
  /\ pc[p] = "diagnosing"
  /\ request[p].observation \in observations
  /\ ExistingDiagnoses(request[p].observation) = {}
  /\ Goto(p, "undiagnosed")
  /\ UNCHANGED <<lock, request, tx, answer, db>>

\* add_diagnosis: uq_diagnosis_version admits one for each observation.
AddDiagnosis(p) ==
  /\ pc[p] = "undiagnosed"
  /\ ExistingDiagnoses(request[p].observation) = {}
  /\ tx' = [tx EXCEPT ![p].diagnosis = Diagnosis(request[p].observation), ![p].fresh = TRUE]
  /\ Goto(p, AfterDiagnosis(p))
  /\ UNCHANGED <<lock, request, answer, db>>

\* Mutant: nothing but the planned event is looked at.
ReadOwnEvent(p) ==
  /\ pc[p] = "reading"
  /\ tx' = [tx EXCEPT ![p].evidence = History({request[p].event}, request[p].event)]
  /\ Goto(p, "deciding")
  /\ UNCHANGED <<lock, request, answer, db>>

\* history: one statement's snapshot of what ingestion has committed by now.
ReadHistory(p) ==
  /\ pc[p] = "reading"
  /\ tx' = [tx EXCEPT ![p].evidence = History(Stored, request[p].event)]
  /\ Goto(p, "deciding")
  /\ UNCHANGED <<lock, request, answer, db>>

\* decide_recovery_plan and add_plan, which looks the candidate up once more;
\* uq_plan_payment_policy admits one plan for each payment.
AddPlan(p) ==
  /\ pc[p] = "deciding"
  /\ IsCandidate(request[p])
  /\ ExistingPlans(request[p].event) = {}
  /\ tx' = [tx EXCEPT ![p].plan = Plan(request[p].observation, request[p].event, tx[p].evidence)]
  /\ Goto(p, "ready")
  /\ UNCHANGED <<lock, request, answer, db>>

\* What the transaction has to show for.
Result(p) ==
  IF tx[p].plan # None THEN Told("planned", tx[p].plan)
  ELSE Told(IF tx[p].fresh THEN "diagnosed" ELSE "replayed", tx[p].diagnosis)

Records(p) ==
  (IF tx[p].fresh THEN <<DiagnosisRecord(tx[p].diagnosis)>> ELSE <<>>)
    \o (IF tx[p].plan # None THEN <<PlanRecord(tx[p].plan)>> ELSE <<>>)

\* Mutant: a plan is published whether there is one or not.
CommitAlwaysPlan(p) ==
  /\ pc[p] = "ready"
  /\ diagnoses' = diagnoses \cup {tx[p].diagnosis}
  /\ plans' = plans \cup {tx[p].plan}
  /\ audit' = audit \o Records(p)
  /\ End(p, Result(p))
  /\ UNCHANGED <<events, observations>>

\* All is published at once; the acknowledgement may be lost.
Commit(p) ==
  /\ pc[p] = "ready"
  /\ diagnoses' = diagnoses \cup {tx[p].diagnosis}
  /\ plans' = IF tx[p].plan # None THEN plans \cup {tx[p].plan} ELSE plans
  /\ audit' = audit \o Records(p)
  /\ \E told \in {Result(p), Told("unavailable", None)} : End(p, told)
  /\ UNCHANGED <<events, observations>>

\* Mutant: what was flushed before the failure stays.
FailKeepsDiagnosis(p) ==
  /\ pc[p] \in InTransaction \cup {"waiting"}
  /\ diagnoses' = IF tx[p].fresh THEN diagnoses \cup {tx[p].diagnosis} ELSE diagnoses
  /\ End(p, Told("unavailable", None))
  /\ UNCHANGED <<events, observations, plans, audit>>

\* Any statement may fail, also while the process waits, and it may die.
Fail(p) ==
  /\ pc[p] \in InTransaction \cup {"waiting"}
  /\ Rollback(p, "unavailable")

-----------------------------------------------------------------------------
Proceed(p) ==
  \/ FindCandidate(p) \/ RefuseUnknown(p) \/ ReplayPlan(p) \/ RefuseConflict(p)
  \/ FindNoPlan(p) \/ UseDiagnosis(p) \/ FindNoDiagnosis(p) \/ AddDiagnosis(p)
  \/ ReadHistory(p) \/ AddPlan(p) \/ Commit(p)

Next ==
  \/ \E e \in Events : Ingest(e)
  \/ \E o \in Observations : Observe(o)
  \/ \E p \in Planners :
       \/ \E r \in Requests : Begin(p, r)
       \/ LockMerchant(p) \/ Proceed(p) \/ Fail(p)

Spec == Init /\ [][Next]_vars

\* As in IncidentScan: a process inside its transaction goes on, and the lock's
\* wait queue is first come, first served.
Fairness == \A p \in Planners : WF_vars(Proceed(p)) /\ SF_vars(LockMerchant(p))

FairSpec == Spec /\ Fairness

-----------------------------------------------------------------------------
(***************************************************************************)
(* Properties                                                              *)
(***************************************************************************)
Diagnoses == {Diagnosis(o) : o \in Observations}
Plans == {Plan(o, e, v) : o \in Observations, e \in Events, v \in Evidence}
ASSUME PlanAssumption == None \notin Plans
Transactions ==
  [since : Nat, diagnosis : Diagnoses \cup {None}, fresh : BOOLEAN,
   evidence : Evidence \cup {None}, plan : Plans \cup {None}]
AuditRecords ==
  [type : {"incident.diagnosed", "recovery_plan.created"}, subject : Diagnoses \cup Plans]
Answers ==
  [kind : {"none", "diagnosed", "planned", "replayed", "not_found", "conflict", "unavailable"},
   record : Diagnoses \cup Plans \cup {None}]

\* Every variable has its type (the columns of planning_models.py).
TypeOK ==
  /\ lock \in Planners \cup {None}
  /\ pc \in [Planners -> InTransaction \cup {"idle", "waiting"}]
  /\ request \in [Planners -> Requests \cup {None}]
  /\ tx \in [Planners -> Transactions]
  /\ answer \in [Planners -> Answers]
  /\ events \in Seq(Events)
  /\ observations \subseteq Observations
  /\ diagnoses \subseteq Diagnoses
  /\ plans \subseteq Plans
  /\ audit \in Seq(AuditRecords)

\* The lock makes the unique constraints a second line of defence: between
\* looking for a diagnosis or a plan and inserting one, nobody else commits
\* one for the same observation or payment (_diagnose, plan_recovery).
InsertsNeverCollide ==
  \A p \in Planners :
    /\ pc[p] = "undiagnosed" => ExistingDiagnoses(request[p].observation) = {}
    /\ pc[p] = "ready" /\ tx[p].fresh => ExistingDiagnoses(request[p].observation) = {}
    /\ request[p] # None /\ request[p].kind = "plan"
         /\ pc[p] \in {"diagnosing", "undiagnosed", "reading", "deciding", "ready"} =>
         ExistingPlans(request[p].event) = {}

\* What a caller was told is committed and stays so: a diagnosis or plan it was
\* given, fresh or replayed, is the stored one and the one it asked for, and a
\* conflict names the stored plan of that payment (plan_recovery).
AnswersDurable ==
  \A p \in Planners :
    LET r == request[p]
        x == answer[p].record
    IN /\ answer[p].kind \in {"diagnosed", "planned", "replayed"} =>
            /\ x \in diagnoses \cup plans
            /\ x.observation = r.observation
            /\ r.kind = "plan" => x \in plans /\ x.event = r.event
       /\ answer[p].kind = "conflict" =>
            /\ x \in ExistingPlans(r.event)
            /\ <<x.event, x.observation>> # <<r.event, r.observation>>

\* A payment whose failures lie in two observations is planned from one of
\* them: a plan's event is associated with its observation, whose diagnosis is
\* stored, and all other requests for the payment conflict (plan_recovery).
PlanPerPayment ==
  /\ \A q, r \in plans : q.source = r.source /\ q.payment = r.payment => q = r
  /\ \A q \in plans :
       /\ Associated(q.event, q.observation)
       /\ Diagnosis(q.observation) \in diagnoses

\* A plan overlooks nothing that was committed when it was asked for: its
\* evidence is the payment's history at some moment between the request and
\* the commit, though ingestion never stops (history in plan_recovery).
EvidenceCurrent ==
  [][\A q \in plans' \ plans :
       \E p \in Planners :
         /\ tx[p].plan = q
         /\ \E n \in tx[p].since..Len(events) :
              q.evidence = History({events[k] : k \in 1..n}, q.event)]_plans

\* A retry is recommended only of a payment all of whose events, at some moment
\* not before it was asked for, were failures of one amount and cohort, with no
\* reviewed cause but the recommended one's (docs/planning.md: integrity
\* blockers; any stored success prevents a new retry recommendation).
RetryJustified ==
  \A q \in plans :
    q.advice.action \in Retries =>
      \E n \in DOMAIN events :
        /\ q.event \in {events[k] : k \in 1..n}
        /\ \A k \in 1..n : SamePayment(events[k], q.event) =>
             /\ events[k].status = "failed"
             /\ events[k].cohort = q.event.cohort /\ events[k].amount = q.event.amount
             /\ events[k].error \in Reviewed => events[k].error = q.event.error

\* More history never turns the advice about a payment into a retry, so a plan
\* that does not advise one stays right whatever arrives later, in whatever
\* order (history, decide_recovery_plan).
AdviceHardens ==
  [][\A e \in Stored :
       RetryAdvised(History(Stored', e)) => RetryAdvised(History(Stored, e))]_events

\* The planners together behave like the book that diagnoses and plans in one
\* step each.
Book == INSTANCE PlanBook WITH trail <- audit
ImplementsBook == Book!BookSpec

\* A request that was begun is answered.
RequestsEnd == \A p \in Planners : (pc[p] = "waiting") ~> (pc[p] = "idle")
=============================================================================
