--------------------------- MODULE PlanningProofs ---------------------------
(***************************************************************************)
(* Theorems about Planning, for every set of planners, events and          *)
(* observations.                                                           *)
(***************************************************************************)
EXTENDS Planning, SequenceTheorems, TLAPS

\* A retry is advised of nothing but a clean history of a transient failure.
LEMMA RetryEvidence ==
  ASSUME NEW S, NEW e, RetryAdvised(History(S, e))
  PROVE  /\ ~History(S, e).success
         /\ ~Integrity(History(S, e))
         /\ Signal(e) # "unknown"
<1> DEFINE h == History(S, e)
<1>1. h.success \in BOOLEAN /\ h.mixed \in BOOLEAN /\ h.inconsistent \in BOOLEAN
        /\ h.conflicting \in BOOLEAN /\ h.signal = Signal(e)
  BY DEF History
<1>2. ~h.success
  BY <1>1 DEF RetryAdvised, Decide, Advice, Retries
<1>3. ~Integrity(h)
  BY <1>1, <1>2 DEF RetryAdvised, Decide, Advice, Retries
<1>4. Decide(h) = BySignal[Signal(e)]
  BY <1>1, <1>2, <1>3 DEF Decide
<1>5. Signal(e) # "unknown"
  BY <1>4 DEF RetryAdvised, BySignal, Advice, Retries
<1> QED BY <1>2, <1>3, <1>5

\* The advice about a payment never becomes a retry because history was added
\* to it (History and Decide; docs/planning.md: any stored success prevents a
\* new retry recommendation regardless of order).
LEMMA MoreHistoryHardens ==
  ASSUME NEW S, NEW T, S \subseteq T, NEW e,
         RetryAdvised(History(T, e))
  PROVE  RetryAdvised(History(S, e))
<1> DEFINE h == History(S, e)
           g == History(T, e)
<1>1. ~g.success /\ ~Integrity(g)
  BY RetryEvidence
<1>2. ~h.success /\ ~h.mixed
  BY <1>1 DEF History
<1>3. ~h.inconsistent
  BY <1>1 DEF History, Integrity
<1>4. ~h.conflicting
  BY <1>1 DEF History, Integrity
<1>5. h.signal = g.signal
  BY DEF History
<1>6. Decide(g) = BySignal[g.signal]
  BY <1>1 DEF Decide
<1>7. Decide(h) = BySignal[h.signal]
  BY <1>2, <1>3, <1>4 DEF Decide, Integrity
<1> QED BY <1>5, <1>6, <1>7 DEF RetryAdvised

LEMMA HistoryType == \A S, e : History(S, e) \in Evidence
BY DEF History, Evidence, Signal, Signals

-----------------------------------------------------------------------------
(* Types.                                                                  *)

\* What a process has at each of its statements.
Progress ==
  \A p \in Planners :
    /\ pc[p] # "idle" => request[p] \in Requests
    /\ pc[p] \in {"locked", "associated", "reading", "deciding"} => request[p].kind = "plan"
    /\ pc[p] = "deciding" => tx[p].evidence \in Evidence
    /\ pc[p] \in {"reading", "deciding", "ready"} =>
         tx[p].diagnosis = Diagnosis(request[p].observation)

Typed == TypeOK /\ Progress

LEMMA RequestType ==
  ASSUME NEW r \in Requests
  PROVE  /\ r.observation \in Observations
         /\ r.kind = "plan" => r.event \in Events
BY DEF Requests, DiagnoseRequest, PlanRequest

LEMMA PlanType ==
  ASSUME NEW o \in Observations, NEW e \in Events, NEW v \in Evidence
  PROVE  Plan(o, e, v) \in Plans
BY DEF Plans

LEMMA DiagnosisType ==
  ASSUME NEW o \in Observations
  PROVE  Diagnosis(o) \in Diagnoses
BY DEF Diagnoses

LEMMA NewTxType == ASSUME NEW n \in Nat PROVE NewTx(n) \in Transactions
BY DEF NewTx, Transactions

LEMMA EndTyped ==
  ASSUME NEW p \in Planners, NEW told, Typed, told \in Answers, End(p, told)
  PROVE  /\ lock' \in Planners \cup {None}
         /\ pc' \in [Planners -> InTransaction \cup {"idle", "waiting"}]
         /\ request' \in [Planners -> Requests \cup {None}]
         /\ tx' \in [Planners -> Transactions]
         /\ answer' \in [Planners -> Answers]
         /\ Progress'
<1> USE DEF Typed, TypeOK
<1>1. NewTx(0) \in Transactions
  BY NewTxType
<1>2. /\ lock' \in Planners \cup {None}
      /\ pc' \in [Planners -> InTransaction \cup {"idle", "waiting"}]
      /\ request' \in [Planners -> Requests \cup {None}]
      /\ tx' \in [Planners -> Transactions]
      /\ answer' \in [Planners -> Answers]
  BY <1>1 DEF End, Goto
<1>3. Progress'
  BY DEF End, Goto, Progress
<1> QED BY <1>2, <1>3

LEMMA TypeStep == Typed /\ [Next]_vars => Typed'
<1> SUFFICES ASSUME Typed, [Next]_vars PROVE Typed'
  OBVIOUS
<1> USE DEF Typed, TypeOK
<1>1. ASSUME NEW e \in Events, Ingest(e) PROVE Typed'
  BY <1>1 DEF Ingest, Progress
<1>2. ASSUME NEW o \in Observations, Observe(o) PROVE Typed'
  BY <1>2 DEF Observe, Progress
<1>3. ASSUME NEW p \in Planners, NEW r \in Requests, Begin(p, r) PROVE Typed'
  <2>1. NewTx(Len(events)) \in Transactions
    BY NewTxType
  <2>2. Told("none", None) \in Answers
    BY DEF Told, Answers
  <2>3. TypeOK'
    BY <1>3, <2>1, <2>2 DEF Begin, Goto, db
  <2>4. Progress'
    BY <1>3 DEF Begin, Goto, db, Progress
  <2> QED BY <2>3, <2>4
<1>4. ASSUME NEW p \in Planners, LockMerchant(p) PROVE Typed'
  <2>1. TypeOK'
    BY <1>4 DEF LockMerchant, Goto, db, InTransaction
  <2>2. Progress'
    BY <1>4 DEF LockMerchant, Goto, db, Progress
  <2> QED BY <2>1, <2>2
<1>5. ASSUME NEW p \in Planners, Proceed(p) PROVE Typed'
  <2>1. CASE FindCandidate(p)
    <3>1. TypeOK'
      BY <2>1 DEF FindCandidate, Goto, db, InTransaction
    <3>2. Progress'
      BY <2>1 DEF FindCandidate, Goto, db, Progress
    <3> QED BY <3>1, <3>2
  <2>2. CASE RefuseUnknown(p)
    <3>1. Told("not_found", None) \in Answers
      BY DEF Told, Answers
    <3> QED BY <2>2, <3>1, EndTyped DEF RefuseUnknown, Rollback, db
  <2>3. CASE ReplayPlan(p)
    <3>1. PICK q \in ExistingPlans(request[p].event) : End(p, Told("replayed", q))
      BY <2>3 DEF ReplayPlan
    <3>2. Told("replayed", q) \in Answers
      BY DEF Told, Answers, ExistingPlans
    <3> QED BY <2>3, <3>1, <3>2, EndTyped DEF ReplayPlan, db
  <2>4. CASE RefuseConflict(p)
    <3>1. PICK q \in ExistingPlans(request[p].event) : End(p, Told("conflict", q))
      BY <2>4 DEF RefuseConflict
    <3>2. Told("conflict", q) \in Answers
      BY DEF Told, Answers, ExistingPlans
    <3> QED BY <2>4, <3>1, <3>2, EndTyped DEF RefuseConflict, db
  <2>5. CASE FindNoPlan(p)
    <3>1. TypeOK'
      BY <2>5 DEF FindNoPlan, Goto, db, InTransaction
    <3>2. Progress'
      BY <2>5 DEF FindNoPlan, Goto, db, Progress
    <3> QED BY <3>1, <3>2
  <2>6. CASE UseDiagnosis(p)
    <3>1. PICK d \in ExistingDiagnoses(request[p].observation) :
            tx' = [tx EXCEPT ![p].diagnosis = d]
      BY <2>6 DEF UseDiagnosis
    <3>2. d \in Diagnoses /\ d = Diagnosis(request[p].observation)
      BY DEF ExistingDiagnoses, Diagnoses, Diagnosis
    <3>3. TypeOK'
      <4>1. tx' \in [Planners -> Transactions]
        <5>1. tx[p] \in Transactions
          OBVIOUS
        <5>2. [tx[p] EXCEPT !.diagnosis = d] \in Transactions
          BY <3>2, <5>1 DEF Transactions
        <5> QED BY <3>1, <5>2
      <4> QED BY <2>6, <4>1 DEF UseDiagnosis, Goto, db, InTransaction, AfterDiagnosis
    <3>4. Progress'
      BY <2>6, <3>1, <3>2 DEF UseDiagnosis, Goto, db, Progress, AfterDiagnosis, Transactions
    <3> QED BY <3>3, <3>4
  <2>7. CASE FindNoDiagnosis(p)
    <3>1. TypeOK'
      BY <2>7 DEF FindNoDiagnosis, Goto, db, InTransaction
    <3>2. Progress'
      BY <2>7 DEF FindNoDiagnosis, Goto, db, Progress
    <3> QED BY <3>1, <3>2
  <2>8. CASE AddDiagnosis(p)
    <3>1. request[p] \in Requests
      BY <2>8 DEF AddDiagnosis, Progress
    <3>2. Diagnosis(request[p].observation) \in Diagnoses
      BY <3>1, RequestType, DiagnosisType
    <3>3. TypeOK'
      <4>1. tx' \in [Planners -> Transactions]
        <5>1. tx[p] \in Transactions
          OBVIOUS
        <5> DEFINE t == [tx[p] EXCEPT !.diagnosis = Diagnosis(request[p].observation),
                                      !.fresh = TRUE]
        <5>2. t \in Transactions
          BY <3>2, <5>1 DEF Transactions
        <5>3. tx' = [tx EXCEPT ![p] = t]
          BY <2>8 DEF AddDiagnosis
        <5> QED BY <5>2, <5>3
      <4> QED BY <2>8, <4>1 DEF AddDiagnosis, Goto, db, InTransaction, AfterDiagnosis
    <3>4. Progress'
      BY <2>8 DEF AddDiagnosis, Goto, db, Progress, AfterDiagnosis, Transactions
    <3> QED BY <3>3, <3>4
  <2>9. CASE ReadHistory(p)
    <3>1. History(Stored, request[p].event) \in Evidence
      BY HistoryType
    <3>2. TypeOK'
      BY <2>9, <3>1 DEF ReadHistory, Goto, db, InTransaction, Transactions
    <3>3. Progress'
      BY <2>9, <3>1 DEF ReadHistory, Goto, db, Progress, Transactions
    <3> QED BY <3>2, <3>3
  <2>10. CASE AddPlan(p)
    <3>1. request[p] \in Requests /\ request[p].kind = "plan" /\ tx[p].evidence \in Evidence
      BY <2>10 DEF AddPlan, Progress
    <3>2. Plan(request[p].observation, request[p].event, tx[p].evidence) \in Plans
      BY <3>1, RequestType, PlanType
    <3>3. TypeOK'
      BY <2>10, <3>2 DEF AddPlan, Goto, db, InTransaction, Transactions
    <3>4. Progress'
      BY <2>10 DEF AddPlan, Goto, db, Progress, Transactions
    <3> QED BY <3>3, <3>4
  <2>11. CASE Commit(p)
    <3>1. request[p] \in Requests /\ tx[p].diagnosis = Diagnosis(request[p].observation)
      BY <2>11 DEF Commit, Progress
    <3>2. tx[p].diagnosis \in Diagnoses
      BY <3>1, RequestType, DiagnosisType
    <3>3. tx[p].plan # None => tx[p].plan \in Plans
      BY DEF Transactions
    <3>4. Result(p) \in Answers /\ Told("unavailable", None) \in Answers
      BY <3>2, <3>3 DEF Result, Told, Answers
    <3>5. Records(p) \in Seq(AuditRecords)
      <4>1. DiagnosisRecord(tx[p].diagnosis) \in AuditRecords
        BY <3>2 DEF AuditRecords, DiagnosisRecord
      <4>2. tx[p].plan # None => PlanRecord(tx[p].plan) \in AuditRecords
        BY <3>3 DEF AuditRecords, PlanRecord
      <4> QED BY <4>1, <4>2 DEF Records
    <3>6. diagnoses' \subseteq Diagnoses /\ plans' \subseteq Plans
      BY <2>11, <3>2, <3>3 DEF Commit
    <3>7. audit' \in Seq(AuditRecords)
      BY <2>11, <3>5 DEF Commit
    <3>8. PICK told \in {Result(p), Told("unavailable", None)} : End(p, told)
      BY <2>11 DEF Commit
    <3> QED BY <2>11, <3>4, <3>6, <3>7, <3>8, EndTyped DEF Commit
  <2> QED
    BY <1>5, <2>1, <2>2, <2>3, <2>4, <2>5, <2>6, <2>7, <2>8, <2>9, <2>10, <2>11 DEF Proceed
<1>6. ASSUME NEW p \in Planners, Fail(p) PROVE Typed'
  <2>1. Told("unavailable", None) \in Answers
    BY DEF Told, Answers
  <2> QED BY <1>6, <2>1, EndTyped DEF Fail, Rollback, db
<1>7. CASE UNCHANGED vars
  BY <1>7 DEF vars, Progress
<1> QED BY <1>1, <1>2, <1>3, <1>4, <1>5, <1>6, <1>7 DEF Next

\* Every variable has its type, whatever the processes do (planning_models.py).
THEOREM TypeCorrect == Spec => []TypeOK
<1>1. Init => Typed
  <2>1. NewTx(0) \in Transactions
    BY NewTxType
  <2>2. Told("none", None) \in Answers
    BY DEF Told, Answers
  <2> QED BY <2>1, <2>2 DEF Init, Typed, TypeOK, Progress
<1>2. Typed => TypeOK
  BY DEF Typed
<1> QED BY <1>1, <1>2, TypeStep, PTL DEF Spec

LEMMA StoredGrows ==
  ASSUME events \in Seq(Events), NEW e \in Events, Ingest(e)
  PROVE  Stored \subseteq Stored'
<1>1. events' = Append(events, e)
  BY DEF Ingest
<1>2. ASSUME NEW k \in DOMAIN events PROVE k \in DOMAIN events' /\ events'[k] = events[k]
  BY <1>1
<1> QED BY <1>2 DEF Stored

\* Ingestion only ever hardens the advice about a payment.
THEOREM AdviceOnlyHardens == Spec => AdviceHardens
<1>1. TypeOK /\ [Next]_vars =>
        [\A e \in Stored :
           RetryAdvised(History(Stored', e)) => RetryAdvised(History(Stored, e))]_events
  <2> SUFFICES ASSUME TypeOK, [Next]_vars, events' # events
               PROVE  \A e \in Stored :
                        RetryAdvised(History(Stored', e)) => RetryAdvised(History(Stored, e))
    OBVIOUS
  <2>1. PICK e \in Events : Ingest(e)
    <3>1. ASSUME NEW p \in Planners, NEW r \in Requests, Begin(p, r) PROVE FALSE
      BY <3>1 DEF Begin, db
    <3>2. ASSUME NEW p \in Planners, LockMerchant(p) PROVE FALSE
      BY <3>2 DEF LockMerchant, db
    <3>3. ASSUME NEW p \in Planners, Proceed(p) PROVE FALSE
      BY <3>3 DEF Proceed, FindCandidate, RefuseUnknown, ReplayPlan, RefuseConflict, FindNoPlan,
           UseDiagnosis, FindNoDiagnosis, AddDiagnosis, ReadHistory, AddPlan, Commit, Rollback, db
    <3>4. ASSUME NEW p \in Planners, Fail(p) PROVE FALSE
      BY <3>4 DEF Fail, Rollback, db
    <3>5. ASSUME NEW o \in Observations, Observe(o) PROVE FALSE
      BY <3>5 DEF Observe
    <3>6. CASE UNCHANGED vars
      BY <3>6 DEF vars
    <3> QED BY <3>1, <3>2, <3>3, <3>4, <3>5, <3>6 DEF Next
  <2>2. Stored \subseteq Stored'
    BY <2>1, StoredGrows DEF TypeOK
  <2> QED BY <2>2, MoreHistoryHardens
<1> QED BY <1>1, TypeCorrect, PTL DEF Spec, AdviceHardens
-----------------------------------------------------------------------------
(* The lock, and what its holder may rely on.                              *)

Holding == \A p \in Planners : pc[p] \in InTransaction <=> lock = p

Seen(n) == {events[k] : k \in 1..n}

\* What a transaction has found out stays true until it commits.
Sound(p) ==
  LET r == request[p]
      t == tx[p]
      forPlan == r.kind = "plan"
  IN /\ forPlan /\ pc[p] \in InTransaction \ {"locked"} =>
          r.event \in Stored /\ Associated(r.event, r.observation)
     /\ forPlan /\ pc[p] \in InTransaction \ {"locked", "associated"} =>
          ExistingPlans(r.event) = {}
     /\ pc[p] \in {"undiagnosed", "reading", "deciding", "ready"} =>
          r.observation \in observations
     /\ pc[p] = "undiagnosed" => Diagnosis(r.observation) \notin diagnoses
     /\ pc[p] \in {"reading", "deciding", "ready"} =>
          (t.fresh <=> Diagnosis(r.observation) \notin diagnoses)
     /\ pc[p] \notin {"reading", "deciding", "ready"} => ~t.fresh
     /\ pc[p] = "deciding" \/ (pc[p] = "ready" /\ forPlan) =>
          \E n \in 1..Len(events) :
            /\ t.since <= n
            /\ r.event \in Seen(n) /\ t.evidence = History(Seen(n), r.event)
     /\ t.since <= Len(events)
     /\ pc[p] = "ready" /\ forPlan => t.plan = Plan(r.observation, r.event, t.evidence)
     /\ pc[p] # "ready" \/ ~forPlan => t.plan = None

\* A stored plan is what the rules make of a moment's history.
Grounded ==
  \A q \in plans :
    \E n \in 1..Len(events) :
      /\ q.event \in Seen(n)
      /\ q = Plan(q.observation, q.event, History(Seen(n), q.event))

IInv == Typed /\ Holding /\ (\A p \in Planners : Sound(p)) /\ PlanPerPayment /\ Grounded

LEMMA NewDiagnosis ==
  ASSUME diagnoses \subseteq Diagnoses, NEW o
  PROVE  ExistingDiagnoses(o) = {} <=> Diagnosis(o) \notin diagnoses
BY DEF ExistingDiagnoses, Diagnoses, Diagnosis

LEMMA HoldingStep == Typed /\ Holding /\ [Next]_vars => Holding'
<1> SUFFICES ASSUME Typed, Holding, [Next]_vars PROVE Holding'
  OBVIOUS
<1> USE NoneAssumption DEF Holding, Typed, TypeOK, InTransaction, Goto, End, Rollback
<1>1. CASE UNCHANGED vars
  BY <1>1 DEF vars
<1>2. ASSUME NEW e \in Events, Ingest(e) PROVE Holding'
  BY <1>2 DEF Ingest
<1>3. ASSUME NEW o \in Observations, Observe(o) PROVE Holding'
  BY <1>3 DEF Observe
<1>4. ASSUME NEW p \in Planners, NEW r \in Requests, Begin(p, r) PROVE Holding'
  BY <1>4 DEF Begin
<1>5. ASSUME NEW p \in Planners, LockMerchant(p) PROVE Holding'
  BY <1>5 DEF LockMerchant
<1>6. ASSUME NEW p \in Planners, Proceed(p) PROVE Holding'
  <2>1. CASE FindCandidate(p) \/ FindNoPlan(p) \/ FindNoDiagnosis(p) \/ ReadHistory(p)
               \/ AddPlan(p)
    BY <2>1 DEF FindCandidate, FindNoPlan, FindNoDiagnosis, ReadHistory, AddPlan
  <2>2. CASE UseDiagnosis(p) \/ AddDiagnosis(p)
    BY <2>2 DEF UseDiagnosis, AddDiagnosis, AfterDiagnosis
  <2>3. CASE RefuseUnknown(p)
    BY <2>3 DEF RefuseUnknown
  <2>4. CASE ReplayPlan(p)
    BY <2>4 DEF ReplayPlan
  <2>5. CASE RefuseConflict(p)
    BY <2>5 DEF RefuseConflict
  <2>6. CASE Commit(p)
    BY <2>6 DEF Commit
  <2> QED BY <1>6, <2>1, <2>2, <2>3, <2>4, <2>5, <2>6 DEF Proceed
<1>7. ASSUME NEW p \in Planners, Fail(p) PROVE Holding'
  BY <1>7 DEF Fail
<1> QED BY <1>1, <1>2, <1>3, <1>4, <1>5, <1>6, <1>7 DEF Next

\* A process that does nothing while the tables stay as they are keeps what it
\* knows, and so does one outside its transaction.
LEMMA OthersSound ==
  ASSUME NEW q \in Planners, IInv,
         pc'[q] = pc[q], request'[q] = request[q], tx'[q] = tx[q],
         UNCHANGED db
  PROVE  Sound(q)'
<1>1. /\ events' = events /\ observations' = observations
      /\ diagnoses' = diagnoses /\ plans' = plans
  BY DEF db
<1>2. Stored' = Stored /\ (\A e : ExistingPlans(e)' = ExistingPlans(e))
        /\ (\A n : Seen(n)' = Seen(n))
  BY <1>1 DEF Stored, ExistingPlans, Seen
<1>3. Sound(q)
  BY DEF IInv
<1> QED BY <1>1, <1>2, <1>3 DEF Sound

LEMMA IdleSound ==
  ASSUME NEW q \in Planners, pc'[q] \in {"idle", "waiting"},
         ~tx'[q].fresh, tx'[q].plan = None, tx'[q].since <= Len(events')
  PROVE  Sound(q)'
BY DEF Sound, InTransaction

\* A step of p's own that writes no table disturbs nobody else.
LEMMA OwnStepSound ==
  ASSUME NEW p \in Planners, IInv, UNCHANGED <<request, db>>,
         NEW to, pc' = [pc EXCEPT ![p] = to],
         NEW t, tx' = [tx EXCEPT ![p] = t], Sound(p)'
  PROVE  \A q \in Planners : Sound(q)'
<1> SUFFICES ASSUME NEW q \in Planners, q # p PROVE Sound(q)'
  OBVIOUS
<1>1. pc'[q] = pc[q] /\ request'[q] = request[q] /\ tx'[q] = tx[q] /\ UNCHANGED db
  BY DEF IInv, Typed, TypeOK
<1> QED BY <1>1, OthersSound

LEMMA SameTables ==
  ASSUME UNCHANGED db
  PROVE  /\ Stored' = Stored
         /\ \A e : ExistingPlans(e)' = ExistingPlans(e)
         /\ \A n : Seen(n)' = Seen(n)
         /\ events' = events /\ observations' = observations
         /\ diagnoses' = diagnoses /\ plans' = plans
<1>1. /\ events' = events /\ observations' = observations
      /\ diagnoses' = diagnoses /\ plans' = plans
  BY DEF db
<1> QED BY <1>1 DEF Stored, ExistingPlans, Seen

LEMMA EndSound ==
  ASSUME NEW p \in Planners, NEW told, IInv, End(p, told), UNCHANGED db
  PROVE  \A q \in Planners : Sound(q)'
<1>1. Sound(p)'
  <2>1. pc'[p] = "idle" /\ tx'[p] = NewTx(0)
    BY DEF IInv, Typed, TypeOK, End, Goto
  <2>2. ~tx'[p].fresh /\ tx'[p].plan = None /\ tx'[p].since <= Len(events')
    BY <2>1 DEF NewTx, IInv, Typed, TypeOK, db
  <2> QED BY <2>1, <2>2, IdleSound
<1>2. ASSUME NEW q \in Planners, q # p PROVE Sound(q)'
  <2>1. pc'[q] = pc[q] /\ request'[q] = request[q] /\ tx'[q] = tx[q]
    BY <1>2 DEF IInv, Typed, TypeOK, End, Goto
  <2> QED BY <2>1, OthersSound
<1> QED BY <1>1, <1>2

LEMMA SoundStep == IInv /\ [Next]_vars => \A q \in Planners : Sound(q)'
<1> SUFFICES ASSUME IInv, [Next]_vars PROVE \A q \in Planners : Sound(q)'
  OBVIOUS
<1> USE DEF IInv, Typed, TypeOK
<1>1. CASE UNCHANGED vars
  BY <1>1, OthersSound DEF vars, db
<1>2. ASSUME NEW e \in Events, Ingest(e), NEW q \in Planners PROVE Sound(q)'
  <2>1. events' = Append(events, e)
    BY <1>2 DEF Ingest
  <2>2. Stored \subseteq Stored'
    BY <1>2, StoredGrows
  <2>3. \A n \in 1..Len(events) : n \in 1..Len(events') /\ Seen(n)' = Seen(n)
    BY <2>1 DEF Seen
  <2>4. UNCHANGED <<pc, request, tx, observations, diagnoses, plans>>
    BY <1>2 DEF Ingest
  <2>5. \A f : ExistingPlans(f)' = ExistingPlans(f)
    BY <2>4 DEF ExistingPlans
  <2>6. Sound(q)
    OBVIOUS
  <2>7. tx[q].since <= Len(events')
    BY <2>1, <2>6 DEF Sound, Transactions
  <2> QED BY <2>2, <2>3, <2>4, <2>5, <2>6, <2>7 DEF Sound
<1>3. ASSUME NEW o \in Observations, Observe(o), NEW q \in Planners PROVE Sound(q)'
  <2>1. UNCHANGED <<pc, request, tx, events, diagnoses, plans>> /\ observations \subseteq observations'
    BY <1>3 DEF Observe
  <2>2. Stored' = Stored /\ (\A e : ExistingPlans(e)' = ExistingPlans(e))
          /\ (\A n : Seen(n)' = Seen(n))
    BY <2>1 DEF Stored, ExistingPlans, Seen
  <2>3. Sound(q)
    OBVIOUS
  <2> QED BY <2>1, <2>2, <2>3 DEF Sound
<1>4. ASSUME NEW p \in Planners, NEW r \in Requests, Begin(p, r), NEW q \in Planners
      PROVE Sound(q)'
  <2>1. CASE q = p
    <3>1. pc'[p] = "waiting" /\ tx'[p] = NewTx(Len(events))
      BY <1>4 DEF Begin, Goto
    <3>2. tx'[p].since = Len(events) /\ events' = events /\ Len(events) \in Nat
      BY <1>4, <3>1 DEF Begin, db, NewTx
    <3>3. tx'[p].since <= Len(events')
      BY <3>2
    <3> QED BY <2>1, <3>1, <3>3, IdleSound DEF NewTx
  <2>2. CASE q # p
    <3>1. pc'[q] = pc[q] /\ request'[q] = request[q] /\ tx'[q] = tx[q] /\ UNCHANGED db
      BY <1>4, <2>2 DEF Begin, Goto
    <3> QED BY <3>1, OthersSound
  <2> QED BY <2>1, <2>2
<1>5. ASSUME NEW p \in Planners, LockMerchant(p), NEW q \in Planners PROVE Sound(q)'
  <2>1. CASE q = p
    <3>1. Sound(p)
      OBVIOUS
    <3>2. pc[p] = "waiting" /\ UNCHANGED <<request, tx, events>>
      BY <1>5 DEF LockMerchant, db
    <3>3. pc'[p] = IF request[p].kind = "plan" THEN "locked" ELSE "diagnosing"
      BY <1>5 DEF LockMerchant, Goto
    <3> QED BY <2>1, <3>1, <3>2, <3>3 DEF Sound, InTransaction
  <2>2. CASE q # p
    <3>1. pc'[q] = pc[q] /\ request'[q] = request[q] /\ tx'[q] = tx[q] /\ UNCHANGED db
      BY <1>5, <2>2 DEF LockMerchant, Goto
    <3> QED BY <3>1, OthersSound
  <2> QED BY <2>1, <2>2
<1>6. ASSUME NEW p \in Planners, Fail(p) PROVE \A q \in Planners : Sound(q)'
  BY <1>6, EndSound DEF Fail, Rollback
<1>7. ASSUME NEW p \in Planners, Proceed(p) PROVE \A q \in Planners : Sound(q)'
  <2> DEFINE r == request[p]
             h == History(Stored, r.event)
  <2>1. Sound(p) /\ r \in Requests \cup {None} /\ tx[p] \in Transactions
    OBVIOUS
  <2>2. tx = [tx EXCEPT ![p] = tx[p]]
    OBVIOUS
  <2>3. CASE FindCandidate(p)
    <3>1. UNCHANGED <<request, tx, db>> /\ pc' = [pc EXCEPT ![p] = "associated"]
            /\ pc[p] = "locked" /\ r.event \in Stored /\ Associated(r.event, r.observation)
      BY <2>3 DEF FindCandidate, Goto, IsCandidate
    <3>2. Sound(p)'
      BY <2>1, <3>1, SameTables DEF Sound
    <3> QED BY <2>2, <3>1, <3>2, OwnStepSound
  <2>4. CASE RefuseUnknown(p)
    BY <2>4, EndSound DEF RefuseUnknown, Rollback
  <2>5. CASE ReplayPlan(p)
    BY <2>5, EndSound DEF ReplayPlan
  <2>6. CASE RefuseConflict(p)
    BY <2>6, EndSound DEF RefuseConflict
  <2>7. CASE FindNoPlan(p)
    <3>1. UNCHANGED <<request, tx, db>> /\ pc' = [pc EXCEPT ![p] = "diagnosing"]
            /\ pc[p] = "associated" /\ ExistingPlans(r.event) = {}
      BY <2>7 DEF FindNoPlan, Goto
    <3>2. Sound(p)'
      BY <2>1, <3>1, SameTables DEF Sound, InTransaction
    <3> QED BY <2>2, <3>1, <3>2, OwnStepSound
  <2>8. CASE UseDiagnosis(p)
    <3>1. PICK d \in ExistingDiagnoses(r.observation) : tx' = [tx EXCEPT ![p].diagnosis = d]
      BY <2>8 DEF UseDiagnosis
    <3>2. Diagnosis(r.observation) \in diagnoses
      BY <3>1, NewDiagnosis
    <3>3. UNCHANGED <<request, db>> /\ pc' = [pc EXCEPT ![p] = AfterDiagnosis(p)]
            /\ pc[p] = "diagnosing" /\ r.observation \in observations
      BY <2>8 DEF UseDiagnosis, Goto
    <3>4. /\ tx'[p].fresh = tx[p].fresh /\ tx'[p].plan = tx[p].plan
          /\ tx'[p].evidence = tx[p].evidence /\ tx'[p].since = tx[p].since
      BY <2>1, <3>1 DEF Transactions
    <3>5. Sound(p)'
      BY <2>1, <3>2, <3>3, <3>4, SameTables DEF Sound, InTransaction, AfterDiagnosis
    <3> QED BY <3>1, <3>3, <3>5, OwnStepSound
  <2>9. CASE FindNoDiagnosis(p)
    <3>1. UNCHANGED <<request, tx, db>> /\ pc' = [pc EXCEPT ![p] = "undiagnosed"]
            /\ pc[p] = "diagnosing" /\ r.observation \in observations
            /\ ExistingDiagnoses(r.observation) = {}
      BY <2>9 DEF FindNoDiagnosis, Goto
    <3>2. Diagnosis(r.observation) \notin diagnoses
      BY <3>1, NewDiagnosis
    <3>3. Sound(p)'
      BY <2>1, <3>1, <3>2, SameTables DEF Sound, InTransaction
    <3> QED BY <2>2, <3>1, <3>3, OwnStepSound
  <2>10. CASE AddDiagnosis(p)
    <3> DEFINE t == [tx[p] EXCEPT !.diagnosis = Diagnosis(r.observation), !.fresh = TRUE]
    <3>1. UNCHANGED <<request, db>> /\ pc' = [pc EXCEPT ![p] = AfterDiagnosis(p)]
            /\ tx' = [tx EXCEPT ![p] = t] /\ pc[p] = "undiagnosed"
      BY <2>10 DEF AddDiagnosis, Goto
    <3>2. tx'[p].fresh = TRUE /\ tx'[p].plan = tx[p].plan /\ tx'[p].since = tx[p].since
      BY <2>1, <3>1 DEF Transactions
    <3>3. Sound(p)'
      BY <2>1, <3>1, <3>2, SameTables DEF Sound, InTransaction, AfterDiagnosis
    <3> QED BY <3>1, <3>3, OwnStepSound
  <2>11. CASE ReadHistory(p)
    <3> DEFINE t == [tx[p] EXCEPT !.evidence = h]
    <3>1. UNCHANGED <<request, db>> /\ pc' = [pc EXCEPT ![p] = "deciding"]
            /\ tx' = [tx EXCEPT ![p] = t] /\ pc[p] = "reading"
      BY <2>11 DEF ReadHistory, Goto
    <3>2. /\ tx'[p].fresh = tx[p].fresh /\ tx'[p].plan = tx[p].plan
          /\ tx'[p].evidence = h /\ tx'[p].since = tx[p].since
      BY <2>1, <3>1 DEF Transactions
    <3>3. r.kind = "plan"
      BY <3>1 DEF Progress
    <3>4. r.event \in Stored
      BY <2>1, <3>1, <3>3 DEF Sound, InTransaction
    <3>5. Len(events) \in 1..Len(events) /\ Seen(Len(events)) = Stored
      BY <3>4 DEF Stored, Seen
    <3>6. \E n \in 1..Len(events) :
            tx[p].since <= n /\ r.event \in Seen(n) /\ h = History(Seen(n), r.event)
      BY <2>1, <3>4, <3>5 DEF Sound
    <3>7. Sound(p)'
      BY <2>1, <3>1, <3>2, <3>3, <3>6, SameTables DEF Sound, InTransaction
    <3> QED BY <3>1, <3>7, OwnStepSound
  <2>12. CASE AddPlan(p)
    <3> DEFINE q == Plan(r.observation, r.event, tx[p].evidence)
               t == [tx[p] EXCEPT !.plan = q]
    <3>1. UNCHANGED <<request, db>> /\ pc' = [pc EXCEPT ![p] = "ready"]
            /\ tx' = [tx EXCEPT ![p] = t] /\ pc[p] = "deciding"
      BY <2>12 DEF AddPlan, Goto
    <3>2. /\ tx'[p].fresh = tx[p].fresh /\ tx'[p].plan = q
          /\ tx'[p].evidence = tx[p].evidence /\ tx'[p].since = tx[p].since
      BY <2>1, <3>1 DEF Transactions
    <3>3. r.kind = "plan"
      BY <3>1 DEF Progress
    <3>4. Sound(p)'
      BY <2>1, <3>1, <3>2, <3>3, SameTables DEF Sound, InTransaction
    <3> QED BY <3>1, <3>4, OwnStepSound
  <2>13. CASE Commit(p)
    <3>1. PICK told : End(p, told)
      BY <2>13 DEF Commit
    <3>2. ASSUME NEW q \in Planners, q # p PROVE Sound(q)'
      <4>1. pc'[q] = pc[q] /\ tx'[q] = tx[q]
        BY <3>1, <3>2 DEF End, Goto
      <4>2. pc[q] \notin InTransaction
        BY <2>13, <3>2 DEF Commit, Holding, InTransaction
      <4>3. /\ pc[q] \in {"idle", "waiting"} /\ ~tx[q].fresh /\ tx[q].plan = None
            /\ tx[q].since <= Len(events')
        BY <2>13, <4>2 DEF Sound, InTransaction, Commit
      <4> QED BY <4>1, <4>3, IdleSound
    <3>3. pc'[p] = "idle" /\ tx'[p] = NewTx(0)
      BY <3>1 DEF End, Goto
    <3>4. tx'[p].since <= Len(events')
      BY <2>13, <3>3 DEF NewTx, Commit
    <3>5. Sound(p)'
      BY <3>3, <3>4, IdleSound DEF NewTx
    <3> QED BY <3>2, <3>5
  <2> QED
    BY <1>7, <2>3, <2>4, <2>5, <2>6, <2>7, <2>8, <2>9, <2>10, <2>11, <2>12, <2>13 DEF Proceed
<1> QED BY <1>1, <1>2, <1>3, <1>4, <1>5, <1>6, <1>7 DEF Next

-----------------------------------------------------------------------------
(* What is committed.                                                      *)

\* Only a commit writes diagnoses and plans, and events are only appended.
LEMMA OnlyCommitsWrite ==
  ASSUME IInv, [Next]_vars
  PROVE  /\ \/ diagnoses' = diagnoses /\ plans' = plans
            \/ \E p \in Planners : Commit(p)
         /\ \A n \in 1..Len(events) : n \in 1..Len(events') /\ Seen(n)' = Seen(n)
<1> USE DEF IInv, Typed, TypeOK
<1>1. CASE UNCHANGED vars
  BY <1>1 DEF vars, Seen
<1>2. ASSUME NEW e \in Events, Ingest(e)
      PROVE  /\ diagnoses' = diagnoses /\ plans' = plans
             /\ \A n \in 1..Len(events) : n \in 1..Len(events') /\ Seen(n)' = Seen(n)
  BY <1>2 DEF Ingest, Seen
<1>3. ASSUME NEW p \in Planners, Proceed(p), ~Commit(p) PROVE UNCHANGED db
  BY <1>3 DEF Proceed, FindCandidate, RefuseUnknown, ReplayPlan, RefuseConflict, FindNoPlan,
     UseDiagnosis, FindNoDiagnosis, AddDiagnosis, ReadHistory, AddPlan, Rollback
<1>4. ASSUME NEW p \in Planners, Commit(p) PROVE events' = events
  BY <1>4 DEF Commit
<1>5. ASSUME NEW o \in Observations, Observe(o) PROVE UNCHANGED <<events, diagnoses, plans>>
  BY <1>5 DEF Observe
<1>6. ASSUME NEW p \in Planners, \/ \E r \in Requests : Begin(p, r)
                                \/ LockMerchant(p) \/ Fail(p)
      PROVE UNCHANGED db
  BY <1>6 DEF Begin, LockMerchant, Fail, Rollback
<1>7. (\E e \in Events : Ingest(e)) \/ (\E p \in Planners : Commit(p))
        \/ UNCHANGED <<events, diagnoses, plans>>
  BY <1>1, <1>3, <1>5, <1>6 DEF Next, vars, db
<1> QED BY <1>2, <1>4, <1>7 DEF Seen

LEMMA PlansStep == IInv /\ [Next]_vars => PlanPerPayment' /\ Grounded'
<1> SUFFICES ASSUME IInv, [Next]_vars PROVE PlanPerPayment' /\ Grounded'
  OBVIOUS
<1> USE DEF IInv
<1>1. \A n \in 1..Len(events) : n \in 1..Len(events') /\ Seen(n)' = Seen(n)
  BY OnlyCommitsWrite
<1>2. CASE diagnoses' = diagnoses /\ plans' = plans
  BY <1>1, <1>2 DEF PlanPerPayment, Grounded
<1>3. ASSUME NEW p \in Planners, Commit(p) PROVE PlanPerPayment' /\ Grounded'
  <2> DEFINE r == request[p]
             q == tx[p].plan
  <2>1. diagnoses \subseteq diagnoses'
    BY <1>3 DEF Commit
  <2>2. CASE q = None
    <3>1. plans' = plans
      BY <1>3, <2>2 DEF Commit
    <3> QED BY <1>1, <2>1, <3>1 DEF PlanPerPayment, Grounded
  <2>3. CASE q # None
    <3>1. pc[p] = "ready" /\ r \in Requests /\ Diagnosis(r.observation) \in diagnoses'
      BY <1>3 DEF Commit, Typed, Progress
    <3>2. r.kind = "plan"
      BY <2>3 DEF Sound
    <3>3. PICK n \in 1..Len(events) :
            r.event \in Seen(n) /\ tx[p].evidence = History(Seen(n), r.event)
      BY <3>1, <3>2 DEF Sound
    <3>4. q = Plan(r.observation, r.event, History(Seen(n), r.event))
      BY <3>1, <3>2, <3>3 DEF Sound
    <3>5. /\ q.source = r.event.source /\ q.payment = r.event.payment
          /\ q.event = r.event /\ q.observation = r.observation
      BY <3>4 DEF Plan
    <3>6. ExistingPlans(r.event) = {} /\ Associated(r.event, r.observation)
      BY <3>1, <3>2 DEF Sound, InTransaction
    <3>7. plans' = plans \cup {q}
      BY <1>3, <2>3 DEF Commit
    <3>8. PlanPerPayment'
      BY <2>1, <3>1, <3>5, <3>6, <3>7 DEF PlanPerPayment, ExistingPlans
    <3>9. \E m \in 1..Len(events') :
            /\ q.event \in Seen(m)'
            /\ q = Plan(q.observation, q.event, History(Seen(m)', q.event))
      BY <1>1, <3>3, <3>4, <3>5
    <3>10. Grounded'
      BY <1>1, <3>7, <3>9 DEF Grounded
    <3> QED BY <3>8, <3>10
  <2> QED BY <2>2, <2>3
<1> QED BY <1>2, <1>3, OnlyCommitsWrite

THEOREM Invariance == Spec => []IInv
<1>1. Init => IInv
  <2>1. Init => Typed
    <3>1. NewTx(0) \in Transactions
      BY NewTxType
    <3>2. Told("none", None) \in Answers
      BY DEF Told, Answers
    <3> QED BY <3>1, <3>2 DEF Init, Typed, TypeOK, Progress
  <2>2. Init => Holding
    BY NoneAssumption DEF Init, Holding, InTransaction
  <2>3. Init => \A p \in Planners : Sound(p)
    BY DEF Init, Sound, InTransaction, NewTx
  <2>4. Init => PlanPerPayment /\ Grounded
    BY DEF Init, PlanPerPayment, Grounded
  <2> QED BY <2>1, <2>2, <2>3, <2>4 DEF IInv
<1>2. IInv /\ [Next]_vars => IInv'
  BY TypeStep, HoldingStep, SoundStep, PlansStep DEF IInv
<1> QED BY <1>1, <1>2, PTL DEF Spec

\* A payment has at most one plan, made from an event of the observation it is
\* filed under, whose diagnosis is stored (plan_recovery, uq_plan_payment_policy).
THEOREM OnePlanForPayment == Spec => []PlanPerPayment
<1>1. IInv => PlanPerPayment
  BY DEF IInv
<1> QED BY <1>1, Invariance, PTL

\* Neither unique constraint of planning_models.py is ever hit: the lock keeps
\* what a transaction looked for absent until it inserts it.
THEOREM NoInsertCollides == Spec => []InsertsNeverCollide
<1>1. IInv => InsertsNeverCollide
  <2> SUFFICES ASSUME IInv, NEW p \in Planners
               PROVE  /\ pc[p] = "undiagnosed" =>
                           ExistingDiagnoses(request[p].observation) = {}
                      /\ pc[p] = "ready" /\ tx[p].fresh =>
                           ExistingDiagnoses(request[p].observation) = {}
                      /\ request[p] # None /\ request[p].kind = "plan"
                           /\ pc[p] \in {"diagnosing", "undiagnosed", "reading",
                                         "deciding", "ready"} =>
                           ExistingPlans(request[p].event) = {}
    BY DEF InsertsNeverCollide
  <2>1. Sound(p) /\ diagnoses \subseteq Diagnoses
    BY DEF IInv, Typed, TypeOK
  <2>2. ExistingDiagnoses(request[p].observation) = {} <=>
          Diagnosis(request[p].observation) \notin diagnoses
    BY <2>1, NewDiagnosis
  <2> QED BY <2>1, <2>2 DEF Sound, InTransaction
<1> QED BY <1>1, Invariance, PTL

\* A retry is recommended only of a payment whose stored events all said, at
\* some moment, that it failed, consistently and from the recommended cause
\* (docs/planning.md: integrity blockers).
THEOREM RetriesJustified == Spec => []RetryJustified
<1>1. IInv => RetryJustified
  <2> SUFFICES ASSUME IInv, NEW q \in plans, q.advice.action \in Retries
               PROVE \E n \in DOMAIN events :
                       /\ q.event \in Seen(n)
                       /\ \A k \in 1..n : SamePayment(events[k], q.event) =>
                            /\ events[k].status = "failed"
                            /\ events[k].cohort = q.event.cohort
                            /\ events[k].amount = q.event.amount
                            /\ events[k].error \in Reviewed => events[k].error = q.event.error
    BY DEF RetryJustified, Seen
  <2> USE DEF IInv, Typed, TypeOK
  <2>1. PICK n \in 1..Len(events) :
          q.event \in Seen(n) /\ q = Plan(q.observation, q.event, History(Seen(n), q.event))
    BY DEF Grounded
  <2> DEFINE e == q.event
             v == History(Seen(n), e)
  <2>2. q.advice = Decide(v)
    BY <2>1 DEF Plan
  <2>3. ~v.success /\ ~Integrity(v) /\ Signal(e) # "unknown"
    BY <2>2, RetryEvidence DEF RetryAdvised
  <2>4. e.status = "failed"
    BY DEF PlanPerPayment, Associated
  <2>5. SignalledFailure(e) /\ SamePayment(e, e) /\ e.source = "normalized_api"
    BY <2>3, <2>4 DEF SignalledFailure, SamePayment, Signal
  <2>6. ASSUME NEW k \in 1..n, SamePayment(events[k], e)
        PROVE /\ events[k].status = "failed"
              /\ events[k].cohort = e.cohort /\ events[k].amount = e.amount
              /\ events[k].error \in Reviewed => events[k].error = e.error
    <3>1. events[k] \in Events /\ events[k] \in Seen(n)
      BY <2>1 DEF Seen
    <3>2. events[k].status # "success"
      BY <2>3, <2>6, <3>1 DEF History
    <3>3. events[k].status = "failed"
      BY <3>1, <3>2, StatusAssumption
    <3>4. events[k].cohort = e.cohort /\ events[k].amount = e.amount
      BY <2>1, <2>3, <2>5, <2>6, <3>1 DEF History, Integrity
    <3>5. ASSUME events[k].error \in Reviewed PROVE events[k].error = e.error
      <4>1. SignalledFailure(events[k])
        BY <2>5, <2>6, <3>3, <3>5 DEF SignalledFailure, SamePayment, Signal, Reviewed
      <4> QED BY <2>1, <2>3, <2>5, <2>6, <3>1, <4>1 DEF History, Integrity
    <3> QED BY <3>3, <3>4, <3>5
  <2> QED BY <2>1, <2>6
<1> QED BY <1>1, Invariance, PTL

\* A plan's evidence is the payment's history at a moment not before it was
\* asked for (history in plan_recovery).
THEOREM EvidenceIsCurrent == Spec => EvidenceCurrent
<1>1. IInv /\ [Next]_vars =>
        [\A q \in plans' \ plans :
           \E p \in Planners :
             /\ tx[p].plan = q
             /\ \E n \in tx[p].since..Len(events) :
                  q.evidence = History({events[k] : k \in 1..n}, q.event)]_plans
  <2> SUFFICES ASSUME IInv, [Next]_vars, NEW q \in plans' \ plans
               PROVE \E p \in Planners :
                       /\ tx[p].plan = q
                       /\ \E n \in tx[p].since..Len(events) :
                            q.evidence = History({events[k] : k \in 1..n}, q.event)
    OBVIOUS
  <2> USE DEF IInv, Typed
  <2>1. PICK p \in Planners : Commit(p)
    BY OnlyCommitsWrite
  <2>2. q = tx[p].plan /\ q # None /\ pc[p] = "ready"
    BY <2>1 DEF Commit
  <2>3. request[p].kind = "plan"
    BY <2>2 DEF Sound
  <2>4. q = Plan(request[p].observation, request[p].event, tx[p].evidence)
    BY <2>2, <2>3 DEF Sound
  <2>5. PICK n \in 1..Len(events) :
          tx[p].since <= n /\ tx[p].evidence = History(Seen(n), request[p].event)
    BY <2>2, <2>3 DEF Sound
  <2>6. tx[p].since \in Nat
    BY DEF TypeOK, Transactions
  <2>7. n \in tx[p].since..Len(events) /\ q.evidence = History(Seen(n), q.event)
    BY <2>4, <2>5, <2>6 DEF Plan, TypeOK
  <2> QED BY <2>2, <2>7 DEF Seen
<1> QED BY <1>1, Invariance, PTL DEF Spec, EvidenceCurrent

-----------------------------------------------------------------------------
(* Answers.                                                                *)

\* What AnswersDurable says of one answer, of tables with these rows.
Durable(r, a, D, P) ==
  /\ a.kind \in {"diagnosed", "planned", "replayed"} =>
       /\ a.record \in D \cup P
       /\ a.record.observation = r.observation
       /\ r.kind = "plan" => a.record \in P /\ a.record.event = r.event
  /\ a.kind = "conflict" =>
       /\ a.record \in {q \in P : q.source = r.event.source /\ q.payment = r.event.payment}
       /\ <<a.record.event, a.record.observation>> # <<r.event, r.observation>>

LEMMA AnswersAre ==
  /\ AnswersDurable <=> \A p \in Planners : Durable(request[p], answer[p], diagnoses, plans)
  /\ AnswersDurable' <=> \A p \in Planners : Durable(request'[p], answer'[p], diagnoses', plans')
BY DEF AnswersDurable, Durable, ExistingPlans

\* Tables that only grow keep an answer true.
LEMMA DurableGrows ==
  ASSUME NEW r, NEW a, NEW D, NEW P, NEW E, NEW Q, Durable(r, a, D, P), D \subseteq E, P \subseteq Q
  PROVE  Durable(r, a, E, Q)
BY DEF Durable

LEMMA EmptyAnswer ==
  ASSUME NEW r, NEW D, NEW P, NEW kind \in {"none", "not_found", "unavailable"}
  PROVE  Durable(r, Told(kind, None), D, P)
BY DEF Durable, Told

\* What a commit tells is what it has published.
LEMMA ResultDurable ==
  ASSUME IInv, NEW p \in Planners, Commit(p)
  PROVE  Durable(request[p], Result(p), diagnoses', plans')
<1> DEFINE r == request[p]
           t == tx[p]
<1>1. /\ pc[p] = "ready" /\ r \in Requests /\ t.diagnosis = Diagnosis(r.observation) /\ Sound(p)
      /\ diagnoses' = diagnoses \cup {t.diagnosis}
      /\ plans' = IF t.plan # None THEN plans \cup {t.plan} ELSE plans
  BY DEF Commit, IInv, Typed, Progress
<1>2. CASE t.plan # None
  <2>1. t.plan = Plan(r.observation, r.event, t.evidence)
    BY <1>1, <1>2 DEF Sound
  <2>2. t.plan.observation = r.observation /\ t.plan.event = r.event
    BY <2>1 DEF Plan
  <2>3. Result(p).kind = "planned" /\ Result(p).record = t.plan /\ t.plan \in plans'
    BY <1>1, <1>2 DEF Result, Told
  <2> QED BY <2>2, <2>3 DEF Durable
<1>3. CASE t.plan = None
  <2>1. r.kind # "plan"
    <3> SUFFICES ASSUME r.kind = "plan" PROVE FALSE
      OBVIOUS
    <3>1. t.plan = Plan(r.observation, r.event, t.evidence) /\ t.evidence \in Evidence
      <4>1. t.plan = Plan(r.observation, r.event, t.evidence)
        BY <1>1 DEF Sound
      <4>2. PICK n : t.evidence = History(Seen(n), r.event)
        BY <1>1 DEF Sound
      <4> QED BY <4>1, <4>2, HistoryType
    <3>2. t.plan \in Plans
      BY <1>1, <3>1, RequestType, PlanType
    <3> QED BY <1>3, <3>2, PlanAssumption
  <2>2. t.diagnosis.observation = r.observation
    BY <1>1 DEF Diagnosis
  <2>3. /\ Result(p).kind \in {"diagnosed", "replayed"} /\ Result(p).record = t.diagnosis
        /\ t.diagnosis \in diagnoses'
    BY <1>1, <1>3 DEF Result, Told
  <2> QED BY <2>1, <2>2, <2>3 DEF Durable
<1> QED BY <1>2, <1>3

LEMMA EndDurable ==
  ASSUME IInv, AnswersDurable, NEW p \in Planners, NEW told, End(p, told),
         diagnoses \subseteq diagnoses', plans \subseteq plans',
         Durable(request[p], told, diagnoses', plans')
  PROVE  AnswersDurable'
<1>1. /\ request' = request
      /\ answer'[p] = told /\ \A q \in Planners \ {p} : answer'[q] = answer[q]
  BY DEF End, IInv, Typed, TypeOK
<1>2. ASSUME NEW q \in Planners PROVE Durable(request'[q], answer'[q], diagnoses', plans')
  <2>1. CASE q = p
    BY <1>1, <2>1
  <2>2. CASE q # p
    BY <1>1, <2>2, AnswersAre, DurableGrows
  <2> QED BY <2>1, <2>2
<1> QED BY <1>2, AnswersAre

LEMMA AnswersStep == IInv /\ AnswersDurable /\ [Next]_vars => AnswersDurable'
<1> SUFFICES ASSUME IInv, AnswersDurable, [Next]_vars PROVE AnswersDurable'
  OBVIOUS
<1>1. diagnoses \subseteq diagnoses' /\ plans \subseteq plans'
  <2>1. ASSUME NEW p \in Planners, Commit(p)
        PROVE diagnoses \subseteq diagnoses' /\ plans \subseteq plans'
    BY <2>1 DEF Commit
  <2> QED BY <2>1, OnlyCommitsWrite
<1>2. CASE UNCHANGED <<request, answer>>
  BY <1>1, <1>2, AnswersAre, DurableGrows
<1>3. ASSUME NEW p \in Planners, NEW r \in Requests, Begin(p, r) PROVE AnswersDurable'
  <2>1. /\ answer'[p] = Told("none", None)
        /\ \A q \in Planners \ {p} : answer'[q] = answer[q] /\ request'[q] = request[q]
    BY <1>3 DEF Begin, IInv, Typed, TypeOK
  <2>2. ASSUME NEW q \in Planners PROVE Durable(request'[q], answer'[q], diagnoses', plans')
    <3>1. CASE q = p
      BY <2>1, <3>1, EmptyAnswer
    <3>2. CASE q # p
      BY <1>1, <2>1, <3>2, AnswersAre, DurableGrows
    <3> QED BY <3>1, <3>2
  <2> QED BY <2>2, AnswersAre
<1>4. ASSUME NEW p \in Planners, RefuseUnknown(p) \/ Fail(p) PROVE AnswersDurable'
  <2>1. PICK kind \in {"not_found", "unavailable"} : End(p, Told(kind, None))
    BY <1>4 DEF RefuseUnknown, Fail, Rollback
  <2>2. Durable(request[p], Told(kind, None), diagnoses', plans')
    BY EmptyAnswer
  <2> QED BY <1>1, <2>1, <2>2, EndDurable
<1>5. ASSUME NEW p \in Planners, ReplayPlan(p) PROVE AnswersDurable'
  <2>1. PICK q \in ExistingPlans(request[p].event) :
          SameAssociation(q, request[p]) /\ End(p, Told("replayed", q))
    BY <1>5 DEF ReplayPlan
  <2>2. Durable(request[p], Told("replayed", q), diagnoses', plans')
    BY <1>1, <2>1 DEF Durable, Told, ExistingPlans, SameAssociation
  <2> QED BY <1>1, <2>1, <2>2, EndDurable
<1>6. ASSUME NEW p \in Planners, RefuseConflict(p) PROVE AnswersDurable'
  <2>1. PICK q \in ExistingPlans(request[p].event) :
          ~SameAssociation(q, request[p]) /\ End(p, Told("conflict", q))
    BY <1>6 DEF RefuseConflict
  <2>2. Durable(request[p], Told("conflict", q), diagnoses', plans')
    BY <1>1, <2>1 DEF Durable, Told, ExistingPlans, SameAssociation
  <2> QED BY <1>1, <2>1, <2>2, EndDurable
<1>7. ASSUME NEW p \in Planners, Commit(p) PROVE AnswersDurable'
  <2>1. PICK told \in {Result(p), Told("unavailable", None)} : End(p, told)
    BY <1>7 DEF Commit
  <2>2. Durable(request[p], told, diagnoses', plans')
    BY <1>7, EmptyAnswer, ResultDurable
  <2> QED BY <1>1, <2>1, <2>2, EndDurable
<1>8. \/ UNCHANGED <<request, answer>>
      \/ \E p \in Planners : (\E r \in Requests : Begin(p, r)) \/ RefuseUnknown(p) \/ Fail(p)
           \/ ReplayPlan(p) \/ RefuseConflict(p) \/ Commit(p)
  <2>1. ASSUME NEW p \in Planners,
               \/ FindCandidate(p) \/ FindNoPlan(p) \/ UseDiagnosis(p) \/ FindNoDiagnosis(p)
               \/ AddDiagnosis(p) \/ ReadHistory(p) \/ AddPlan(p) \/ LockMerchant(p)
        PROVE  UNCHANGED <<request, answer>>
    BY <2>1 DEF FindCandidate, FindNoPlan, UseDiagnosis, FindNoDiagnosis, AddDiagnosis, ReadHistory,
       AddPlan, LockMerchant
  <2> QED BY <2>1 DEF Next, Proceed, Ingest, Observe, vars
<1> QED BY <1>2, <1>3, <1>4, <1>5, <1>6, <1>7, <1>8

\* Nobody is told of a diagnosis or plan that is not committed, is not the one
\* asked for, or goes away, and a conflict names the payment's stored plan,
\* whatever interleaves and fails (plan_recovery, diagnose_incident).
THEOREM AnswersStand == Spec => []AnswersDurable
<1>1. Init => AnswersDurable
  BY DEF Init, AnswersDurable, Told
<1> QED BY <1>1, AnswersStep, Invariance, PTL DEF Spec

-----------------------------------------------------------------------------
(* Planning implements the book.                                           *)

\* The book's rules are the planners'.
LEMMA SameRules ==
  /\ \A e, o : Book!Associated(e, o) <=> Associated(e, o)
  /\ \A o : Book!Diagnosis(o) = Diagnosis(o)
  /\ \A o, e, S : Book!Plan(o, e, Book!History(S, e)) = Plan(o, e, History(S, e))
  /\ \A x : Book!DiagnosisRecord(x) = DiagnosisRecord(x) /\ Book!PlanRecord(x) = PlanRecord(x)
<1>1. \A e, o : Book!Associated(e, o) <=> Associated(e, o)
  BY DEF Book!Associated, Associated
<1>2. \A o : Book!Diagnosis(o) = Diagnosis(o)
  BY DEF Book!Diagnosis, Diagnosis, Book!Diagnose, Diagnose, Book!Finding, Finding,
     Book!Majorities, Majorities, Book!Cause, Cause, Book!Reviewed, Reviewed
<1>3. \A S, e : Book!History(S, e) = History(S, e)
  BY DEF Book!History, History, Book!SamePayment, SamePayment, Book!SignalledFailure,
     SignalledFailure, Book!Signal, Signal, Book!Reviewed, Reviewed
<1>4. \A v : Book!Decide(v) = Decide(v)
  BY DEF Book!Decide, Decide, Book!Integrity, Integrity, Book!BySignal, BySignal,
     Book!Advice, Advice, Book!RetryAdvice, RetryAdvice, Book!NoDelay, NoDelay
<1>5. \A o, e, v : Book!Plan(o, e, v) = Plan(o, e, v)
  BY <1>4 DEF Book!Plan, Plan
<1>6. \A x : Book!DiagnosisRecord(x) = DiagnosisRecord(x) /\ Book!PlanRecord(x) = PlanRecord(x)
  BY DEF Book!DiagnosisRecord, DiagnosisRecord, Book!PlanRecord, PlanRecord
<1> QED BY <1>1, <1>2, <1>3, <1>5, <1>6

LEMMA CommitIsBooked ==
  ASSUME IInv, NEW p \in Planners, Commit(p)
  PROVE  [Book!BookNext]_(Book!book)
<1> DEFINE r == request[p]
           d == tx[p].diagnosis
           q == tx[p].plan
<1> USE DEF IInv
<1>1. pc[p] = "ready" /\ r \in Requests /\ d = Diagnosis(r.observation) /\ Sound(p)
  BY DEF Commit, Typed, Progress
<1>2. r.observation \in Observations /\ r.observation \in observations
  BY <1>1, RequestType DEF Sound
<1>3. tx[p].fresh <=> d \notin diagnoses
  BY <1>1 DEF Sound
<1>4. /\ UNCHANGED <<events, observations>> /\ diagnoses' = diagnoses \cup {d}
      /\ audit' = audit \o Records(p) /\ audit \in Seq(AuditRecords)
  BY DEF Commit, Typed, TypeOK
<1>5. tx[p].fresh \in BOOLEAN
  BY DEF Typed, TypeOK, Transactions
<1>6. CASE q = None /\ tx[p].fresh
  <2>1. Records(p) = <<DiagnosisRecord(d)>>
    BY <1>6 DEF Records
  <2>2. plans' = plans /\ audit' = Append(audit, DiagnosisRecord(d))
    <3>1. DiagnosisRecord(d) \in AuditRecords
      BY <1>1, <1>2, DiagnosisType DEF DiagnosisRecord, AuditRecords
    <3>2. Append(audit, DiagnosisRecord(d)) = audit \o <<DiagnosisRecord(d)>>
      BY <1>4, <3>1, AppendIsConcat
    <3> QED BY <1>4, <1>6, <2>1, <3>2 DEF Commit
  <2>3. Book!Diagnosed(r.observation)
    BY <1>1, <1>2, <1>3, <1>4, <1>6, <2>2, SameRules DEF Book!Diagnosed
  <2> QED BY <1>2, <2>3 DEF Book!BookNext
<1>7. CASE q = None /\ ~tx[p].fresh
  <2>1. plans' = plans /\ audit' = audit /\ diagnoses' = diagnoses
    BY <1>3, <1>4, <1>7 DEF Commit, Records
  <2> QED BY <1>4, <2>1 DEF Book!book
<1>8. CASE q # None
  <2>1. r.kind = "plan"
    BY <1>1, <1>8 DEF Sound
  <2>2. PICK n \in 1..Len(events) :
          r.event \in Seen(n) /\ tx[p].evidence = History(Seen(n), r.event)
    BY <1>1, <2>1 DEF Sound
  <2>3. q = Plan(r.observation, r.event, History(Book!Prefix(n), r.event))
          /\ r.event \in Book!Prefix(n)
    BY <1>1, <2>1, <2>2 DEF Sound, Seen, Book!Prefix
  <2>4. ~Book!Planned(r.event) /\ Associated(r.event, r.observation) /\ r.event \in Events
    BY <1>1, <2>1, RequestType DEF Sound, InTransaction, ExistingPlans, Book!Planned
  <2>5. plans' = plans \cup {q}
    BY <1>8 DEF Commit
  <2>6. Records(p) = Append(Book!NewRecords(d), PlanRecord(q))
    <3> DEFINE dr == DiagnosisRecord(d)
               pr == PlanRecord(q)
    <3>1. CASE tx[p].fresh
      <4>1. Append(<<dr>>, pr) = <<dr>> \o <<pr>>
        OBVIOUS
      <4> QED BY <1>3, <1>8, <3>1, <4>1, SameRules DEF Records, Book!NewRecords
    <3>2. CASE ~tx[p].fresh
      <4>1. Append(<<>>, pr) = <<>> \o <<pr>>
        OBVIOUS
      <4> QED BY <1>3, <1>8, <3>2, <4>1 DEF Records, Book!NewRecords
    <3> QED BY <1>5, <3>1, <3>2
  <2>7. Book!PlanMade(r.observation, r.event, n)
    <3>1. audit' = audit \o Append(Book!NewRecords(Diagnosis(r.observation)), PlanRecord(q))
      BY <1>1, <1>4, <2>6
    <3>2. diagnoses' = diagnoses \cup {Diagnosis(r.observation)}
      BY <1>1, <1>4
    <3> QED BY <1>2, <1>4, <2>3, <2>4, <2>5, <3>1, <3>2, SameRules
          DEF Book!PlanMade
  <2> QED BY <1>2, <2>4, <2>7 DEF Book!BookNext
<1> QED BY <1>5, <1>6, <1>7, <1>8

\* The planners together behave like the book: what one transaction publishes,
\* a diagnosis, a plan and their records, is one step of it.
THEOREM Implementation == Spec => ImplementsBook
<1>1. Init => Book!BookInit
  BY DEF Init, Book!BookInit
<1>2. IInv /\ [Next]_vars => [Book!BookNext]_(Book!book)
  <2> SUFFICES ASSUME IInv, [Next]_vars PROVE [Book!BookNext]_(Book!book)
    OBVIOUS
  <2>1. ASSUME NEW e \in Events, Ingest(e) PROVE Book!BookNext
    BY <2>1 DEF Ingest, Book!BookNext, Book!Ingested
  <2>2. ASSUME NEW o \in Observations, Observe(o) PROVE Book!BookNext
    BY <2>2 DEF Observe, Book!BookNext, Book!Observed
  <2>3. ASSUME NEW p \in Planners, Proceed(p), ~Commit(p) PROVE UNCHANGED db
    BY <2>3 DEF Proceed, FindCandidate, RefuseUnknown, ReplayPlan, RefuseConflict, FindNoPlan,
       UseDiagnosis, FindNoDiagnosis, AddDiagnosis, ReadHistory, AddPlan, Rollback
  <2>4. ASSUME NEW p \in Planners, \/ \E r \in Requests : Begin(p, r)
                                  \/ LockMerchant(p) \/ Fail(p)
        PROVE UNCHANGED db
    BY <2>4 DEF Begin, LockMerchant, Fail, Rollback
  <2>5. CASE UNCHANGED db \/ UNCHANGED vars
    BY <2>5 DEF db, vars, Book!book
  <2> QED BY <2>1, <2>2, <2>3, <2>4, <2>5, CommitIsBooked DEF Next
<1> QED BY <1>1, <1>2, Invariance, PTL DEF Spec, ImplementsBook, Book!BookSpec
=============================================================================
