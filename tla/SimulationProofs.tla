--------------------------- MODULE SimulationProofs ---------------------------
(***************************************************************************)
(* Theorems about Simulation, for every set of coordinators, payments and  *)
(* scenarios and any number of failures and lost locks.                    *)
(***************************************************************************)
EXTENDS Simulation, WellFoundedInduction, TLAPS

-----------------------------------------------------------------------------
(* The world                                                               *)

\* The first of some payments, and of some stages.
LEMMA LeastPayment ==
  ASSUME NEW S \in SUBSET Nat, S # {}
  PROVE  Least(S) \in S
<1>1. S \subseteq Nat
  OBVIOUS
<1>2. \E x \in S : \A y \in S : ~(<<y, x>> \in OpToRel(<, Nat))
  BY <1>1, WFMin, NatLessThanWellFounded, Zenon
<1>3. PICK x \in S : \A y \in S : ~(<<y, x>> \in OpToRel(<, Nat))
  BY <1>2, Zenon
<1>4. \A y \in S : ~(y < x)
  BY <1>1, <1>3, Zenon DEF OpToRel
<1>5. \A y \in S : x <= y
  BY <1>4
<1> QED BY <1>5 DEF Least

LEMMA LeastStage ==
  ASSUME NEW S \in SUBSET Stages, S # {}
  PROVE  Least(S) \in S /\ \A y \in S : Least(S) <= y
<1>1. S \subseteq {-1, 0, 1, 2, 3}
  BY DEF Stages
<1>2. \E x \in S : \A y \in S : x <= y
  <2>1. CASE -1 \in S
    BY <1>1, <2>1
  <2>2. CASE -1 \notin S /\ 0 \in S
    BY <1>1, <2>2
  <2>3. CASE -1 \notin S /\ 0 \notin S /\ 1 \in S
    BY <1>1, <2>3
  <2>4. CASE -1 \notin S /\ 0 \notin S /\ 1 \notin S /\ 2 \in S
    BY <1>1, <2>4
  <2>5. CASE -1 \notin S /\ 0 \notin S /\ 1 \notin S /\ 2 \notin S
    <3>1. S = {3}
      BY <1>1, <2>5
    <3> QED BY <3>1
  <2> QED BY <2>1, <2>2, <2>3, <2>4, <2>5
<1> QED BY <1>2 DEF Least

\* The time an advice asks for is a number.
LEMMA DelayIsNumber ==
  ASSUME NEW rows, NEW e
  PROVE  Decide(History(rows, e)).delay \in Int
<1> DEFINE v == History(rows, e)
<1>1. v.signal \in Signals
  BY DEF History, Signal, Signals, Reviewed
<1> HIDE DEF v
<1>2. BySignal[v.signal].delay \in Int
  <2>1. /\ BySignal["incorrect_pin"].delay = -1 /\ BySignal["insufficient_funds"].delay = -1
        /\ BySignal["network_timeout"].delay = 30 /\ BySignal["issuer_unavailable"].delay = 480
        /\ BySignal["unknown"].delay = -1
    BY DEF BySignal, Advice, RetryAdvice, NoDelay
  <2>2. v.signal \in {"network_timeout", "issuer_unavailable", "insufficient_funds",
                      "incorrect_pin", "unknown"}
    BY <1>1 DEF Signals, Reviewed
  <2> QED BY <2>1, <2>2
<1>3. Decide(v).delay \in Int
  BY <1>2 DEF Decide, Advice, NoDelay
<1> QED BY <1>3 DEF v

LEMMA SecondsIsNumber ==
  ASSUME NEW a, a.delay \in Int
  PROVE  Seconds(a) \in Int
BY DEF Seconds

\* What a stage delivers.
DeliveryKinds == {"event", "duplicate", "history", "late"}

LEMMA DeliveryFields ==
  ASSUME NEW s, NEW d \in StageDeliveries(s)
  PROVE  /\ d.event.source = "normalized_api"
         /\ d.key[1] \in DeliveryKinds
<1>1. PICK p \in Payments : d \in Deliveries(p, world[p], s)
  BY DEF StageDeliveries
<1> DEFINE w == world[p]
<1>2. /\ FailedEvent(p, w).source = "normalized_api"
      /\ HistoryEvent(p, w).source = "normalized_api"
      /\ LateEvent(p, w).source = "normalized_api"
  BY DEF FailedEvent, HistoryEvent, LateEvent
<1> HIDE DEF w
<1>3. \/ d = Delivery("event", 2, FailedEvent(p, w))
      \/ d = Delivery("duplicate", 1, FailedEvent(p, w))
      \/ d = Delivery("history", 3, HistoryEvent(p, w))
      \/ d = Delivery("late", 1, LateEvent(p, w))
  BY <1>1 DEF Deliveries, w
<1> QED BY <1>2, <1>3 DEF Delivery, DeliveryKinds

\* The hidden model answers what the attempt's truth can be.
LEMMA ModelAnswers ==
  ASSUME NEW w, NEW at
  PROVE  /\ Truth(w, at) \in {"succeeded", "failed"}
         /\ Observed(w, at) \in {Truth(w, at), "uncertain"}
BY DEF Truth, Observed

\* What an eligible attempt has behind it.
LEMMA EligibleMeans ==
  ASSUME NEW plan, NEW history, NEW w, NEW records, NEW now,
         Eligibility(plan, history, w, records, now) = "eligible"
  PROVE  /\ ~history.success
         /\ "succeeded" \notin States(records)
         /\ States(records) \cap Outstanding = {}
         /\ ~(Len(records) >= 2)
BY DEF Eligibility

-----------------------------------------------------------------------------
(* The inductive invariant                                                 *)

MeFields ==
  {"stage", "done", "delivery", "evidence", "known", "left", "payment", "ordinal", "due",
   "report"}

Enrolled == {p \in Payments : enrolled[p] # None}

\* Where a coordinator has a payment in hand, an attempt in turn, and one
\* that is reserved.
Inside ==
  {"considering", "reserving", "refused", "modelling", "observed", "suppressed", "reconciled"}
InTurn == Inside \ {"considering"}
Working == {"modelling", "observed", "suppressed"}

Placed(c) ==
  /\ DOMAIN me[c] = MeFields
  /\ me[c].stage \in Int
  /\ me[c].left \subseteq Enrolled
  /\ pc[c] \in Inside => me[c].payment \in Enrolled /\ me[c].ordinal \in 1..3
  /\ pc[c] \in InTurn => me[c].ordinal \in 1..2
  /\ pc[c] = "reserving" =>
       /\ me[c].due \in Int
       /\ me[c].ordinal = 2 =>
            /\ attempts[me[c].payment] # <<>>
            /\ me[c].due >= attempts[me[c].payment][1].at + ReconcileSeconds
  /\ pc[c] \in Working => me[c].ordinal \in DOMAIN attempts[me[c].payment]
  /\ pc[c] = "attaching" => me[c].payment \in Payments
  /\ pc[c] \in {"registering", "recording"} =>
       /\ me[c].delivery.event.source = "normalized_api"
       /\ me[c].delivery.key[1] \in DeliveryKinds

Shaped ==
  /\ DOMAIN pc = Coordinators /\ DOMAIN me = Coordinators
  /\ DOMAIN enrolled = Payments /\ DOMAIN plans = Payments /\ DOMAIN attached = Payments

\* Events come through the API, and a payment's own event enrols it.
Sourced ==
  /\ \A e \in events : e.source = "normalized_api"
  /\ \A p \in Enrolled : enrolled[p].payment = p /\ enrolled[p].source = "normalized_api"

\* What a plan says of time is a number, and a payment refers to its plan.
Timed ==
  \A p \in Payments :
    /\ plans[p] # None => plans[p].created \in Int /\ plans[p].advice.delay \in Int
    /\ attached[p] \in {None, plans[p]}

\* An attempt's truth is decided when it is no longer only reserved.
AttemptRecord ==
  [at : Int, state : AttemptStates, truth : {None, "succeeded", "failed"}]

Attempted ==
  /\ attempts \in [Payments -> Seq(AttemptRecord)]
  /\ \A p \in Payments :
       /\ Len(attempts[p]) <= 2
       /\ \A k \in DOMAIN attempts[p] :
            attempts[p][k].state = "reserved"
              \/ attempts[p][k].truth \in {"succeeded", "failed"}

\* Recorded outcomes are observations.
Outcomes ==
  \A key \in DOMAIN steps : key[1] \in {"outcome", "reconcile"} =>
    steps[key] \in {"uncertain", "failed", "succeeded"}

Inv ==
  /\ Shaped /\ Sourced /\ Timed /\ Attempted /\ Outcomes
  /\ \A c \in Coordinators : Placed(c)
  /\ ProjectionMatchesSteps

Step(c) == Acquire(c) \/ Proceed(c) \/ Fail(c) \/ LoseLock(c)

-----------------------------------------------------------------------------
(* What a step does to its coordinator and to the others                   *)

OthersStay(c) ==
  \A b \in Coordinators \ {c} : pc'[b] = pc[b] /\ me'[b] = me[b]

LEMMA OthersStep ==
  ASSUME Shaped, NEW c \in Coordinators, Step(c)
  PROVE  OthersStay(c) /\ DOMAIN pc' = Coordinators /\ DOMAIN me' = Coordinators
<1> USE DEF Shaped, OthersStay
<1>1. CASE Prepare(c)
  BY <1>1 DEF Prepare, Start, ReturnReport, Return, End, Resume, EnterStage, Goto
<1>2. CASE DeliverStage(c)
  BY <1>2 DEF DeliverStage, Deliver, Register, RecordDelivery, AllDelivered, Goto, Local, Record
<1>3. CASE PlanStage(c)
  <2>1. CASE Analyse(c)
    BY <2>1 DEF Analyse, Local, Goto
  <2>2. CASE RecordEvaluation(c)
    BY <2>2 DEF RecordEvaluation, Goto
  <2>3. CASE CloseAnalysis(c)
    BY <2>3 DEF CloseAnalysis, Record, Goto
  <2>4. CASE Scan(c)
    BY <2>4 DEF Scan, Goto
  <2>5. CASE Enumerate(c)
    BY <2>5 DEF Enumerate, Local, Goto
  <2>6. CASE PlanRecovery(c)
    BY <2>6 DEF PlanRecovery, Goto
  <2>7. CASE AttachPlan(c)
    BY <2>7 DEF AttachPlan, Goto
  <2>8. CASE ClosePlanning(c)
    BY <2>8 DEF ClosePlanning, Record, Goto
  <2> HIDE DEF Shaped, OthersStay
  <2> QED BY <1>3, <2>1, <2>2, <2>3, <2>4, <2>5, <2>6, <2>7, <2>8 DEF PlanStage
<1>4. CASE Schedule(c)
  BY <1>4 DEF Schedule, BeginSimulation, NextPayment, LeavePayment, PassOver, TakeUp, CloseStage,
  EnterStage, Goto, Local
<1>5. CASE Attempt(c)
  <2>1. CASE FindReserved(c)
    BY <2>1 DEF FindReserved, Local, Goto
  <2>2. CASE Reserve(c)
    BY <2>2 DEF Reserve, Goto
  <2>3. CASE Refuse(c)
    BY <2>3 DEF Refuse, Record, Goto
  <2>4. CASE CloseRefused(c)
    BY <2>4 DEF CloseRefused, Record, Goto
  <2>5. CASE RecordOutcome(c)
    BY <2>5 DEF RecordOutcome, Goto
  <2>6. CASE Suppress(c)
    BY <2>6 DEF Suppress, Record, Goto
  <2>7. CASE Reconcile(c)
    BY <2>7 DEF Reconcile, Goto
  <2>8. CASE CloseDispatch(c)
    BY <2>8 DEF CloseDispatch, Record, Goto
  <2> HIDE DEF Shaped, OthersStay
  <2> QED BY <1>5, <2>1, <2>2, <2>3, <2>4, <2>5, <2>6, <2>7, <2>8 DEF Attempt
<1>6. CASE Complete(c)
  BY <1>6 DEF Complete, CountSteps, CountPayment, Finish, Return, End, Goto, Local
<1>7. CASE Acquire(c) \/ Conflict(c) \/ Fail(c) \/ LoseLock(c)
  BY <1>7 DEF Acquire, Conflict, Fail, LoseLock, End, Goto
<1> HIDE DEF Shaped, OthersStay
<1> QED BY <1>1, <1>2, <1>3, <1>4, <1>5, <1>6, <1>7 DEF Step, Proceed

\* Which action changes which store.
StoresStay(c) ==
  /\ world' = world
  /\ events' = events \/ Deliver(c)
  /\ enrolled' = enrolled \/ Register(c)
  /\ plans' = plans \/ PlanRecovery(c)
  /\ attached' = attached \/ AttachPlan(c)
  /\ attempts' = attempts \/ Reserve(c) \/ RecordOutcome(c) \/ Reconcile(c)

LEMMA StoresStep ==
  ASSUME NEW c \in Coordinators, Step(c)
  PROVE  StoresStay(c)
<1> USE DEF StoresStay, Keep, db
<1>1. CASE Prepare(c)
  BY <1>1 DEF Prepare, Start, ReturnReport, Resume
<1>2. CASE DeliverStage(c)
  BY <1>2 DEF DeliverStage, Deliver, Register, RecordDelivery, AllDelivered, Local, Record
<1>3. CASE PlanStage(c)
  BY <1>3 DEF PlanStage, Analyse, RecordEvaluation, CloseAnalysis, Scan, Enumerate,
     PlanRecovery, AttachPlan, ClosePlanning, Local, Record
<1>4. CASE Schedule(c)
  BY <1>4 DEF Schedule, BeginSimulation, NextPayment, LeavePayment, PassOver, TakeUp,
     CloseStage, Local
<1>5. CASE Attempt(c)
  <2>1. CASE Reserve(c)
    BY <2>1 DEF Reserve
  <2>2. CASE RecordOutcome(c)
    <3>1. UNCHANGED <<world, events, enrolled, plans, attached>>
      BY <2>2 DEF RecordOutcome
    <3> QED BY <2>2, <3>1
  <2>3. CASE Reconcile(c)
    BY <2>3 DEF Reconcile
  <2>4. CASE FindReserved(c) \/ Refuse(c) \/ CloseRefused(c) \/ Suppress(c) \/ CloseDispatch(c)
    BY <2>4 DEF FindReserved, Refuse, CloseRefused, Suppress, CloseDispatch, Local, Record
  <2> QED BY <1>5, <2>1, <2>2, <2>3, <2>4 DEF Attempt
<1>6. CASE Complete(c)
  BY <1>6 DEF Complete, CountSteps, CountPayment, Finish, Local
<1>7. CASE Acquire(c) \/ Conflict(c) \/ Fail(c) \/ LoseLock(c)
  BY <1>7 DEF Acquire, Conflict, Fail, LoseLock
<1> QED BY <1>1, <1>2, <1>3, <1>4, <1>5, <1>6, <1>7 DEF Step, Proceed

\* The recorded steps that say what became of attempts.
Marks == {"reserved", "outcome", "reconcile"}

Same(key) ==
  /\ key \in DOMAIN steps' <=> key \in DOMAIN steps
  /\ key \in DOMAIN steps => steps'[key] = steps[key]

MarksStay == \A key : key[1] \in Marks => Same(key)

LEMMA AppendKeeps ==
  ASSUME NEW key, NEW data, AppendStep(key, data)
  PROVE  /\ \A k : k # key => Same(k)
         /\ key \in DOMAIN steps' /\ steps'[key] = data
         /\ key \in DOMAIN steps => steps[key] = data
BY DEF AppendStep, Contradicts, Same

LEMMA AppendUnmarked ==
  ASSUME NEW key, NEW data, AppendStep(key, data), key[1] \notin Marks
  PROVE  MarksStay
BY AppendKeeps DEF MarksStay

LEMMA KeyKinds ==
  ASSUME NEW c, NEW kind, NEW s
  PROVE  Checkpoint(kind, s)[1] = kind /\ AttemptKey(kind, c)[1] = kind
BY DEF Checkpoint, AttemptKey

LEMMA MarksStep ==
  ASSUME Inv, NEW c \in Coordinators, Step(c)
  PROVE  MarksStay \/ Reserve(c) \/ RecordOutcome(c) \/ Reconcile(c)
<1>a. steps' = steps => MarksStay
  BY DEF MarksStay, Same
<1>b. Marks = {"reserved", "outcome", "reconcile"}
  BY DEF Marks
<1>1. CASE Prepare(c)
  BY <1>1, <1>a DEF Prepare, Start, ReturnReport, Resume, db
<1>2. CASE DeliverStage(c)
  <2>1. CASE RecordDelivery(c)
    <3>1. AppendStep(me[c].delivery.key, "delivered") /\ pc[c] = "recording"
      BY <2>1 DEF RecordDelivery, Record
    <3>2. me[c].delivery.key[1] \in DeliveryKinds
      BY <3>1 DEF Inv, Placed
    <3> QED BY <1>b, <3>1, <3>2, AppendUnmarked DEF DeliveryKinds
  <2> QED BY <1>2, <1>a, <2>1 DEF DeliverStage, Deliver, Register, AllDelivered, Local, db
<1>3. CASE PlanStage(c)
  <2>1. CASE RecordEvaluation(c)
    BY <1>a, <1>b, <2>1, KeyKinds, AppendUnmarked DEF RecordEvaluation, Evaluation
  <2>2. CASE CloseAnalysis(c)
    BY <1>b, <2>2, KeyKinds, AppendUnmarked DEF CloseAnalysis, Record
  <2>3. CASE ClosePlanning(c)
    BY <1>b, <2>3, KeyKinds, AppendUnmarked DEF ClosePlanning, Record
  <2>4. CASE steps' = steps
    BY <1>a, <2>4
  <2> QED BY <1>3, <2>1, <2>2, <2>3, <2>4
          DEF PlanStage, Analyse, Scan, Enumerate, PlanRecovery, AttachPlan, Local, db
<1>4. CASE Schedule(c)
  <2>1. CASE CloseStage(c)
    BY <1>b, <2>1, KeyKinds, AppendUnmarked DEF CloseStage
  <2> QED BY <1>4, <1>a, <2>1
          DEF Schedule, BeginSimulation, NextPayment, LeavePayment, PassOver, TakeUp, Local, db
<1>5. CASE Attempt(c)
  <2>1. CASE Refuse(c)
    BY <1>b, <2>1, KeyKinds, AppendUnmarked DEF Refuse, Record
  <2>2. CASE CloseRefused(c)
    BY <1>b, <2>2, KeyKinds, AppendUnmarked DEF CloseRefused, Record
  <2>3. CASE Suppress(c)
    BY <1>b, <2>3, KeyKinds, AppendUnmarked DEF Suppress, Record
  <2>4. CASE CloseDispatch(c)
    BY <1>b, <2>4, KeyKinds, AppendUnmarked DEF CloseDispatch, Record
  <2>5. CASE FindReserved(c)
    BY <1>a, <2>5 DEF FindReserved, Local, db
  <2> QED BY <1>5, <2>1, <2>2, <2>3, <2>4, <2>5 DEF Attempt
<1>6. CASE Complete(c)
  BY <1>6, <1>a DEF Complete, CountSteps, CountPayment, Finish, Local, db
<1>7. CASE Acquire(c) \/ Conflict(c) \/ Fail(c) \/ LoseLock(c)
  BY <1>7, <1>a DEF Acquire, Conflict, Fail, LoseLock, db
<1> QED BY <1>1, <1>2, <1>3, <1>4, <1>5, <1>6, <1>7 DEF Step, Proceed

-----------------------------------------------------------------------------
(* The stores                                                              *)

\* A payment that is enrolled stays it, by the same event.
LEMMA EnrolledGrows ==
  ASSUME Inv, NEW c \in Coordinators, Step(c)
  PROVE  /\ Shaped'
         /\ \A p \in Enrolled : p \in Enrolled' /\ enrolled'[p] = enrolled[p]
<1>1. Shaped
  BY DEF Inv
<1>2. DOMAIN pc' = Coordinators /\ DOMAIN me' = Coordinators
  BY <1>1, OthersStep
<1>3. DOMAIN plans' = Payments
  BY <1>1, StoresStep DEF Shaped, StoresStay, PlanRecovery
<1>4. DOMAIN attached' = Payments
  BY <1>1, StoresStep DEF Shaped, StoresStay, AttachPlan
<1>5. DOMAIN enrolled' = Payments
  BY <1>1, StoresStep DEF Shaped, StoresStay, Register
<1>6. \A p \in Enrolled : enrolled'[p] = enrolled[p]
  BY <1>1, StoresStep DEF Shaped, StoresStay, Register, Enrolled
<1> QED BY <1>2, <1>3, <1>4, <1>5, <1>6 DEF Shaped, Enrolled

LEMMA SourcedStep ==
  ASSUME Inv, NEW c \in Coordinators, Step(c)
  PROVE  Sourced'
<1>1. Shaped /\ Sourced /\ StoresStay(c)
  BY StoresStep DEF Inv
<1>2. ASSUME NEW e \in events' PROVE e.source = "normalized_api"
  <2>1. CASE events' = events
    BY <1>1, <1>2, <2>1 DEF Sourced
  <2>2. CASE Deliver(c)
    <3>1. PICK d \in Undelivered(c) : events' = events \cup {d.event}
      BY <2>2 DEF Deliver
    <3>2. d.event.source = "normalized_api"
      BY DeliveryFields DEF Undelivered
    <3> QED BY <1>1, <1>2, <3>1, <3>2 DEF Sourced
  <2> QED BY <1>1, <2>1, <2>2 DEF StoresStay
<1>3. ASSUME NEW p \in Enrolled'
      PROVE  enrolled'[p].payment = p /\ enrolled'[p].source = "normalized_api"
  <2>1. p \in Payments /\ enrolled'[p] # None
    BY <1>3 DEF Enrolled
  <2>2. CASE enrolled'[p] = enrolled[p]
    BY <1>1, <2>1, <2>2 DEF Sourced, Enrolled
  <2>3. CASE enrolled'[p] # enrolled[p]
    <3> DEFINE e == me[c].delivery.event
    <3>1. /\ pc[c] = "registering"
          /\ enrolled' = [enrolled EXCEPT ![e.payment] = IF @ = None THEN e ELSE @]
      BY <1>1, <2>3 DEF StoresStay, Register
    <3>2. e.source = "normalized_api"
      BY <3>1 DEF Inv, Placed
    <3> HIDE DEF e
    <3>3. p = e.payment /\ enrolled'[p] = e
      BY <1>1, <2>1, <2>3, <3>1 DEF Shaped
    <3> QED BY <3>2, <3>3
  <2> QED BY <2>2, <2>3
<1> QED BY <1>2, <1>3 DEF Sourced

LEMMA StageTimeIsNumber ==
  ASSUME NEW s \in Int
  PROVE  StageTime(s) \in Int /\ Cutoff(s) \in Int
BY DEF StageTime, Cutoff

LEMMA TimedStep ==
  ASSUME Inv, NEW c \in Coordinators, Step(c)
  PROVE  Timed'
<1>1. Shaped /\ Timed /\ StoresStay(c)
  BY StoresStep DEF Inv
<1>2. me[c].stage \in Int
  BY DEF Inv, Placed
<1> SUFFICES ASSUME NEW p \in Payments
             PROVE  /\ plans'[p] # None =>
                         plans'[p].created \in Int /\ plans'[p].advice.delay \in Int
                    /\ attached'[p] \in {None, plans'[p]}
  BY DEF Timed
<1>3. /\ plans[p] # None => plans[p].created \in Int /\ plans[p].advice.delay \in Int
      /\ attached[p] \in {None, plans[p]}
  BY <1>1 DEF Timed
<1>4. CASE plans'[p] # plans[p]
  <2>1. PlanRecovery(c)
    BY <1>1, <1>4 DEF StoresStay
  <2>2. plans[p] = None /\ attached' = attached
    BY <1>1, <1>4, <2>1 DEF PlanRecovery, Shaped
  <2>3. plans'[p] = [advice |-> Decide(History(events, enrolled[p])),
                     created |-> StageTime(me[c].stage)]
    BY <1>1, <1>4, <2>1 DEF PlanRecovery, Shaped
  <2>4. plans'[p].created \in Int /\ plans'[p].advice.delay \in Int
    BY <1>2, <2>3, StageTimeIsNumber, DelayIsNumber
  <2> QED BY <1>3, <2>2, <2>4
<1>5. CASE plans'[p] = plans[p]
  <2>1. attached'[p] \in {None, plans[p]}
    BY <1>1, <1>3, StoresStep DEF StoresStay, AttachPlan, Shaped
  <2> QED BY <1>3, <1>5, <2>1
<1> QED BY <1>4, <1>5

-----------------------------------------------------------------------------
(* Attempts                                                                *)

\* The changes of an attempt: it is added, or its state and truth replaced.
Added(p, at) ==
  attempts' = [attempts EXCEPT ![p] =
                 Append(@, [at |-> at, state |-> "reserved", truth |-> None])]

Replaced(p, k, state, truth) ==
  /\ attempts' \in [Payments -> Seq(AttemptRecord)]
  /\ \A q \in Payments \ {p} : attempts'[q] = attempts[q]
  /\ DOMAIN attempts'[p] = DOMAIN attempts[p] /\ Len(attempts'[p]) = Len(attempts[p])
  /\ \A j \in DOMAIN attempts[p] \ {k} : attempts'[p][j] = attempts[p][j]
  /\ attempts'[p][k] = [at |-> attempts[p][k].at, state |-> state, truth |-> truth]

LEMMA ReplaceState ==
  ASSUME Attempted, NEW p \in Payments, NEW k \in DOMAIN attempts[p],
         NEW state \in AttemptStates,
         attempts' = [attempts EXCEPT ![p][k].state = state]
  PROVE  Replaced(p, k, state, attempts[p][k].truth)
<1>1. attempts \in [Payments -> Seq(AttemptRecord)]
  BY DEF Attempted
<1>2. attempts[p] \in Seq(AttemptRecord) /\ attempts[p][k] \in AttemptRecord
  BY <1>1
<1>3. attempts' = [attempts EXCEPT ![p] = [attempts[p] EXCEPT ![k] = [attempts[p][k] EXCEPT !.state = state]]]
  OBVIOUS
<1> DEFINE new == [attempts[p][k] EXCEPT !.state = state]
<1>4. /\ new = [at |-> attempts[p][k].at, state |-> state, truth |-> attempts[p][k].truth]
      /\ new \in AttemptRecord
  BY <1>2 DEF AttemptRecord
<1> HIDE DEF new
<1>5. attempts' = [attempts EXCEPT ![p] = [attempts[p] EXCEPT ![k] = new]]
  BY <1>3 DEF new
<1>6. /\ [attempts[p] EXCEPT ![k] = new] \in Seq(AttemptRecord)
      /\ Len([attempts[p] EXCEPT ![k] = new]) = Len(attempts[p])
      /\ DOMAIN [attempts[p] EXCEPT ![k] = new] = DOMAIN attempts[p]
  BY <1>2, <1>4
<1>7. /\ attempts'[p] = [attempts[p] EXCEPT ![k] = new]
      /\ attempts' \in [Payments -> Seq(AttemptRecord)]
      /\ \A q \in Payments \ {p} : attempts'[q] = attempts[q]
  BY <1>1, <1>5, <1>6
<1> QED BY <1>2, <1>4, <1>6, <1>7 DEF Replaced

LEMMA ReplaceTruth ==
  ASSUME Attempted, NEW p \in Payments, NEW k \in DOMAIN attempts[p],
         NEW state \in AttemptStates, NEW truth \in {"succeeded", "failed"},
         attempts' = [attempts EXCEPT ![p][k] =
                        [at |-> attempts[p][k].at, state |-> state, truth |-> truth]]
  PROVE  Replaced(p, k, state, truth)
<1>1. attempts \in [Payments -> Seq(AttemptRecord)]
  BY DEF Attempted
<1>2. attempts[p] \in Seq(AttemptRecord) /\ attempts[p][k] \in AttemptRecord
  BY <1>1
<1> DEFINE new == [at |-> attempts[p][k].at, state |-> state, truth |-> truth]
<1>4. new \in AttemptRecord
  BY <1>2 DEF AttemptRecord
<1>5. attempts' = [attempts EXCEPT ![p] = [attempts[p] EXCEPT ![k] = new]]
  OBVIOUS
<1>8. new = [at |-> attempts[p][k].at, state |-> state, truth |-> truth]
  OBVIOUS
<1> HIDE DEF new
<1>6. /\ [attempts[p] EXCEPT ![k] = new] \in Seq(AttemptRecord)
      /\ Len([attempts[p] EXCEPT ![k] = new]) = Len(attempts[p])
      /\ DOMAIN [attempts[p] EXCEPT ![k] = new] = DOMAIN attempts[p]
  BY <1>2, <1>4
<1>7. /\ attempts'[p] = [attempts[p] EXCEPT ![k] = new]
      /\ attempts' \in [Payments -> Seq(AttemptRecord)]
      /\ \A q \in Payments \ {p} : attempts'[q] = attempts[q]
  BY <1>1, <1>5, <1>6
<1> QED BY <1>2, <1>8, <1>6, <1>7 DEF Replaced

\* What a reservation, an outcome and a reconciliation do.
LEMMA ReserveEffect ==
  ASSUME Inv, NEW c \in Coordinators, Reserve(c)
  PROVE  /\ me[c].payment \in Enrolled /\ me[c].due \in Int
         /\ me[c].ordinal = Len(attempts[me[c].payment]) + 1
         /\ Len(attempts[me[c].payment]) < 2
         /\ ~History(events, enrolled[me[c].payment]).success
         /\ \A k \in DOMAIN attempts[me[c].payment] :
              attempts[me[c].payment][k].state = "failed"
         /\ attempts[me[c].payment] # <<>> =>
              me[c].due >= attempts[me[c].payment][1].at + ReconcileSeconds
         /\ Added(me[c].payment, me[c].due)
         /\ steps' = WithReservation(c)
<1> DEFINE p == me[c].payment
<1>1. pc[c] = "reserving" /\ Placed(c) /\ Attempted
  BY DEF Inv, Reserve
<1>2. p \in Enrolled /\ p \in Payments /\ me[c].due \in Int /\ me[c].ordinal \in 1..2
  BY <1>1 DEF Placed, Inside, InTurn, Enrolled
<1>3. me[c].ordinal = Len(attempts[p]) + 1 /\ Blocker(c) = "eligible"
  BY DEF Reserve
<1>4. Eligibility(attached[p], History(events, enrolled[p]), world[p], attempts[p], me[c].due)
        = "eligible"
  BY <1>3 DEF Blocker
<1>5. /\ ~History(events, enrolled[p]).success
      /\ "succeeded" \notin States(attempts[p])
      /\ States(attempts[p]) \cap Outstanding = {}
  BY <1>4, EligibleMeans
<1>6. attempts[p] \in Seq(AttemptRecord)
  BY <1>1, <1>2 DEF Attempted
<1>7. ASSUME NEW k \in DOMAIN attempts[p] PROVE attempts[p][k].state = "failed"
  <2>0. attempts[p][k] \in AttemptRecord
    BY <1>6, <1>7
  <2>1. attempts[p][k].state \in AttemptStates
    BY <2>0 DEF AttemptRecord
  <2>2. attempts[p][k].state \in States(attempts[p])
    BY <1>7 DEF States
  <2> QED BY <1>5, <2>1, <2>2 DEF AttemptStates, Outstanding
<1>8. attempts[p] # <<>> => me[c].ordinal = 2 /\ me[c].due >= attempts[p][1].at + ReconcileSeconds
  BY <1>1, <1>2, <1>3, <1>6 DEF Placed
<1>9. Len(attempts[p]) < 2
  BY <1>2, <1>3, <1>6
<1>10. Added(p, me[c].due) /\ steps' = WithReservation(c)
  BY DEF Reserve, Added
<1> QED BY <1>2, <1>3, <1>5, <1>7, <1>8, <1>9, <1>10

LEMMA OutcomeEffect ==
  ASSUME Inv, NEW c \in Coordinators, RecordOutcome(c)
  PROVE  LET p == me[c].payment
             k == me[c].ordinal
             at == attempts[p][k].at
         IN /\ p \in Payments /\ k \in DOMAIN attempts[p]
            /\ \/ attempts' = attempts /\ steps' = steps
               \/ /\ attempts[p][k].state = "reserved"
                  /\ Replaced(p, k, Observed(world[p], at), Truth(world[p], at))
                  /\ AppendStep(<<"outcome", p, k>>, Observed(world[p], at))
<1> DEFINE p == me[c].payment
           k == me[c].ordinal
           at == attempts[p][k].at
<1>1. pc[c] = "modelling" /\ Placed(c) /\ Attempted
  BY DEF Inv, RecordOutcome
<1>2. p \in Payments /\ k \in DOMAIN attempts[p]
  BY <1>1 DEF Placed, Inside, Working, Enrolled
<1>3. CASE attempts[p][k].state # "reserved"
  BY <1>2, <1>3 DEF RecordOutcome
<1>4. CASE attempts[p][k].state = "reserved"
  <2>1. attempts' = [attempts EXCEPT ![p][k] = Modelled(p, at)]
    BY <1>4, Zenon DEF RecordOutcome
  <2>4. AppendStep(<<"outcome", p, k>>, Observed(world[p], at))
    BY <1>4, Zenon DEF RecordOutcome, AttemptKey
  <2>2. Observed(world[p], at) \in AttemptStates /\ Truth(world[p], at) \in {"succeeded", "failed"}
    BY ModelAnswers DEF AttemptStates
  <2>3. Replaced(p, k, Observed(world[p], at), Truth(world[p], at))
    <3> DEFINE truth == Truth(world[p], at)
               seen == Observed(world[p], at)
    <3>1. attempts' = [attempts EXCEPT ![p][k] =
                         [at |-> attempts[p][k].at, state |-> seen, truth |-> truth]]
      BY <2>1 DEF Modelled
    <3>2. seen \in AttemptStates /\ truth \in {"succeeded", "failed"}
      BY <2>2
    <3> HIDE DEF truth, seen
    <3>3. Replaced(p, k, seen, truth)
      BY <1>1, <1>2, <3>1, <3>2, ReplaceTruth
    <3> QED BY <3>3 DEF truth, seen
  <2> QED BY <1>2, <1>4, <2>3, <2>4
<1> QED BY <1>3, <1>4

LEMMA ReconcileEffect ==
  ASSUME Inv, NEW c \in Coordinators, Reconcile(c)
  PROVE  LET p == me[c].payment
             k == me[c].ordinal
         IN /\ p \in Payments /\ k \in DOMAIN attempts[p]
            /\ \/ attempts' = attempts /\ steps' = steps
               \/ /\ attempts[p][k].state = "uncertain"
                  /\ attempts[p][k].truth \in {"succeeded", "failed"}
                  /\ \E revealed \in {attempts[p][k].truth, "uncertain"} :
                       /\ Replaced(p, k, revealed, attempts[p][k].truth)
                       /\ AppendStep(<<"reconcile", p, k>>, revealed)
<1> DEFINE p == me[c].payment
           k == me[c].ordinal
           revealed == IF world[p].reconcilable THEN attempts[p][k].truth ELSE "uncertain"
<1>1. pc[c] = "suppressed" /\ Placed(c) /\ Attempted
  BY DEF Inv, Reconcile
<1>2. p \in Payments /\ k \in DOMAIN attempts[p]
  BY <1>1 DEF Placed, Inside, Working, Enrolled
<1>3. CASE attempts[p][k].state # "uncertain"
  BY <1>2, <1>3 DEF Reconcile
<1>4. CASE attempts[p][k].state = "uncertain"
  <2>1. attempts' = [attempts EXCEPT ![p][k].state = revealed]
    BY <1>4 DEF Reconcile
  <2>5. AppendStep(<<"reconcile", p, k>>, revealed)
    BY <1>4 DEF Reconcile, AttemptKey
  <2>2. attempts[p][k].truth \in {"succeeded", "failed"}
    BY <1>1, <1>2, <1>4 DEF Attempted
  <2>3. revealed \in AttemptStates /\ revealed \in {attempts[p][k].truth, "uncertain"}
    BY <2>2 DEF AttemptStates
  <2> HIDE DEF revealed
  <2>4. Replaced(p, k, revealed, attempts[p][k].truth)
    BY <1>1, <1>2, <2>1, <2>3, ReplaceState
  <2> QED BY <1>2, <1>4, <2>2, <2>3, <2>4, <2>5
<1> QED BY <1>3, <1>4

\* A changed attempt is of its type, whatever changes it.
LEMMA AddedTyped ==
  ASSUME Attempted, NEW p \in Payments, NEW at \in Int, Added(p, at)
  PROVE  /\ attempts' \in [Payments -> Seq(AttemptRecord)]
         /\ \A q \in Payments \ {p} : attempts'[q] = attempts[q]
         /\ Len(attempts'[p]) = Len(attempts[p]) + 1
         /\ Len(attempts[p]) \in Nat /\ DOMAIN attempts[p] = 1..Len(attempts[p])
         /\ DOMAIN attempts'[p] = 1..(Len(attempts[p]) + 1)
         /\ \A k \in DOMAIN attempts[p] : attempts'[p][k] = attempts[p][k]
         /\ attempts'[p][Len(attempts[p]) + 1] = [at |-> at, state |-> "reserved", truth |-> None]
<1> DEFINE new == [at |-> at, state |-> "reserved", truth |-> None]
<1>1. attempts \in [Payments -> Seq(AttemptRecord)] /\ attempts[p] \in Seq(AttemptRecord)
  BY DEF Attempted
<1>2. new \in AttemptRecord
  BY DEF AttemptRecord, AttemptStates
<1>3. attempts' = [attempts EXCEPT ![p] = Append(attempts[p], new)]
  BY DEF Added
<1> HIDE DEF new
<1>4. attempts'[p] = Append(attempts[p], new) /\ Append(attempts[p], new) \in Seq(AttemptRecord)
  BY <1>1, <1>2, <1>3
<1>5. /\ attempts' \in [Payments -> Seq(AttemptRecord)]
      /\ \A q \in Payments \ {p} : attempts'[q] = attempts[q]
  BY <1>1, <1>3, <1>4
<1>6. /\ Len(attempts[p]) \in Nat /\ DOMAIN attempts[p] = 1..Len(attempts[p])
      /\ Len(attempts'[p]) = Len(attempts[p]) + 1
      /\ DOMAIN attempts'[p] = 1..(Len(attempts[p]) + 1)
      /\ \A k \in DOMAIN attempts[p] : attempts'[p][k] = attempts[p][k]
      /\ attempts'[p][Len(attempts[p]) + 1] = new
  BY <1>1, <1>2, <1>4
<1> QED BY <1>5, <1>6 DEF new

LEMMA AttemptedStep ==
  ASSUME Inv, NEW c \in Coordinators, Step(c)
  PROVE  Attempted'
<1>1. Attempted
  BY DEF Inv
<1>2. CASE attempts' = attempts
  BY <1>1, <1>2 DEF Attempted
<1>3. ASSUME NEW p \in Payments, NEW k \in DOMAIN attempts[p], NEW state,
             NEW truth \in {"succeeded", "failed"}, Replaced(p, k, state, truth)
      PROVE  Attempted'
  <2>1. attempts' \in [Payments -> Seq(AttemptRecord)]
    BY <1>3 DEF Replaced
  <2>2. ASSUME NEW q \in Payments
        PROVE  /\ Len(attempts'[q]) <= 2
               /\ \A j \in DOMAIN attempts'[q] :
                    attempts'[q][j].state = "reserved"
                      \/ attempts'[q][j].truth \in {"succeeded", "failed"}
    <3>1. CASE q # p
      BY <1>1, <1>3, <3>1 DEF Attempted, Replaced
    <3>2. CASE q = p
      <4>1. Len(attempts'[q]) <= 2 /\ DOMAIN attempts'[q] = DOMAIN attempts[p]
        BY <1>1, <1>3, <3>2 DEF Attempted, Replaced
      <4>2. attempts'[p][k].truth = truth
        BY <1>3 DEF Replaced
      <4>3. \A j \in DOMAIN attempts[p] \ {k} : attempts'[p][j] = attempts[p][j]
        BY <1>3 DEF Replaced
      <4> QED BY <1>1, <1>3, <3>2, <4>1, <4>2, <4>3 DEF Attempted
    <3> QED BY <3>1, <3>2
  <2> QED BY <2>1, <2>2 DEF Attempted
<1>4. CASE RecordOutcome(c)
  BY <1>2, <1>3, <1>4, OutcomeEffect, ModelAnswers
<1>5. CASE Reconcile(c)
  BY <1>2, <1>3, <1>5, ReconcileEffect
<1>6. CASE Reserve(c)
  <2> DEFINE p == me[c].payment
             at == me[c].due
  <2>1. p \in Payments /\ at \in Int /\ Added(p, at) /\ Len(attempts[p]) < 2
    BY <1>6, ReserveEffect DEF Enrolled
  <2> HIDE DEF p, at
  <2>2. /\ attempts' \in [Payments -> Seq(AttemptRecord)]
        /\ \A q \in Payments \ {p} : attempts'[q] = attempts[q]
        /\ Len(attempts'[p]) = Len(attempts[p]) + 1
        /\ Len(attempts[p]) \in Nat /\ DOMAIN attempts[p] = 1..Len(attempts[p])
        /\ DOMAIN attempts'[p] = 1..(Len(attempts[p]) + 1)
        /\ \A k \in DOMAIN attempts[p] : attempts'[p][k] = attempts[p][k]
        /\ attempts'[p][Len(attempts[p]) + 1] = [at |-> at, state |-> "reserved", truth |-> None]
    BY <1>1, <2>1, AddedTyped
  <2>3. ASSUME NEW j \in DOMAIN attempts'[p]
        PROVE  attempts'[p][j].state = "reserved"
                 \/ attempts'[p][j].truth \in {"succeeded", "failed"}
    <3>1. CASE j \in DOMAIN attempts[p]
      BY <1>1, <2>1, <2>2, <3>1 DEF Attempted
    <3>2. CASE j = Len(attempts[p]) + 1
      BY <2>2, <3>2
    <3> QED BY <2>2, <2>3, <3>1, <3>2
  <2>4. ASSUME NEW q \in Payments
        PROVE  /\ Len(attempts'[q]) <= 2
               /\ \A j \in DOMAIN attempts'[q] :
                    attempts'[q][j].state = "reserved"
                      \/ attempts'[q][j].truth \in {"succeeded", "failed"}
    <3>1. CASE q = p
      BY <2>1, <2>2, <2>3, <3>1
    <3>2. CASE q # p
      BY <1>1, <2>2, <3>2 DEF Attempted
    <3> QED BY <3>1, <3>2
  <2> QED BY <2>2, <2>4 DEF Attempted
<1> QED BY <1>2, <1>4, <1>5, <1>6, StoresStep DEF StoresStay

LEMMA OutcomesStep ==
  ASSUME Inv, NEW c \in Coordinators, Step(c)
  PROVE  Outcomes'
<1>1. Outcomes
  BY DEF Inv
<1>2. CASE MarksStay
  BY <1>1, <1>2 DEF Outcomes, MarksStay, Marks, Same
<1>3. ASSUME NEW key, NEW data \in {"uncertain", "failed", "succeeded"}, AppendStep(key, data)
      PROVE  Outcomes'
  <2>1. /\ \A k : k # key => Same(k)
        /\ key \in DOMAIN steps' /\ steps'[key] = data
    BY <1>3, AppendKeeps
  <2>2. ASSUME NEW k \in DOMAIN steps', k[1] \in {"outcome", "reconcile"}
        PROVE  steps'[k] \in {"uncertain", "failed", "succeeded"}
    <3>1. CASE k = key
      BY <1>3, <2>1, <3>1
    <3>2. CASE k # key
      BY <1>1, <2>1, <2>2, <3>2 DEF Outcomes, Same
    <3> QED BY <3>1, <3>2
  <2> QED BY <2>2 DEF Outcomes
<1>4. CASE RecordOutcome(c)
  <2>1. CASE steps' = steps
    BY <1>1, <2>1 DEF Outcomes
  <2>2. CASE steps' # steps
    <3> DEFINE p == me[c].payment
               k == me[c].ordinal
               seen == Observed(world[p], attempts[p][k].at)
    <3>1. AppendStep(<<"outcome", p, k>>, seen)
      BY <1>4, <2>2, OutcomeEffect
    <3>2. seen \in {"uncertain", "failed", "succeeded"}
      BY ModelAnswers
    <3> QED BY <1>3, <3>1, <3>2
  <2> QED BY <2>1, <2>2
<1>5. CASE Reconcile(c)
  BY <1>1, <1>3, <1>5, ReconcileEffect DEF Outcomes
<1>6. CASE Reserve(c)
  <2>1. ASSUME NEW key, key[1] \in {"outcome", "reconcile"} PROVE Same(key)
    <3>1. key # AttemptKey("eligibility", c) /\ key # AttemptKey("reserved", c)
      BY <2>1, KeyKinds
    <3>2. steps' = WithReservation(c)
      BY <1>6 DEF Reserve
    <3> QED BY <3>1, <3>2 DEF WithReservation, Same
  <2> QED BY <1>1, <2>1 DEF Outcomes, Same
<1> QED BY <1>2, <1>4, <1>5, <1>6, MarksStep

\* The keys of an attempt's steps.
LEMMA MarkKeys ==
  ASSUME NEW kind, NEW p, NEW k, NEW kind2, NEW q, NEW j
  PROVE  /\ <<kind, p, k>>[1] = kind
         /\ <<kind, p, k>> = <<kind2, q, j>> <=> kind = kind2 /\ p = q /\ k = j
OBVIOUS

\* The property, for one attempt.
Projects(p, k) ==
  IF k \notin DOMAIN attempts[p]
  THEN \A kind \in Marks : <<kind, p, k>> \notin DOMAIN steps
  ELSE /\ <<"reserved", p, k>> \in DOMAIN steps
       /\ attempts[p][k].state =
            IF <<"reconcile", p, k>> \in DOMAIN steps THEN steps[<<"reconcile", p, k>>]
            ELSE IF <<"outcome", p, k>> \in DOMAIN steps THEN steps[<<"outcome", p, k>>]
            ELSE "reserved"

LEMMA ProjectionForOne ==
  ProjectionMatchesSteps <=> \A p \in Payments : \A k \in 1..2 : Projects(p, k)
BY DEF ProjectionMatchesSteps, Projects, Marks

\* What neither the steps nor the attempt's state change of, stays so.
LEMMA SameProjects ==
  ASSUME NEW p, NEW k, Projects(p, k),
         \A kind \in Marks : Same(<<kind, p, k>>),
         k \in DOMAIN attempts'[p] <=> k \in DOMAIN attempts[p],
         k \in DOMAIN attempts[p] => attempts'[p][k].state = attempts[p][k].state
  PROVE  Projects(p, k)'
<1>1. /\ Same(<<"reserved", p, k>>) /\ Same(<<"outcome", p, k>>) /\ Same(<<"reconcile", p, k>>)
  BY DEF Marks
<1>2. CASE k \notin DOMAIN attempts[p]
  BY <1>2 DEF Projects, Same
<1>3. CASE k \in DOMAIN attempts[p]
  BY <1>1, <1>3 DEF Projects, Same
<1> QED BY <1>2, <1>3

LEMMA ProjectionStep ==
  ASSUME Inv, NEW c \in Coordinators, Step(c)
  PROVE  ProjectionMatchesSteps'
<1>1. Attempted /\ Outcomes /\ \A p \in Payments : \A k \in 1..2 : Projects(p, k)
  BY ProjectionForOne DEF Inv
<1> SUFFICES ASSUME NEW p \in Payments, NEW k \in 1..2 PROVE Projects(p, k)'
  BY DEF ProjectionMatchesSteps, Projects, Marks
<1>2. Projects(p, k)
  BY <1>1
<1>3. CASE MarksStay /\ attempts' = attempts
  <2>1. \A kind \in Marks : Same(<<kind, p, k>>)
    BY <1>3, MarkKeys DEF MarksStay
  <2> QED BY <1>2, <1>3, <2>1, SameProjects
<1>4. ASSUME steps' = steps, attempts' = attempts PROVE Projects(p, k)'
  BY <1>2, <1>4 DEF Projects
<1>5. ASSUME NEW q \in Payments, NEW j \in DOMAIN attempts[q], NEW state, NEW truth,
             NEW kind \in {"outcome", "reconcile"},
             Replaced(q, j, state, truth), AppendStep(<<kind, q, j>>, state),
             attempts[q][j].state \in {"reserved", "uncertain"},
             kind = "outcome" => attempts[q][j].state = "reserved"
      PROVE  Projects(p, k)'
  <2>1. /\ \A key : key # <<kind, q, j>> => Same(key)
        /\ <<kind, q, j>> \in DOMAIN steps' /\ steps'[<<kind, q, j>>] = state
    BY <1>5, AppendKeeps
  <2>2. CASE p # q \/ k # j
    <3>1. \A other \in Marks : Same(<<other, p, k>>)
      BY <2>1, <2>2, MarkKeys
    <3>2. /\ k \in DOMAIN attempts'[p] <=> k \in DOMAIN attempts[p]
          /\ k \in DOMAIN attempts[p] => attempts'[p][k] = attempts[p][k]
      BY <1>5, <2>2 DEF Replaced
    <3> QED BY <1>2, <3>1, <3>2, SameProjects
  <2>3. CASE p = q /\ k = j
    <3>1. k \in DOMAIN attempts[p] /\ k \in DOMAIN attempts'[p] /\ attempts'[p][k].state = state
      BY <1>5, <2>3 DEF Replaced
    <3>2. /\ <<"reserved", p, k>> \in DOMAIN steps
          /\ attempts[p][k].state =
               IF <<"reconcile", p, k>> \in DOMAIN steps THEN steps[<<"reconcile", p, k>>]
               ELSE IF <<"outcome", p, k>> \in DOMAIN steps THEN steps[<<"outcome", p, k>>]
               ELSE "reserved"
      BY <1>2, <3>1 DEF Projects
    <3>3. <<"reserved", p, k>> \in DOMAIN steps'
      BY <1>5, <2>1, <3>2, MarkKeys DEF Same
    <3>4. CASE kind = "reconcile"
      BY <2>1, <2>3, <3>1, <3>3, <3>4 DEF Projects
    <3>5. CASE kind = "outcome"
      <4>1. attempts[p][k].state = "reserved"
        BY <1>5, <2>3, <3>5
      <4>2. <<"reconcile", p, k>> \notin DOMAIN steps
        <5>1. <<"reconcile", p, k>> \in DOMAIN steps =>
                steps[<<"reconcile", p, k>>] \in {"uncertain", "failed", "succeeded"}
          BY <1>1, MarkKeys DEF Outcomes
        <5> QED BY <3>2, <4>1, <5>1
      <4>3. <<"reconcile", p, k>> \notin DOMAIN steps'
        BY <2>1, <3>5, <4>2, MarkKeys DEF Same
      <4> QED BY <2>1, <2>3, <3>1, <3>3, <3>5, <4>3 DEF Projects
    <3> QED BY <1>5, <3>4, <3>5
  <2> QED BY <2>2, <2>3
<1>6. CASE RecordOutcome(c)
  <2> DEFINE q == me[c].payment
             j == me[c].ordinal
             at == attempts[q][j].at
  <2>1. /\ q \in Payments /\ j \in DOMAIN attempts[q]
        /\ \/ attempts' = attempts /\ steps' = steps
           \/ /\ attempts[q][j].state = "reserved"
              /\ Replaced(q, j, Observed(world[q], at), Truth(world[q], at))
              /\ AppendStep(<<"outcome", q, j>>, Observed(world[q], at))
    BY <1>6, OutcomeEffect
  <2> HIDE DEF q, j, at
  <2> QED BY <1>4, <1>5, <2>1
<1>7. CASE Reconcile(c)
  <2> DEFINE q == me[c].payment
             j == me[c].ordinal
  <2>1. /\ q \in Payments /\ j \in DOMAIN attempts[q]
        /\ \/ attempts' = attempts /\ steps' = steps
           \/ /\ attempts[q][j].state = "uncertain"
              /\ attempts[q][j].truth \in {"succeeded", "failed"}
              /\ \E revealed \in {attempts[q][j].truth, "uncertain"} :
                   /\ Replaced(q, j, revealed, attempts[q][j].truth)
                   /\ AppendStep(<<"reconcile", q, j>>, revealed)
    BY <1>7, ReconcileEffect
  <2> HIDE DEF q, j
  <2> QED BY <1>4, <1>5, <2>1
<1>8. CASE Reserve(c)
  <2> DEFINE q == me[c].payment
             j == Len(attempts[q]) + 1
             at == me[c].due
  <2>1. q \in Payments /\ at \in Int /\ Added(q, at) /\ me[c].ordinal = j /\ Len(attempts[q]) < 2
    BY <1>8, ReserveEffect DEF Enrolled
  <2>2. /\ \A x \in Payments \ {q} : attempts'[x] = attempts[x]
        /\ Len(attempts[q]) \in Nat /\ DOMAIN attempts[q] = 1..Len(attempts[q])
        /\ DOMAIN attempts'[q] = 1..(Len(attempts[q]) + 1)
        /\ \A x \in DOMAIN attempts[q] : attempts'[q][x] = attempts[q][x]
        /\ attempts'[q][Len(attempts[q]) + 1] = [at |-> at, state |-> "reserved", truth |-> None]
    <3> HIDE DEF q, at
    <3> QED BY <1>1, <2>1, AddedTyped
  <2>3. /\ steps' = WithReservation(c)
        /\ AttemptKey("reserved", c) = <<"reserved", q, j>>
        /\ AttemptKey("eligibility", c) = <<"eligibility", q, j>>
    BY <1>8, <2>1 DEF Reserve, AttemptKey
  <2>4. /\ \A key : key \notin {<<"reserved", q, j>>, <<"eligibility", q, j>>} => Same(key)
        /\ <<"reserved", q, j>> \in DOMAIN steps'
    BY <2>3 DEF WithReservation, Same
  <2>5. j \in 1..2 /\ j \notin DOMAIN attempts[q] /\ j \in DOMAIN attempts'[q]
        /\ attempts'[q][j].state = "reserved"
    BY <2>1, <2>2
  <2> HIDE DEF q, j, at
  <2>6. CASE p # q \/ k # j
    <3>1. \A other \in Marks : Same(<<other, p, k>>)
      BY <2>4, <2>6, MarkKeys
    <3>2. /\ k \in DOMAIN attempts'[p] <=> k \in DOMAIN attempts[p]
          /\ k \in DOMAIN attempts[p] => attempts'[p][k].state = attempts[p][k].state
      BY <2>2, <2>5, <2>6 DEF j
    <3> QED BY <1>2, <3>1, <3>2, SameProjects
  <2>7. CASE p = q /\ k = j
    <3>1. \A kind \in Marks : <<kind, q, j>> \notin DOMAIN steps
      BY <1>2, <2>5, <2>7 DEF Projects
    <3>2. Same(<<"outcome", q, j>>) /\ Same(<<"reconcile", q, j>>)
      BY <2>4, MarkKeys
    <3>3. <<"outcome", q, j>> \notin DOMAIN steps' /\ <<"reconcile", q, j>> \notin DOMAIN steps'
      BY <3>1, <3>2 DEF Same, Marks
    <3> QED BY <2>4, <2>5, <2>7, <3>3 DEF Projects
  <2> QED BY <2>6, <2>7
<1>9. MarksStay \/ RecordOutcome(c) \/ Reconcile(c) \/ Reserve(c)
  BY MarksStep
<1>10. attempts' = attempts \/ RecordOutcome(c) \/ Reconcile(c) \/ Reserve(c)
  BY StoresStep DEF StoresStay
<1> QED BY <1>3, <1>6, <1>7, <1>8, <1>9, <1>10
-----------------------------------------------------------------------------
(* Where the coordinators are                                              *)

\* An attempt that exists stays, with its time.
LEMMA AttemptsGrow ==
  ASSUME Inv, NEW c \in Coordinators, Step(c), NEW p \in Payments
  PROVE  /\ attempts[p] # <<>> => attempts'[p] # <<>> /\ 1 \in DOMAIN attempts[p]
         /\ DOMAIN attempts[p] \subseteq DOMAIN attempts'[p]
         /\ \A k \in DOMAIN attempts[p] : attempts'[p][k].at = attempts[p][k].at
<1>1. Attempted /\ Attempted'
  BY AttemptedStep DEF Inv
<1>2. attempts[p] \in Seq(AttemptRecord) /\ attempts'[p] \in Seq(AttemptRecord)
  BY <1>1 DEF Attempted
<1>3. attempts[p] # <<>> => 1 \in DOMAIN attempts[p]
  BY <1>2
<1>4. 1 \in DOMAIN attempts'[p] => attempts'[p] # <<>>
  BY <1>2
<1>5. /\ DOMAIN attempts[p] \subseteq DOMAIN attempts'[p]
      /\ \A k \in DOMAIN attempts[p] : attempts'[p][k].at = attempts[p][k].at
  <2>1. CASE attempts' = attempts
    BY <2>1
  <2>2. ASSUME NEW q \in Payments, NEW j \in DOMAIN attempts[q], NEW state, NEW truth,
               Replaced(q, j, state, truth)
        PROVE  /\ DOMAIN attempts[p] \subseteq DOMAIN attempts'[p]
               /\ \A k \in DOMAIN attempts[p] : attempts'[p][k].at = attempts[p][k].at
    <3>1. CASE p # q
      BY <2>2, <3>1 DEF Replaced
    <3>2. CASE p = q
      <4>1. DOMAIN attempts'[p] = DOMAIN attempts[p]
        BY <2>2, <3>2 DEF Replaced
      <4>2. attempts'[p][j].at = attempts[p][j].at
        BY <2>2, <3>2 DEF Replaced
      <4>3. \A k \in DOMAIN attempts[p] \ {j} : attempts'[p][k] = attempts[p][k]
        BY <2>2, <3>2 DEF Replaced
      <4> QED BY <4>1, <4>2, <4>3
    <3> QED BY <3>1, <3>2
  <2>3. CASE RecordOutcome(c)
    BY <2>1, <2>2, <2>3, OutcomeEffect
  <2>4. CASE Reconcile(c)
    BY <2>1, <2>2, <2>4, ReconcileEffect
  <2>5. CASE Reserve(c)
    <3> DEFINE q == me[c].payment
               at == me[c].due
    <3>1. q \in Payments /\ at \in Int /\ Added(q, at)
      BY <2>5, ReserveEffect DEF Enrolled
    <3> HIDE DEF q, at
    <3>2. /\ \A x \in Payments \ {q} : attempts'[x] = attempts[x]
          /\ Len(attempts[q]) \in Nat /\ DOMAIN attempts[q] = 1..Len(attempts[q])
          /\ DOMAIN attempts'[q] = 1..(Len(attempts[q]) + 1)
          /\ \A x \in DOMAIN attempts[q] : attempts'[q][x] = attempts[q][x]
      BY <1>1, <3>1, AddedTyped
    <3>3. CASE p = q
      BY <3>2, <3>3
    <3>4. CASE p # q
      BY <3>2, <3>4
    <3> QED BY <3>3, <3>4
  <2> QED BY <2>1, <2>3, <2>4, <2>5, StoresStep DEF StoresStay
<1> QED BY <1>3, <1>4, <1>5

\* A coordinator whose variables stay, and that comes to no place that asks
\* for more than the one it leaves.
LEMMA PlacedKept ==
  ASSUME Inv, NEW c \in Coordinators, Step(c), NEW b \in Coordinators,
         me'[b] = me[b],
         pc'[b] \in Inside => pc[b] \in Inside,
         pc'[b] \in InTurn => pc[b] \in InTurn,
         pc'[b] = "reserving" => pc[b] = "reserving",
         pc'[b] \in Working => me[b].ordinal \in DOMAIN attempts'[me[b].payment],
         pc'[b] = "attaching" => pc[b] = "attaching",
         pc'[b] \in {"registering", "recording"} => pc[b] \in {"registering", "recording"}
  PROVE  Placed(b)'
<1> DEFINE p == me[b].payment
<1>1. Placed(b)
  BY DEF Inv
<1>2. \A q \in Enrolled : q \in Enrolled'
  BY EnrolledGrows
<1>3. me'[b].left \subseteq Enrolled'
  BY <1>1, <1>2 DEF Placed
<1>4. pc'[b] \in Inside => p \in Enrolled' /\ me[b].ordinal \in 1..3
  BY <1>1, <1>2 DEF Placed
<1>5. pc'[b] \in InTurn => me[b].ordinal \in 1..2
  BY <1>1 DEF Placed
<1>6. pc'[b] = "reserving" =>
        /\ me[b].due \in Int
        /\ me[b].ordinal = 2 =>
             attempts'[p] # <<>> /\ me[b].due >= attempts'[p][1].at + ReconcileSeconds
  <2>1. SUFFICES ASSUME pc'[b] = "reserving"
                 PROVE  /\ me[b].due \in Int
                        /\ me[b].ordinal = 2 =>
                             /\ attempts'[p] # <<>>
                             /\ me[b].due >= attempts'[p][1].at + ReconcileSeconds
    OBVIOUS
  <2>2. pc[b] = "reserving" /\ p \in Payments
    BY <1>1, <2>1 DEF Placed, Inside, Enrolled
  <2>3. /\ attempts[p] # <<>> => attempts'[p] # <<>> /\ 1 \in DOMAIN attempts[p]
        /\ \A k \in DOMAIN attempts[p] : attempts'[p][k].at = attempts[p][k].at
    BY <2>2, AttemptsGrow
  <2>4. /\ me[b].due \in Int
        /\ me[b].ordinal = 2 =>
             attempts[p] # <<>> /\ me[b].due >= attempts[p][1].at + ReconcileSeconds
    BY <1>1, <2>2 DEF Placed
  <2> QED BY <2>3, <2>4
<1>7. pc'[b] = "attaching" => p \in Payments
  BY <1>1 DEF Placed
<1>8. pc'[b] \in {"registering", "recording"} =>
        /\ me[b].delivery.event.source = "normalized_api"
        /\ me[b].delivery.key[1] \in DeliveryKinds
  BY <1>1 DEF Placed
<1>9. DOMAIN me'[b] = MeFields /\ me'[b].stage \in Int
  BY <1>1 DEF Placed
<1> QED BY <1>3, <1>4, <1>5, <1>6, <1>7, <1>8, <1>9 DEF Placed

LEMMA PlacedOthers ==
  ASSUME Inv, NEW c \in Coordinators, Step(c), NEW b \in Coordinators, b # c
  PROVE  Placed(b)'
<1>1. me'[b] = me[b] /\ pc'[b] = pc[b]
  BY OthersStep DEF OthersStay, Inv
<1>2. pc[b] \in Working => me[b].ordinal \in DOMAIN attempts'[me[b].payment]
  <2>1. Placed(b)
    BY DEF Inv
  <2>2. pc[b] \in Working =>
          me[b].payment \in Payments /\ me[b].ordinal \in DOMAIN attempts[me[b].payment]
    BY <2>1 DEF Placed, Working, Inside, Enrolled
  <2> QED BY <2>2, AttemptsGrow
<1> QED BY <1>1, <1>2, PlacedKept

\* A place that asks for nothing.
Quiet == {"idle", "starting", "resuming", "delivering", "reporting", "analysing", "evaluating",
          "analysed", "scanning", "enumerating", "planning", "planned", "dispatching",
          "accounting"}

LEMMA PlacedQuiet ==
  ASSUME NEW c \in Coordinators, pc'[c] \in Quiet,
         DOMAIN me'[c] = MeFields, me'[c].stage \in Int, me'[c].left \subseteq Enrolled'
  PROVE  Placed(c)'
<1>1. pc'[c] \notin Inside \cup {"attaching", "registering", "recording"}
  BY DEF Quiet, Inside
<1> QED BY <1>1 DEF Placed, Inside, InTurn, Working

LEMMA Comes ==
  ASSUME Shaped, NEW c \in Coordinators
  PROVE  /\ \A to : pc' = [pc EXCEPT ![c] = to] => pc'[c] = to
         /\ \A m : me' = [me EXCEPT ![c] = m] => me'[c] = m
BY DEF Shaped

LEMMA NewMeFields ==
  DOMAIN NewMe = MeFields /\ NewMe.stage = -1 /\ NewMe.left = {}
BY DEF NewMe, MeFields

\* Its variables stay, or start anew, and nothing is asked of them.
LEMMA PlacedPassing ==
  ASSUME Inv, NEW c \in Coordinators, Step(c), NEW to \in Quiet, Goto(c, to),
         me' = me \/ me' = [me EXCEPT ![c] = NewMe]
  PROVE  Placed(c)'
<1>1. Shaped /\ Placed(c)
  BY DEF Inv
<1>2. pc'[c] = to
  BY <1>1, Comes DEF Goto
<1>3. me'[c] = me[c] \/ me'[c] = NewMe
  BY <1>1, Comes
<1>4. me[c].left \subseteq Enrolled'
  BY <1>1, EnrolledGrows DEF Placed
<1>5. DOMAIN me'[c] = MeFields /\ me'[c].stage \in Int /\ me'[c].left \subseteq Enrolled'
  BY <1>1, <1>3, <1>4, NewMeFields DEF Placed
<1> QED BY <1>2, <1>5, PlacedQuiet

LEMMA PlacedEntering ==
  ASSUME Inv, NEW c \in Coordinators, Step(c), NEW s \in Int, NEW done, EnterStage(c, s, done)
  PROVE  Placed(c)'
<1> DEFINE open == {t \in Stages : t >= s /\ Checkpoint("stage", t) \notin done}
           stage == IF open = {} THEN 4 ELSE Least(open)
           to == IF open = {} THEN "reporting" ELSE "delivering"
<1>1. Shaped
  BY DEF Inv
<1>2. stage \in Int
  <2>1. open # {} => Least(open) \in open
    BY LeastStage
  <2> QED BY <2>1 DEF Stages
<1>3. /\ me' = [me EXCEPT ![c] = [NewMe EXCEPT !.done = done, !.stage = stage]]
      /\ pc' = [pc EXCEPT ![c] = to]
  BY DEF EnterStage, Goto
<1>4. to \in Quiet
  BY DEF Quiet
<1> HIDE DEF stage, to
<1>5. me'[c] = [NewMe EXCEPT !.done = done, !.stage = stage] /\ pc'[c] = to
  BY <1>1, <1>3, Comes
<1>6. DOMAIN me'[c] = MeFields /\ me'[c].stage = stage /\ me'[c].left = {}
  BY <1>5, NewMeFields DEF MeFields
<1> QED BY <1>2, <1>4, <1>5, <1>6, PlacedQuiet

LEMMA PlacedByDelivery ==
  ASSUME Inv, NEW c \in Coordinators, Step(c), DeliverStage(c)
  PROVE  Placed(c)'
<1>1. Shaped /\ Placed(c)
  BY DEF Inv
<1>2. me[c].left \subseteq Enrolled'
  BY <1>1, EnrolledGrows DEF Placed
<1>3. CASE Deliver(c)
  <2>1. PICK d \in Undelivered(c) :
          /\ me' = [me EXCEPT ![c].delivery = d]
          /\ Goto(c, IF Enrols(d) THEN "registering" ELSE "recording")
    BY <1>3 DEF Deliver
  <2>2. me'[c] = [me[c] EXCEPT !.delivery = d]
    BY <1>1, <2>1 DEF Shaped
  <2>3. /\ me'[c].delivery = d /\ DOMAIN me'[c] = MeFields
        /\ me'[c].stage = me[c].stage /\ me'[c].left = me[c].left
    BY <1>1, <2>2 DEF Placed, MeFields
  <2>4. d.event.source = "normalized_api" /\ d.key[1] \in DeliveryKinds
    BY DeliveryFields DEF Undelivered
  <2>5. pc'[c] \in {"registering", "recording"}
    BY <1>1, <2>1, Comes DEF Goto
  <2> QED BY <1>1, <1>2, <2>3, <2>4, <2>5 DEF Placed, Inside, InTurn, Working
<1>4. CASE Register(c)
  <2>0. pc[c] = "registering" /\ Goto(c, "recording") /\ me' = me
    BY <1>4 DEF Register
  <2>1. pc'[c] = "recording"
    BY <1>1, <2>0, Comes DEF Goto
  <2> QED BY <2>0, <2>1, PlacedKept DEF Inside, InTurn, Working
<1>5. CASE RecordDelivery(c)
  <2> DEFINE key == me[c].delivery.key
  <2>1. /\ me' = [me EXCEPT ![c].done = @ \cup {key}, ![c].delivery = None]
        /\ Goto(c, "delivering")
    BY <1>5 DEF RecordDelivery, Record
  <2>2. pc'[c] = "delivering"
    BY <1>1, <2>1, Comes DEF Goto
  <2> HIDE DEF key
  <2>3. me'[c] = [me[c] EXCEPT !.done = @ \cup {key}, !.delivery = None]
    BY <1>1, <2>1 DEF Shaped
  <2>4. /\ DOMAIN me'[c] = MeFields
        /\ me'[c].stage = me[c].stage /\ me'[c].left = me[c].left
    BY <1>1, <2>3 DEF Placed, MeFields
  <2> QED BY <1>1, <1>2, <2>2, <2>4, PlacedQuiet DEF Placed, Quiet
<1>6. CASE AllDelivered(c)
  BY <1>6, PlacedPassing DEF AllDelivered, Local, Quiet
<1> QED BY <1>3, <1>4, <1>5, <1>6 DEF DeliverStage

LEMMA PlacedByPlanning ==
  ASSUME Inv, NEW c \in Coordinators, Step(c), PlanStage(c)
  PROVE  Placed(c)'
<1>1. Shaped /\ Placed(c)
  BY DEF Inv
<1>2. me[c].left \subseteq Enrolled'
  BY <1>1, EnrolledGrows DEF Placed
<1>3. CASE Analyse(c)
  <2>1. me' = [me EXCEPT ![c].evidence = events] /\ pc'[c] = "evaluating"
    BY <1>1, <1>3, Comes DEF Analyse, Local, Goto
  <2>2. /\ DOMAIN me'[c] = MeFields
        /\ me'[c].stage = me[c].stage /\ me'[c].left = me[c].left
    BY <1>1, <2>1 DEF Placed, MeFields, Shaped
  <2> QED BY <1>1, <1>2, <2>1, <2>2, PlacedQuiet DEF Placed, Quiet
<1>4. CASE Enumerate(c)
  <2>1. /\ me' = [me EXCEPT ![c].left = Candidates(me[c].stage)]
        /\ pc'[c] = "planning" /\ enrolled' = enrolled
    BY <1>1, <1>4, Comes DEF Enumerate, Local, Goto, db
  <2>2. /\ DOMAIN me'[c] = MeFields
        /\ me'[c].stage = me[c].stage /\ me'[c].left = Candidates(me[c].stage)
    BY <1>1, <2>1 DEF Placed, MeFields, Shaped
  <2>3. me'[c].left \subseteq Enrolled'
    BY <2>1, <2>2 DEF Candidates, Enrolled
  <2> QED BY <1>1, <2>1, <2>2, <2>3, PlacedQuiet DEF Placed, Quiet
<1>5. CASE PlanRecovery(c)
  <2>1. PICK p \in me[c].left : me' = [me EXCEPT ![c].payment = p, ![c].left = @ \ {p}]
    BY <1>5 DEF PlanRecovery
  <2>2. /\ me'[c].payment = p /\ DOMAIN me'[c] = MeFields
        /\ me'[c].stage = me[c].stage /\ me'[c].left = me[c].left \ {p}
    BY <1>1, <2>1 DEF Placed, MeFields, Shaped
  <2>3. p \in Payments
    BY <1>1, <2>1 DEF Placed, Enrolled
  <2>4. pc'[c] = "attaching"
    BY <1>1, <1>5, Comes DEF PlanRecovery, Goto
  <2> QED BY <1>1, <1>2, <2>2, <2>3, <2>4 DEF Placed, Inside, InTurn, Working
<1>6. CASE RecordEvaluation(c) \/ CloseAnalysis(c) \/ AttachPlan(c) \/ ClosePlanning(c)
  BY <1>6, PlacedPassing
     DEF RecordEvaluation, CloseAnalysis, AttachPlan, ClosePlanning, Record, Quiet
<1>7. CASE Scan(c)
  BY <1>7, PlacedPassing DEF Scan, Quiet
<1> QED BY <1>3, <1>4, <1>5, <1>6, <1>7 DEF PlanStage

LEMMA DueIsNumber ==
  ASSUME Inv, NEW p \in Payments, NEW ordinal \in 1..2,
         ordinal = 2 => attempts[p] # <<>>
  PROVE  /\ Due(p, ordinal) \in Int
         /\ ordinal = 2 => Due(p, ordinal) >= attempts[p][1].at + ReconcileSeconds
<1> DEFINE delay == IF attached[p] = None THEN 0 ELSE Seconds(attached[p].advice)
           wait == IF 2 * delay > ReconcileSeconds THEN 2 * delay ELSE ReconcileSeconds
<1>1. /\ plans[p] # None => plans[p].created \in Int /\ plans[p].advice.delay \in Int
      /\ attached[p] \in {None, plans[p]}
  BY DEF Inv, Timed
<1>2. delay \in Int
  BY <1>1, SecondsIsNumber
<1>3. wait \in Int /\ wait >= ReconcileSeconds
  BY <1>2 DEF ReconcileSeconds
<1>4. Due(p, ordinal) = IF ordinal = 2 THEN attempts[p][1].at + wait
                        ELSE IF attached[p] = None THEN StageTime(Outage)
                        ELSE attached[p].created + delay
  BY DEF Due
<1>5. StageTime(Outage) \in Int
  BY StageTimeIsNumber DEF Outage
<1>6. attached[p] # None => attached[p].created \in Int
  BY <1>1
<1> HIDE DEF wait, delay
<1>7. CASE ordinal = 2
  <2>1. attempts[p] \in Seq(AttemptRecord) /\ attempts[p] # <<>>
    BY <1>7 DEF Inv, Attempted
  <2>2. attempts[p][1] \in AttemptRecord
    BY <2>1
  <2>3. attempts[p][1].at \in Int
    BY <2>2 DEF AttemptRecord
  <2> QED BY <1>3, <1>4, <1>7, <2>3 DEF ReconcileSeconds
<1>8. CASE ordinal # 2
  BY <1>2, <1>4, <1>5, <1>6, <1>8
<1> QED BY <1>7, <1>8

LEMMA PlacedBySchedule ==
  ASSUME Inv, NEW c \in Coordinators, Step(c), Schedule(c)
  PROVE  Placed(c)'
<1>1. Shaped /\ Placed(c)
  BY DEF Inv
<1>2. /\ Enrolled \subseteq Payments /\ \A p \in Enrolled : p \in Enrolled'
      /\ me[c].left \subseteq Enrolled'
  BY <1>1, EnrolledGrows DEF Placed, Enrolled
<1>3. CASE BeginSimulation(c)
  <2> DEFINE left == IF me[c].stage < Outage THEN {} ELSE {p \in Payments : enrolled[p] # None}
             known == DOMAIN steps
  <2>1. /\ me' = [me EXCEPT ![c].known = known, ![c].left = left]
        /\ Goto(c, "dispatching")
    BY <1>3 DEF BeginSimulation, Local
  <2>2. left \subseteq Enrolled'
    BY <1>2 DEF Enrolled
  <2> HIDE DEF left, known
  <2>3. me'[c] = [me[c] EXCEPT !.known = known, !.left = left] /\ pc'[c] = "dispatching"
    BY <1>1, <2>1, Comes DEF Shaped, Goto
  <2>4. DOMAIN me'[c] = MeFields /\ me'[c].stage = me[c].stage /\ me'[c].left = left
    BY <1>1, <2>3 DEF Placed, MeFields
  <2> QED BY <1>1, <2>2, <2>3, <2>4, PlacedQuiet DEF Placed, Quiet
<1>4. CASE NextPayment(c)
  <2> DEFINE p == Least(me[c].left)
             left == me[c].left \ {p}
  <2>1. /\ me' = [me EXCEPT ![c].payment = p, ![c].ordinal = 1, ![c].left = left]
        /\ Goto(c, "considering") /\ me[c].left # {}
    BY <1>4 DEF NextPayment, Local
  <2>2. p \in Enrolled' /\ left \subseteq Enrolled'
    <3>1. me[c].left \in SUBSET Nat
      BY <1>1, <1>2, PaymentsAssumption DEF Placed
    <3>2. p \in me[c].left
      BY <2>1, <3>1, LeastPayment
    <3> QED BY <1>2, <3>2
  <2> HIDE DEF p, left
  <2>3. me'[c] = [me[c] EXCEPT !.payment = p, !.ordinal = 1, !.left = left]
        /\ pc'[c] = "considering"
    BY <1>1, <2>1, Comes DEF Shaped, Goto
  <2>4. /\ DOMAIN me'[c] = MeFields /\ me'[c].stage = me[c].stage /\ me'[c].left = left
        /\ me'[c].payment = p /\ me'[c].ordinal = 1
    BY <1>1, <2>3 DEF Placed, MeFields
  <2> QED BY <1>1, <2>2, <2>3, <2>4 DEF Placed, Inside, InTurn, Working
<1>5. CASE LeavePayment(c)
  BY <1>5, PlacedPassing DEF LeavePayment, Local, Quiet
<1>6. CASE PassOver(c)
  <2>1. /\ me' = [me EXCEPT ![c].ordinal = me[c].ordinal + 1]
        /\ pc' = pc /\ pc[c] = "considering" /\ ~Exhausted(c)
    BY <1>6 DEF PassOver
  <2>2. /\ DOMAIN me'[c] = MeFields /\ me'[c].stage = me[c].stage /\ me'[c].left = me[c].left
        /\ me'[c].payment = me[c].payment /\ me'[c].ordinal = me[c].ordinal + 1
    BY <1>1, <2>1 DEF Placed, MeFields, Shaped
  <2>3. me[c].payment \in Enrolled /\ me[c].ordinal \in 1..2
    BY <1>1, <2>1 DEF Placed, Inside, Exhausted
  <2> QED BY <1>1, <1>2, <2>1, <2>2, <2>3 DEF Placed, Inside, InTurn, Working
<1>7. CASE TakeUp(c)
  <2> DEFINE p == me[c].payment
             due == Due(p, me[c].ordinal)
  <2>1. /\ me' = [me EXCEPT ![c].due = due]
        /\ pc[c] = "considering" /\ Goto(c, "reserving") /\ ~Exhausted(c) /\ attempts' = attempts
    BY <1>7 DEF TakeUp, Local, db
  <2>2. p \in Enrolled /\ me[c].ordinal \in 1..2 /\ (me[c].ordinal = 2 => attempts[p] # <<>>)
    BY <1>1, <2>1 DEF Placed, Inside, Exhausted
  <2>3. due \in Int /\ (me[c].ordinal = 2 => due >= attempts[p][1].at + ReconcileSeconds)
    BY <1>2, <2>2, DueIsNumber
  <2> HIDE DEF due
  <2>4. /\ DOMAIN me'[c] = MeFields /\ me'[c].stage = me[c].stage /\ me'[c].left = me[c].left
        /\ me'[c].payment = p /\ me'[c].ordinal = me[c].ordinal /\ me'[c].due = due
    BY <1>1, <2>1 DEF Placed, MeFields, Shaped
  <2>5. pc'[c] = "reserving"
    BY <1>1, <2>1, Comes DEF Goto
  <2>6. me[c].stage \in Int
    BY <1>1 DEF Placed
  <2>7. me'[c].ordinal = 2 =>
          /\ attempts'[me'[c].payment] # <<>>
          /\ me'[c].due >= attempts'[me'[c].payment][1].at + ReconcileSeconds
    BY <2>1, <2>2, <2>3, <2>4
  <2> HIDE DEF p
  <2> QED BY <1>2, <2>2, <2>3, <2>4, <2>5, <2>6, <2>7 DEF Placed, Inside, InTurn, Working
<1>8. CASE CloseStage(c)
  <2>1. me[c].stage + 1 \in Int
    BY <1>1 DEF Placed
  <2>2. EnterStage(c, me[c].stage + 1, me[c].done)
    BY <1>8 DEF CloseStage
  <2> QED BY <2>1, <2>2, PlacedEntering
<1> QED BY <1>3, <1>4, <1>5, <1>6, <1>7, <1>8 DEF Schedule

LEMMA PlacedByAttempt ==
  ASSUME Inv, NEW c \in Coordinators, Step(c), Attempt(c)
  PROVE  Placed(c)'
<1>1. Shaped /\ Placed(c)
  BY DEF Inv
<1>2. ASSUME NEW to \in InTurn \ {"reserving"},
             Goto(c, to), pc[c] \in InTurn, me' = me,
             to \in Working => me[c].ordinal \in DOMAIN attempts'[me[c].payment]
      PROVE  Placed(c)'
  <2>1. pc'[c] = to /\ me'[c] = me[c]
    BY <1>1, <1>2, Comes DEF Goto
  <2> QED BY <1>2, <2>1, PlacedKept DEF InTurn, Inside
<1>3. ASSUME pc[c] \in Working
      PROVE  me[c].ordinal \in DOMAIN attempts'[me[c].payment]
  <2>1. me[c].payment \in Payments /\ me[c].ordinal \in DOMAIN attempts[me[c].payment]
    BY <1>1, <1>3 DEF Placed, Working, Inside, Enrolled
  <2> QED BY <2>1, AttemptsGrow
<1>4. CASE FindReserved(c)
  <2>1. pc[c] = "reserving" /\ Goto(c, "modelling") /\ me' = me /\ attempts' = attempts
    BY <1>4 DEF FindReserved, Local, db
  <2>2. me[c].ordinal \in DOMAIN attempts'[me[c].payment]
    BY <1>4, <2>1 DEF FindReserved, Reserved
  <2> QED BY <1>2, <2>1, <2>2 DEF InTurn, Inside
<1>5. CASE Reserve(c)
  <2>1. pc[c] = "reserving" /\ Goto(c, "modelling") /\ me' = me
    BY <1>5 DEF Reserve
  <2> DEFINE p == me[c].payment
             at == me[c].due
  <2>2. /\ p \in Payments /\ at \in Int /\ Added(p, at) /\ Attempted
        /\ me[c].ordinal = Len(attempts[p]) + 1
    BY <1>5, ReserveEffect DEF Enrolled, Inv
  <2> HIDE DEF p, at
  <2>3. Len(attempts[p]) \in Nat /\ DOMAIN attempts'[p] = 1..(Len(attempts[p]) + 1)
    BY <2>2, AddedTyped
  <2>4. me[c].ordinal \in DOMAIN attempts'[me[c].payment]
    BY <2>2, <2>3 DEF p
  <2> QED BY <1>2, <2>1, <2>4 DEF InTurn, Inside
<1>6. CASE Refuse(c)
  <2>1. pc[c] = "reserving" /\ Goto(c, "refused") /\ me' = me
    BY <1>6 DEF Refuse, Record
  <2> QED BY <1>2, <2>1 DEF InTurn, Inside, Working
<1>7. CASE CloseRefused(c)
  BY <1>7, PlacedPassing DEF CloseRefused, Record, Quiet
<1>8. CASE RecordOutcome(c)
  <2>1. pc[c] = "modelling" /\ Goto(c, "observed") /\ me' = me
    BY <1>8, Zenon DEF RecordOutcome
  <2> QED BY <1>2, <1>3, <2>1 DEF InTurn, Inside, Working
<1>9. CASE Suppress(c)
  <2>1. pc[c] = "observed" /\ Goto(c, "suppressed") /\ me' = me
    BY <1>9 DEF Suppress, Record
  <2> QED BY <1>2, <1>3, <2>1 DEF InTurn, Inside, Working
<1>10. CASE Reconcile(c)
  <2>1. pc[c] = "suppressed" /\ Goto(c, "reconciled") /\ me' = me
    BY <1>10 DEF Reconcile
  <2> QED BY <1>2, <2>1 DEF InTurn, Inside, Working
<1>11. CASE CloseDispatch(c)
  <2>1. /\ me' = [me EXCEPT ![c].ordinal = me[c].ordinal + 1]
        /\ pc[c] = "reconciled" /\ Goto(c, "considering")
    BY <1>11 DEF CloseDispatch, Record
  <2>2. /\ DOMAIN me'[c] = MeFields /\ me'[c].stage = me[c].stage /\ me'[c].left = me[c].left
        /\ me'[c].payment = me[c].payment /\ me'[c].ordinal = me[c].ordinal + 1
    BY <1>1, <2>1 DEF Placed, MeFields, Shaped
  <2>3. me[c].payment \in Enrolled /\ me[c].ordinal \in 1..2 /\ pc'[c] = "considering"
    BY <1>1, <2>1, Comes DEF Placed, Inside, InTurn, Goto
  <2>4. me[c].left \subseteq Enrolled' /\ me[c].payment \in Enrolled'
    BY <1>1, <2>3, EnrolledGrows DEF Placed
  <2> QED BY <1>1, <2>2, <2>3, <2>4 DEF Placed, Inside, InTurn, Working
<1> QED BY <1>4, <1>5, <1>6, <1>7, <1>8, <1>9, <1>10, <1>11 DEF Attempt

LEMMA PlacedByCompletion ==
  ASSUME Inv, NEW c \in Coordinators, Step(c), Complete(c)
  PROVE  Placed(c)'
<1>1. Shaped /\ Placed(c)
  BY DEF Inv
<1>2. \A p \in Enrolled : p \in Enrolled'
  BY EnrolledGrows
<1>3. CASE CountSteps(c)
  <2> DEFINE left == {p \in Payments : enrolled[p] # None}
  <2>1. \E report : me' = [me EXCEPT ![c].report = report, ![c].left = left]
    BY <1>3, Zenon DEF CountSteps
  <2>2. PICK report : me' = [me EXCEPT ![c].report = report, ![c].left = left]
    BY <2>1
  <2>3. left \subseteq Enrolled'
    BY <1>2 DEF Enrolled
  <2>4. pc'[c] = "accounting"
    BY <1>1, <1>3, Comes DEF CountSteps, Local, Goto
  <2> HIDE DEF left
  <2>5. me'[c] = [me[c] EXCEPT !.report = report, !.left = left]
    BY <1>1, <2>2 DEF Shaped
  <2>6. DOMAIN me'[c] = MeFields /\ me'[c].stage = me[c].stage /\ me'[c].left = left
    BY <1>1, <2>5 DEF Placed, MeFields
  <2> QED BY <1>1, <2>3, <2>4, <2>6, PlacedQuiet DEF Placed, Quiet
<1>4. CASE CountPayment(c)
  <2>1. \E p, account : me' = [me EXCEPT ![c].report.accounts = @ \cup {account},
                                         ![c].left = @ \ {p}]
    BY <1>4, Zenon DEF CountPayment
  <2>2. PICK p, account : me' = [me EXCEPT ![c].report.accounts = @ \cup {account},
                                         ![c].left = @ \ {p}]
    BY <2>1
  <2>3. pc' = pc /\ pc[c] = "accounting"
    BY <1>4 DEF CountPayment
  <2>4. me'[c] = [me[c] EXCEPT !.report.accounts = @ \cup {account}, !.left = @ \ {p}]
    BY <1>1, <2>2 DEF Shaped
  <2>5. DOMAIN me'[c] = MeFields /\ me'[c].stage = me[c].stage /\ me'[c].left \subseteq me[c].left
    BY <1>1, <2>4 DEF Placed, MeFields
  <2>6. me'[c].left \subseteq Enrolled'
    BY <1>1, <1>2, <2>5 DEF Placed
  <2> QED BY <1>1, <2>3, <2>5, <2>6, PlacedQuiet DEF Placed, Quiet
<1>5. CASE Finish(c)
  BY <1>5, PlacedPassing DEF Finish, Return, End, Quiet
<1> QED BY <1>3, <1>4, <1>5 DEF Complete

LEMMA PlacedStep ==
  ASSUME Inv, NEW c \in Coordinators, Step(c)
  PROVE  \A b \in Coordinators : Placed(b)'
<1>1. Placed(c)'
  <2>1. CASE Acquire(c)
    BY <2>1, PlacedPassing DEF Acquire, Quiet
  <2>2. CASE Fail(c) \/ Conflict(c)
    BY <2>2, PlacedPassing DEF Fail, Conflict, End, Quiet
  <2>3. CASE LoseLock(c)
    <3>1. pc' = pc /\ me' = me /\ attempts' = attempts
      BY <2>3 DEF LoseLock, db
    <3>2. Placed(c)
      BY DEF Inv
    <3> QED BY <3>1, <3>2, PlacedKept DEF Placed
  <2>4. CASE Prepare(c)
    <3>1. CASE Start(c)
      BY <3>1, PlacedPassing DEF Start, Quiet
    <3>2. CASE ReturnReport(c)
      BY <3>2, PlacedPassing DEF ReturnReport, Return, End, Quiet
    <3>3. CASE Resume(c)
      BY <3>3, PlacedEntering DEF Resume
    <3> QED BY <2>4, <3>1, <3>2, <3>3 DEF Prepare
  <2> QED BY <2>1, <2>2, <2>3, <2>4, PlacedByDelivery, PlacedByPlanning, PlacedBySchedule,
             PlacedByAttempt, PlacedByCompletion DEF Step, Proceed
<1> QED BY <1>1, PlacedOthers

-----------------------------------------------------------------------------
(* The invariant                                                           *)

LEMMA Initially ==
  Init => Inv
<1> SUFFICES ASSUME Init PROVE Inv
  OBVIOUS
<1>1. Shaped
  BY DEF Init, Shaped
<1>2. Sourced /\ Timed
  BY DEF Init, Sourced, Timed, Enrolled
<1>3. attempts = [p \in Payments |-> <<>>] /\ steps = <<>>
  BY DEF Init
<1>4. Attempted
  <2>1. <<>> \in Seq(AttemptRecord) /\ Len(<<>>) = 0 /\ DOMAIN <<>> = {}
    OBVIOUS
  <2>2. \A p \in Payments : attempts[p] = <<>>
    BY <1>3
  <2> QED BY <1>3, <2>1, <2>2 DEF Attempted
<1>5. Outcomes
  BY <1>3 DEF Outcomes
<1>6. \A c \in Coordinators : Placed(c)
  <2> SUFFICES ASSUME NEW c \in Coordinators PROVE Placed(c)
    OBVIOUS
  <2>1. pc[c] = "idle" /\ me[c] = NewMe
    BY DEF Init
  <2> QED BY <2>1, NewMeFields DEF Placed, Inside, InTurn, Working
<1>7. ProjectionMatchesSteps
  BY <1>3 DEF ProjectionMatchesSteps
<1> QED BY <1>1, <1>2, <1>4, <1>5, <1>6, <1>7 DEF Inv

LEMMA Stutters ==
  ASSUME Inv, UNCHANGED vars
  PROVE  Inv'
<1>1. UNCHANGED <<pc, me, steps, events, enrolled, plans, attached, attempts>>
  BY DEF vars, db
<1>2. Shaped' /\ Sourced' /\ Timed'
  BY <1>1 DEF Inv, Shaped, Sourced, Timed, Enrolled
<1>4. Attempted' /\ Outcomes'
  BY <1>1 DEF Inv, Attempted, Outcomes
<1>5. ProjectionMatchesSteps'
  BY <1>1 DEF Inv, ProjectionMatchesSteps
<1>3. \A c \in Coordinators : Placed(c)'
  BY <1>1 DEF Inv, Placed, Enrolled
<1> QED BY <1>2, <1>3, <1>4, <1>5 DEF Inv

LEMMA Steps ==
  Next <=> \E c \in Coordinators : Step(c)
BY DEF Next, Step

\* What the theorems below rest on holds in every reachable state.
THEOREM Invariance ==
  Spec => []Inv
<1>1. Inv /\ [Next]_vars => Inv'
  <2> SUFFICES ASSUME Inv, [Next]_vars PROVE Inv'
    OBVIOUS
  <2>1. CASE UNCHANGED vars
    BY <2>1, Stutters
  <2>2. CASE Next
    <3>1. PICK c \in Coordinators : Step(c)
      BY <2>2, Steps
    <3> QED BY <3>1, EnrolledGrows, SourcedStep, TimedStep, AttemptedStep, OutcomesStep,
               PlacedStep, ProjectionStep DEF Inv
  <2> QED BY <2>1, <2>2
<1> QED BY Initially, <1>1, PTL DEF Spec

\* At any time, whatever coordinators died or lost their lock, the mutable
\* state of an attempt is the last thing its recorded steps say of it
\* (reserve, outcome and reconcile in simulation_store.py).
THEOREM ProjectionTrue ==
  Spec => []ProjectionMatchesSteps
BY Invariance, PTL DEF Inv

\* No attempt is ever added to a payment whose success is stored, even by a
\* coordinator that took the attempt up before the success arrived (reserve).
THEOREM NeverAfterSuccess ==
  Spec => NoAttemptAfterSuccess
<1> DEFINE Grows(p) == Len(attempts'[p]) > Len(attempts[p])
           Paid(p) == \E e \in events : e.payment = p /\ e.status = "success"
<1>1. ASSUME Inv, Next, NEW p \in Payments, Grows(p) PROVE ~Paid(p)
  <2>1. PICK c \in Coordinators : Step(c)
    BY <1>1, Steps
  <2>2. attempts[p] \in Seq(AttemptRecord)
    BY <1>1 DEF Inv, Attempted
  <2>3. attempts' # attempts
    BY <1>1, <2>2
  <2>4. ~RecordOutcome(c) /\ ~Reconcile(c)
    <3>1. ASSUME NEW q \in Payments, NEW k, NEW state, NEW truth, Replaced(q, k, state, truth)
          PROVE  FALSE
      <4>1. CASE p = q
        BY <1>1, <2>2, <3>1, <4>1 DEF Replaced
      <4>2. CASE p # q
        <5>1. attempts'[p] = attempts[p]
          BY <3>1, <4>2 DEF Replaced
        <5> QED BY <1>1, <2>2, <5>1
      <4> QED BY <4>1, <4>2
    <3> QED BY <1>1, <2>3, <3>1, OutcomeEffect, ReconcileEffect
  <2>5. Reserve(c)
    BY <2>1, <2>3, <2>4, StoresStep DEF StoresStay
  <2>6. p = me[c].payment
    <3> DEFINE q == me[c].payment
               at == me[c].due
    <3>1. q \in Payments /\ at \in Int /\ Added(q, at) /\ Attempted
      BY <1>1, <2>5, ReserveEffect DEF Enrolled, Inv
    <3> HIDE DEF q, at
    <3>2. p # q => attempts'[p] = attempts[p]
      BY <3>1, AddedTyped
    <3> QED BY <1>1, <2>2, <3>2 DEF q
  <2>7. p \in Enrolled /\ ~History(events, enrolled[p]).success
    BY <1>1, <2>5, <2>6, ReserveEffect
  <2>8. /\ enrolled[p].payment = p /\ enrolled[p].source = "normalized_api"
        /\ \A e \in events : e.source = "normalized_api"
    BY <1>1, <2>7 DEF Inv, Sourced
  <2> QED BY <2>7, <2>8 DEF History, SamePayment
<1>2. Inv /\ [Next]_vars => [\A p \in Payments : Grows(p) => ~Paid(p)]_attempts
  <2>1. UNCHANGED vars => UNCHANGED attempts
    BY DEF vars, db
  <2> QED BY <1>1, <2>1
<1> QED BY Invariance, <1>2, PTL DEF Spec, NoAttemptAfterSuccess

\* Attempts go by the book of AttemptBook: two at most, one at a time, the
\* second after the wait, each with one truth that observation only approaches
\* (reserve, outcome and reconcile).
THEOREM Implementation ==
  Spec => ImplementsAttempts
<1>1. Init => Book!Init
  BY DEF Init, Book!Init
<1>2. ASSUME Inv, NEW c \in Coordinators, Reserve(c)
      PROVE  Book!Next
  <2> DEFINE p == me[c].payment
             at == me[c].due
  <2>1. /\ p \in Payments /\ at \in Int /\ Added(p, at) /\ Attempted
        /\ Len(attempts[p]) < 2
        /\ \A k \in DOMAIN attempts[p] : attempts[p][k].state = "failed"
        /\ attempts[p] # <<>> => at >= attempts[p][1].at + ReconcileSeconds
    BY <1>2, ReserveEffect DEF Enrolled, Inv
  <2> HIDE DEF p, at
  <2>2. /\ Len(attempts'[p]) = Len(attempts[p]) + 1
        /\ attempts'[p][Len(attempts[p]) + 1] = [at |-> at, state |-> "reserved", truth |-> None]
    BY <2>1, AddedTyped
  <2>3. attempts'[p][Len(attempts'[p])].at = at
    BY <2>2
  <2>4. attempts[p] # <<>> => Len(attempts[p]) = 1
    <3>1. attempts[p] \in Seq(AttemptRecord)
      BY <2>1 DEF Attempted
    <3>2. attempts[p] # <<>> => 1 \in DOMAIN attempts[p]
      BY <3>1
    <3> DEFINE n == Len(attempts[p])
    <3>3. n \in Nat /\ DOMAIN attempts[p] = 1..n
      BY <3>1
    <3>4. n < 2
      BY <2>1
    <3> HIDE DEF n
    <3>5. 1 \in 1..n => n = 1
      BY <3>3, <3>4
    <3> QED BY <3>2, <3>3, <3>5 DEF n
  <2>5. Book!Reserve(p, at)
    BY <2>1, <2>4 DEF Book!Reserve, Book!Settled, Added, ReconcileSeconds
  <2> QED BY <2>1, <2>2, <2>3, <2>5 DEF Book!Next
<1>3. ASSUME Inv, NEW c \in Coordinators, RecordOutcome(c)
      PROVE  Book!Next \/ attempts' = attempts
  <2> DEFINE p == me[c].payment
             k == me[c].ordinal
             at == attempts[p][k].at
             truth == Truth(world[p], at)
             seen == Observed(world[p], at)
  <2>1. CASE attempts' = attempts
    BY <2>1
  <2>2. CASE attempts' # attempts
    <3>1. p \in Payments /\ k \in DOMAIN attempts[p] /\ attempts[p][k].state = "reserved"
      BY <1>3, <2>2, OutcomeEffect
    <3>2. attempts' = [attempts EXCEPT ![p][k] = Modelled(p, at)]
      BY <1>3, <3>1, Zenon DEF RecordOutcome
    <3>3. attempts' = [attempts EXCEPT ![p][k] =
                         [at |-> attempts[p][k].at, state |-> seen, truth |-> truth]]
      BY <3>2 DEF Modelled
    <3>4. truth \in Book!Truths /\ seen \in {truth, "uncertain"}
      BY ModelAnswers DEF Book!Truths
    <3> HIDE DEF truth, seen, p, k
    <3>5. Book!Observe(p, k, truth)
      BY <3>1, <3>3, <3>4 DEF Book!Observe
    <3> QED BY <3>1, <3>4, <3>5 DEF Book!Next
  <2> QED BY <2>1, <2>2
<1>4. ASSUME Inv, NEW c \in Coordinators, Reconcile(c)
      PROVE  Book!Next \/ attempts' = attempts
  <2> DEFINE p == me[c].payment
             k == me[c].ordinal
             revealed == IF world[p].reconcilable THEN attempts[p][k].truth ELSE "uncertain"
  <2>1. CASE attempts' = attempts
    BY <2>1
  <2>2. CASE attempts' # attempts
    <3>1. p \in Payments /\ k \in DOMAIN attempts[p] /\ attempts[p][k].state = "uncertain"
      BY <1>4, <2>2, ReconcileEffect
    <3>2. attempts' = [attempts EXCEPT ![p][k].state = revealed]
      BY <1>4, <3>1 DEF Reconcile
    <3>3. attempts \in [Payments -> Seq(AttemptRecord)]
      BY <1>4 DEF Inv, Attempted
    <3> HIDE DEF revealed, p, k
    <3>4. revealed # "uncertain"
      <4> SUFFICES ASSUME revealed = "uncertain" PROVE FALSE
        OBVIOUS
      <4> DEFINE r == attempts[p][k]
      <4>1. attempts[p] \in Seq(AttemptRecord) /\ r \in AttemptRecord
        BY <3>1, <3>3
      <4>2. [r EXCEPT !.state = "uncertain"] = r
        BY <3>1, <4>1 DEF AttemptRecord
      <4>3. attempts' = [attempts EXCEPT ![p] = [attempts[p] EXCEPT ![k] =
                           [r EXCEPT !.state = "uncertain"]]]
        BY <3>2
      <4>4. [attempts[p] EXCEPT ![k] = r] = attempts[p]
        BY <3>1, <4>1
      <4>5. attempts' = [attempts EXCEPT ![p] = attempts[p]]
        BY <4>2, <4>3, <4>4
      <4>6. attempts' = attempts
        BY <3>1, <3>3, <4>5
      <4> QED BY <2>2, <4>6
    <3>5. revealed = attempts[p][k].truth
      BY <3>4 DEF revealed, p, k
    <3>6. Book!Reconcile(p, k)
      BY <3>1, <3>2, <3>5 DEF Book!Reconcile
    <3> QED BY <3>1, <3>6 DEF Book!Next
  <2> QED BY <2>1, <2>2
<1>5. Inv /\ [Next]_vars => [Book!Next]_attempts
  <2> SUFFICES ASSUME Inv, [Next]_vars PROVE Book!Next \/ attempts' = attempts
    OBVIOUS
  <2>1. CASE UNCHANGED vars
    BY <2>1 DEF vars, db
  <2>2. CASE Next
    <3>1. PICK c \in Coordinators : Step(c)
      BY <2>2, Steps
    <3> QED BY <1>2, <1>3, <1>4, <3>1, StoresStep DEF StoresStay
  <2> QED BY <2>1, <2>2
<1> QED BY Invariance, <1>1, <1>5, PTL DEF Spec, ImplementsAttempts, Book!Spec

-----------------------------------------------------------------------------
(* Stages                                                                  *)

\* What each stage delivers; this never changes.
All == [s \in Stages |-> StageDeliveries(s)]

\* DeliveredBy, of such an assignment.
By(D, s) == {d.event : d \in UNION {D[t] : t \in {u \in Stages : u <= s}}}

\* What the recorded keys S, the events E and the scanned stages N say of each
\* other.  A closed stage has arrived, was evaluated and scanned; an event is
\* of a stage before which all are closed; what is recorded as delivered is
\* stored.
Paths(S, E, N, D) ==
  /\ \A u \in Stages : Checkpoint("stage", u) \in S =>
       By(D, u) \subseteq E /\ (u # -1 => u \in N /\ Checkpoint("evaluation", u) \in S)
  /\ \A e \in E : \E t \in Stages :
       e \in {d.event : d \in D[t]} /\ \A u \in Stages : u < t => Checkpoint("stage", u) \in S
  /\ \A t \in Stages : \A d \in D[t] : d.key \in S => d.event \in E
  /\ \A u \in Stages : Checkpoint("analysis", u) \in S => Checkpoint("evaluation", u) \in S

Outside == {"idle", "starting", "resuming", "reporting", "accounting"}
Receiving == {"delivering", "registering", "recording"}
Analysing == {"analysing", "evaluating"}
Looking == Analysing \cup {"analysed", "scanning"}
Scanned == {"enumerating", "planning", "attaching", "planned"}

\* A coordinator in a stage came by all before it, and has behind it what its
\* place in the stage says.
Fares(at, m, S, E, N, D) ==
  /\ m.done \subseteq S
  /\ at \notin Outside =>
       /\ m.stage \in Stages
       /\ \A u \in Stages : u < m.stage => Checkpoint("stage", u) \in S
       /\ at \in {"registering", "recording"} => m.delivery \in D[m.stage] /\ m.delivery.event \in E
       /\ at \notin Receiving => By(D, m.stage) \subseteq E
       /\ at \in Looking \cup Scanned => m.stage # -1
       /\ at = "evaluating" =>
            m.evidence = By(D, m.stage) \/ Checkpoint("evaluation", m.stage) \in S
       /\ at \notin Receiving \cup Analysing /\ m.stage # -1 => Checkpoint("evaluation", m.stage) \in S
       /\ at \notin Receiving \cup Looking /\ m.stage # -1 => m.stage \in N

Exact(st, sc, D) ==
  /\ \A s \in DOMAIN sc : sc[s] = By(D, s)
  /\ \A s \in Stages : Checkpoint("evaluation", s) \in DOMAIN st =>
       st[Checkpoint("evaluation", s)] = By(D, s)

FrozenInv ==
  /\ Paths(DOMAIN steps, events, DOMAIN scanned, All)
  /\ Exact(steps, scanned, All)
  /\ \A c \in Coordinators : Fares(pc[c], me[c], DOMAIN steps, events, DOMAIN scanned, All)

LEMMA FrozenIs == FrozenInv => StageFrozen
<1> SUFFICES ASSUME FrozenInv PROVE StageFrozen
  OBVIOUS
<1>1. \A s : {All[t] : t \in {u \in Stages : u <= s}} = {StageDeliveries(t) : t \in {u \in Stages : u <= s}}
  BY DEF All
<1>2. \A s : By(All, s) = DeliveredBy(s)
  BY <1>1 DEF By, DeliveredBy
<1> QED BY <1>2 DEF FrozenInv, Exact, StageFrozen

LEMMA AllStays == world' = world => All' = All
BY DEF All, StageDeliveries

\* A delivery's key tells its event.
LEMMA KeyTellsEvent ==
  ASSUME NEW s \in Stages, NEW t \in Stages, NEW d \in All[s], NEW f \in All[t], d.key = f.key
  PROVE  d.event = f.event
<1>1. ASSUME NEW u \in Stages, NEW g \in All[u]
      PROVE  \E p \in Payments :
               \/ g = Delivery("event", 2, FailedEvent(p, world[p]))
               \/ g = Delivery("duplicate", 1, FailedEvent(p, world[p]))
               \/ g = Delivery("history", 3, HistoryEvent(p, world[p]))
               \/ g = Delivery("late", 1, LateEvent(p, world[p]))
  <2>1. PICK p \in Payments : g \in Deliveries(p, world[p], u)
    BY <1>1 DEF All, StageDeliveries
  <2> QED BY <2>1 DEF Deliveries
<1>2. \A p : /\ FailedEvent(p, world[p]).payment = p
             /\ HistoryEvent(p, world[p]).payment = p
             /\ LateEvent(p, world[p]).payment = p
  BY DEF FailedEvent, HistoryEvent, LateEvent
<1>3. \A kind, rank, e : Delivery(kind, rank, e).event = e /\ Delivery(kind, rank, e).key = <<kind, e.payment, 0>>
  BY DEF Delivery
<1>4. PICK p \in Payments :
        \/ d = Delivery("event", 2, FailedEvent(p, world[p]))
        \/ d = Delivery("duplicate", 1, FailedEvent(p, world[p]))
        \/ d = Delivery("history", 3, HistoryEvent(p, world[p]))
        \/ d = Delivery("late", 1, LateEvent(p, world[p]))
  BY <1>1
<1>5. PICK q \in Payments :
        \/ f = Delivery("event", 2, FailedEvent(q, world[q]))
        \/ f = Delivery("duplicate", 1, FailedEvent(q, world[q]))
        \/ f = Delivery("history", 3, HistoryEvent(q, world[q]))
        \/ f = Delivery("late", 1, LateEvent(q, world[q]))
  BY <1>1
<1>6. d.key[2] = p /\ f.key[2] = q
  BY <1>2, <1>3, <1>4, <1>5
<1>7. p = q
  BY <1>6
<1>8. /\ d = Delivery("event", 2, FailedEvent(p, world[p])) => d.key[1] = "event"
      /\ d = Delivery("duplicate", 1, FailedEvent(p, world[p])) => d.key[1] = "duplicate"
      /\ d = Delivery("history", 3, HistoryEvent(p, world[p])) => d.key[1] = "history"
      /\ d = Delivery("late", 1, LateEvent(p, world[p])) => d.key[1] = "late"
  BY <1>3
<1>9. /\ f = Delivery("event", 2, FailedEvent(q, world[q])) => f.key[1] = "event"
      /\ f = Delivery("duplicate", 1, FailedEvent(q, world[q])) => f.key[1] = "duplicate"
      /\ f = Delivery("history", 3, HistoryEvent(q, world[q])) => f.key[1] = "history"
      /\ f = Delivery("late", 1, LateEvent(q, world[q])) => f.key[1] = "late"
  BY <1>3
<1> QED BY <1>3, <1>4, <1>5, <1>7, <1>8, <1>9

\* While a stage is not scanned or not evaluated nothing later has arrived.
LEMMA NothingLater ==
  ASSUME NEW S, NEW E, NEW N, NEW D, Paths(S, E, N, D), NEW s \in Stages, s # -1,
         By(D, s) \subseteq E, s \notin N \/ Checkpoint("evaluation", s) \notin S
  PROVE  E = By(D, s)
<1>1. Checkpoint("stage", s) \notin S
  BY DEF Paths
<1>2. ASSUME NEW e \in E PROVE e \in By(D, s)
  <2>1. PICK t \in Stages :
          e \in {d.event : d \in D[t]} /\ \A u \in Stages : u < t => Checkpoint("stage", u) \in S
    BY DEF Paths
  <2>2. ~(s < t)
    BY <1>1, <2>1
  <2>3. t <= s
    BY <2>2 DEF Stages
  <2> QED BY <2>1, <2>3 DEF By
<1> QED BY <1>2

\* A coordinator that stays where it is fares on while the stores grow.
LEMMA FaresOn ==
  ASSUME NEW at, NEW m, NEW D, NEW S, NEW E, NEW N, NEW S1, NEW E1, NEW N1,
         Fares(at, m, S, E, N, D), S \subseteq S1, E \subseteq E1, N \subseteq N1
  PROVE  Fares(at, m, S1, E1, N1, D)
BY DEF Fares

\* The recorded keys that say how far the stages are.
PathKinds == {"stage", "evaluation", "analysis"} \cup DeliveryKinds
PathsStay == \A key : key[1] \in PathKinds => Same(key)

LEMMA AppendPathless ==
  ASSUME NEW key, NEW data, AppendStep(key, data), key[1] \notin PathKinds
  PROVE  PathsStay
BY AppendKeeps DEF PathsStay

LEMMA PathsStep ==
  ASSUME Inv, NEW c \in Coordinators, Step(c)
  PROVE  PathsStay \/ RecordDelivery(c) \/ RecordEvaluation(c) \/ CloseAnalysis(c) \/ CloseStage(c)
<1>a. steps' = steps => PathsStay
  BY DEF PathsStay, Same
<1>b. PathKinds = {"stage", "evaluation", "analysis", "event", "duplicate", "history", "late"}
  BY DEF PathKinds, DeliveryKinds
<1>1. CASE Prepare(c)
  BY <1>1, <1>a DEF Prepare, Start, ReturnReport, Resume, db
<1>2. CASE DeliverStage(c)
  BY <1>2, <1>a DEF DeliverStage, Deliver, Register, AllDelivered, Local, db
<1>3. CASE PlanStage(c)
  <2>1. CASE ClosePlanning(c)
    BY <1>b, <2>1, KeyKinds, AppendPathless DEF ClosePlanning, Record
  <2> QED BY <1>3, <1>a, <2>1
          DEF PlanStage, Analyse, Scan, Enumerate, PlanRecovery, AttachPlan, Local, db
<1>4. CASE Schedule(c)
  BY <1>4, <1>a
     DEF Schedule, BeginSimulation, NextPayment, LeavePayment, PassOver, TakeUp, Local, db
<1>5. CASE Attempt(c)
  <2>1. CASE Refuse(c)
    BY <1>b, <2>1, KeyKinds, AppendPathless DEF Refuse, Record
  <2>2. CASE CloseRefused(c)
    BY <1>b, <2>2, KeyKinds, AppendPathless DEF CloseRefused, Record
  <2>3. CASE Suppress(c)
    BY <1>b, <2>3, KeyKinds, AppendPathless DEF Suppress, Record
  <2>4. CASE CloseDispatch(c)
    BY <1>b, <2>4, KeyKinds, AppendPathless DEF CloseDispatch, Record
  <2>5. CASE FindReserved(c)
    BY <1>a, <2>5 DEF FindReserved, Local, db
  <2>6. ASSUME NEW key, NEW data, key[1] \in Marks, AppendStep(key, data) PROVE PathsStay
    BY <1>b, <2>6, AppendPathless DEF Marks
  <2>7. CASE RecordOutcome(c)
    <3> DEFINE key == <<"outcome", me[c].payment, me[c].ordinal>>
    <3>1. steps' = steps \/ \E data : AppendStep(key, data)
      BY <2>7, OutcomeEffect
    <3>2. key[1] \in Marks
      BY DEF Marks
    <3> HIDE DEF key
    <3> QED BY <1>a, <2>6, <3>1, <3>2
  <2>8. CASE Reconcile(c)
    <3> DEFINE key == <<"reconcile", me[c].payment, me[c].ordinal>>
    <3>1. steps' = steps \/ \E data : AppendStep(key, data)
      BY <2>8, ReconcileEffect
    <3>2. key[1] \in Marks
      BY DEF Marks
    <3> HIDE DEF key
    <3> QED BY <1>a, <2>6, <3>1, <3>2
  <2>9. CASE Reserve(c)
    <3>1. ASSUME NEW key, key[1] \in PathKinds PROVE Same(key)
      <4>1. key # AttemptKey("eligibility", c) /\ key # AttemptKey("reserved", c)
        BY <1>b, <3>1, KeyKinds
      <4>2. steps' = WithReservation(c)
        BY <2>9 DEF Reserve
      <4> QED BY <4>1, <4>2 DEF WithReservation, Same
    <3> QED BY <3>1 DEF PathsStay
  <2> QED BY <1>5, <2>1, <2>2, <2>3, <2>4, <2>5, <2>7, <2>8, <2>9 DEF Attempt
<1>6. CASE Complete(c)
  BY <1>6, <1>a DEF Complete, CountSteps, CountPayment, Finish, Local, db
<1>7. CASE Acquire(c) \/ Conflict(c) \/ Fail(c) \/ LoseLock(c)
  BY <1>7, <1>a DEF Acquire, Conflict, Fail, LoseLock, db
<1> QED BY <1>1, <1>2, <1>3, <1>4, <1>5, <1>6, <1>7 DEF Step, Proceed

LEMMA ScannedStep ==
  ASSUME NEW c \in Coordinators, Step(c)
  PROVE  scanned' = scanned \/ Scan(c)
<1>1. CASE Prepare(c)
  BY <1>1 DEF Prepare, Start, ReturnReport, Resume, db
<1>2. CASE DeliverStage(c)
  BY <1>2 DEF DeliverStage, Deliver, Register, RecordDelivery, AllDelivered, Local, Record, db
<1>3. CASE PlanStage(c)
  BY <1>3 DEF PlanStage, Analyse, RecordEvaluation, CloseAnalysis, Enumerate,
     PlanRecovery, AttachPlan, ClosePlanning, Local, Record, db
<1>4. CASE Schedule(c)
  BY <1>4 DEF Schedule, BeginSimulation, NextPayment, LeavePayment, PassOver, TakeUp,
     CloseStage, Local, db
<1>5. CASE Attempt(c)
  <2>1. CASE Reserve(c)
    BY <2>1 DEF Reserve
  <2>2. CASE RecordOutcome(c)
    BY <2>2, Zenon DEF RecordOutcome
  <2>3. CASE Reconcile(c)
    BY <2>3, Zenon DEF Reconcile
  <2>4. CASE FindReserved(c) \/ Refuse(c) \/ CloseRefused(c) \/ Suppress(c) \/ CloseDispatch(c)
    BY <2>4 DEF FindReserved, Refuse, CloseRefused, Suppress, CloseDispatch, Local, Record, db
  <2> QED BY <1>5, <2>1, <2>2, <2>3, <2>4 DEF Attempt
<1>6. CASE Complete(c)
  BY <1>6 DEF Complete, CountSteps, CountPayment, Finish, Local, db
<1>7. CASE Acquire(c) \/ Conflict(c) \/ Fail(c) \/ LoseLock(c)
  BY <1>7 DEF Acquire, Conflict, Fail, LoseLock, db
<1> QED BY <1>1, <1>2, <1>3, <1>4, <1>5, <1>6, <1>7 DEF Step, Proceed

\* Recorded steps, events and scans only grow.
LEMMA StepsGrow ==
  ASSUME Inv, NEW c \in Coordinators, Step(c)
  PROVE  /\ DOMAIN steps \subseteq DOMAIN steps' /\ events \subseteq events'
         /\ DOMAIN scanned \subseteq DOMAIN scanned'
<1>1. events \subseteq events'
  BY StoresStep DEF StoresStay, Deliver
<1>2. DOMAIN scanned \subseteq DOMAIN scanned'
  BY ScannedStep DEF Scan
<1>a. steps' = steps => DOMAIN steps \subseteq DOMAIN steps'
  OBVIOUS
<1>b. ASSUME NEW key, NEW data, AppendStep(key, data) PROVE DOMAIN steps \subseteq DOMAIN steps'
  BY <1>b DEF AppendStep
<1>3. DOMAIN steps \subseteq DOMAIN steps'
  <2>1. CASE Prepare(c)
    BY <2>1, <1>a DEF Prepare, Start, ReturnReport, Resume, db
  <2>2. CASE DeliverStage(c)
    BY <2>2, <1>a, <1>b DEF DeliverStage, Deliver, Register, RecordDelivery, AllDelivered, Local, Record, db
  <2>3. CASE PlanStage(c)
    BY <2>3, <1>a, <1>b DEF PlanStage, Analyse, RecordEvaluation, CloseAnalysis, Scan, Enumerate,
       PlanRecovery, AttachPlan, ClosePlanning, Local, Record, db
  <2>4. CASE Schedule(c)
    BY <2>4, <1>a, <1>b DEF Schedule, BeginSimulation, NextPayment, LeavePayment, PassOver, TakeUp,
       CloseStage, Local, db
  <2>5. CASE Attempt(c)
    <3>1. CASE Reserve(c)
      BY <3>1 DEF Reserve, WithReservation
    <3>2. CASE RecordOutcome(c)
      BY <3>2, <1>a, <1>b, OutcomeEffect
    <3>3. CASE Reconcile(c)
      BY <3>3, <1>a, <1>b, ReconcileEffect
    <3>4. CASE FindReserved(c) \/ Refuse(c) \/ CloseRefused(c) \/ Suppress(c) \/ CloseDispatch(c)
      BY <3>4, <1>a, <1>b DEF FindReserved, Refuse, CloseRefused, Suppress, CloseDispatch, Local, Record, db
    <3> QED BY <2>5, <3>1, <3>2, <3>3, <3>4 DEF Attempt
  <2>6. CASE Complete(c)
    BY <2>6, <1>a DEF Complete, CountSteps, CountPayment, Finish, Local, db
  <2>7. CASE Acquire(c) \/ Conflict(c) \/ Fail(c) \/ LoseLock(c)
    BY <2>7, <1>a DEF Acquire, Conflict, Fail, LoseLock, db
  <2> QED BY <2>1, <2>2, <2>3, <2>4, <2>5, <2>6, <2>7 DEF Step, Proceed
<1> QED BY <1>1, <1>2, <1>3

\* Where a stage is past its scan.
Later == Scanned \cup {"dispatching"} \cup Inside

Onward(c) ==
  /\ pc[c] \in Later /\ pc'[c] \in Later
  /\ pc'[c] \in Scanned => pc[c] \in Scanned
  /\ me'[c].stage = me[c].stage /\ me'[c].done = me[c].done

Leaves(c) == pc'[c] \in Outside /\ me'[c].done \in {{}, me[c].done}

Staging(c) ==
  \/ Resume(c) \/ CloseStage(c) \/ DeliverStage(c)
  \/ Analyse(c) \/ RecordEvaluation(c) \/ CloseAnalysis(c) \/ Scan(c)

LEMMA EndLeaves ==
  ASSUME Inv, NEW c \in Coordinators, NEW kind, NEW report, End(c, kind, report)
  PROVE  Leaves(c)
<1>1. pc'[c] = "idle" /\ me'[c] = NewMe
  BY DEF End, Goto, Inv, Shaped
<1> QED BY <1>1 DEF Leaves, Outside, NewMe

LEMMA StaysOnward ==
  ASSUME Inv, NEW c \in Coordinators, NEW to, Goto(c, to), me' = me,
         pc[c] \in Later, to \in Later, to \in Scanned => pc[c] \in Scanned
  PROVE  Onward(c)
BY DEF Onward, Goto, Inv, Shaped

LEMMA MovesOn ==
  ASSUME Inv, NEW c \in Coordinators, Step(c)
  PROVE  Onward(c) \/ Leaves(c) \/ LoseLock(c) \/ Staging(c)
<1>1. Shaped /\ DOMAIN me[c] = MeFields
  BY DEF Inv, Placed
<1>2. /\ Later = {"enumerating", "planning", "attaching", "planned", "dispatching", "considering",
                  "reserving", "refused", "modelling", "observed", "suppressed", "reconciled"}
      /\ Scanned = {"enumerating", "planning", "attaching", "planned"}
  BY DEF Later, Scanned, Inside
<1>3. CASE Acquire(c)
  BY <1>1, <1>3, Comes DEF Acquire, Goto, Leaves, Outside
<1>4. CASE Fail(c) \/ Conflict(c)
  BY <1>4, EndLeaves DEF Fail, Conflict
<1>5. CASE Prepare(c)
  <2>1. CASE Start(c)
    BY <1>1, <2>1, Comes DEF Start, Goto, Leaves, Outside
  <2>2. CASE ReturnReport(c)
    BY <2>2, EndLeaves DEF ReturnReport, Return
  <2> QED BY <1>5, <2>1, <2>2 DEF Prepare, Staging
<1>6. CASE PlanStage(c)
  <2>1. CASE Enumerate(c)
    <3>1. /\ pc[c] = "enumerating" /\ pc'[c] = "planning"
          /\ me' = [me EXCEPT ![c].left = Candidates(me[c].stage)]
      BY <1>1, <2>1, Comes DEF Enumerate, Local, Goto
    <3>2. me'[c].stage = me[c].stage /\ me'[c].done = me[c].done
      BY <1>1, <3>1 DEF MeFields, Shaped
    <3> QED BY <1>2, <3>1, <3>2 DEF Onward
  <2>2. CASE PlanRecovery(c)
    <3>1. PICK p : me' = [me EXCEPT ![c].payment = p, ![c].left = @ \ {p}]
      BY <2>2 DEF PlanRecovery
    <3>2. pc[c] = "planning" /\ pc'[c] = "attaching"
      BY <1>1, <2>2, Comes DEF PlanRecovery, Goto
    <3>3. me'[c].stage = me[c].stage /\ me'[c].done = me[c].done
      BY <1>1, <3>1 DEF MeFields, Shaped
    <3> QED BY <1>2, <3>2, <3>3 DEF Onward
  <2>3. CASE AttachPlan(c)
    BY <1>2, <2>3, StaysOnward DEF AttachPlan
  <2>4. CASE ClosePlanning(c)
    BY <1>2, <2>4, StaysOnward DEF ClosePlanning, Record
  <2> QED BY <1>6, <2>1, <2>2, <2>3, <2>4 DEF PlanStage, Staging
<1>7. CASE Schedule(c)
  <2>1. CASE BeginSimulation(c)
    <3>1. PICK known, left : me' = [me EXCEPT ![c].known = known, ![c].left = left]
      BY <2>1 DEF BeginSimulation
    <3>2. pc[c] = "planned" /\ pc'[c] = "dispatching"
      BY <1>1, <2>1, Comes DEF BeginSimulation, Local, Goto
    <3>3. me'[c].stage = me[c].stage /\ me'[c].done = me[c].done
      BY <1>1, <3>1 DEF MeFields, Shaped
    <3> QED BY <1>2, <3>2, <3>3 DEF Onward
  <2>2. CASE NextPayment(c)
    <3>1. PICK p : me' = [me EXCEPT ![c].payment = p, ![c].ordinal = 1, ![c].left = @ \ {p}]
      BY <2>2, Zenon DEF NextPayment
    <3>2. pc[c] = "dispatching" /\ pc'[c] = "considering"
      BY <1>1, <2>2, Comes DEF NextPayment, Local, Goto
    <3>3. me'[c].stage = me[c].stage /\ me'[c].done = me[c].done
      BY <1>1, <3>1 DEF MeFields, Shaped
    <3> QED BY <1>2, <3>2, <3>3 DEF Onward
  <2>3. CASE LeavePayment(c)
    BY <1>2, <2>3, StaysOnward DEF LeavePayment, Local
  <2>4. CASE PassOver(c)
    <3>1. me' = [me EXCEPT ![c].ordinal = @ + 1] /\ pc' = pc /\ pc[c] = "considering"
      BY <2>4 DEF PassOver
    <3>3. me'[c].stage = me[c].stage /\ me'[c].done = me[c].done
      BY <1>1, <3>1 DEF MeFields, Shaped
    <3> QED BY <1>2, <3>1, <3>3 DEF Onward
  <2>5. CASE TakeUp(c)
    <3>1. PICK due : me' = [me EXCEPT ![c].due = due]
      BY <2>5 DEF TakeUp
    <3>2. pc[c] = "considering" /\ pc'[c] = "reserving"
      BY <1>1, <2>5, Comes DEF TakeUp, Local, Goto
    <3>3. me'[c].stage = me[c].stage /\ me'[c].done = me[c].done
      BY <1>1, <3>1 DEF MeFields, Shaped
    <3> QED BY <1>2, <3>2, <3>3 DEF Onward
  <2> QED BY <1>7, <2>1, <2>2, <2>3, <2>4, <2>5 DEF Schedule, Staging
<1>8. CASE Attempt(c)
  <2>1. CASE FindReserved(c)
    BY <1>2, <2>1, StaysOnward DEF FindReserved, Local
  <2>2. CASE Reserve(c)
    BY <1>2, <2>2, StaysOnward DEF Reserve
  <2>3. CASE Refuse(c)
    BY <1>2, <2>3, StaysOnward DEF Refuse, Record
  <2>4. CASE CloseRefused(c)
    BY <1>2, <2>4, StaysOnward DEF CloseRefused, Record
  <2>5. CASE RecordOutcome(c)
    <3>1. pc[c] = "modelling" /\ Goto(c, "observed") /\ me' = me
      BY <2>5, Zenon DEF RecordOutcome
    <3> QED BY <1>2, <3>1, StaysOnward
  <2>6. CASE Suppress(c)
    BY <1>2, <2>6, StaysOnward DEF Suppress, Record
  <2>7. CASE Reconcile(c)
    <3>1. pc[c] = "suppressed" /\ Goto(c, "reconciled") /\ me' = me
      BY <2>7, Zenon DEF Reconcile
    <3> QED BY <1>2, <3>1, StaysOnward
  <2>8. CASE CloseDispatch(c)
    <3>1. me' = [me EXCEPT ![c].ordinal = @ + 1]
      BY <2>8 DEF CloseDispatch
    <3>2. pc[c] = "reconciled" /\ pc'[c] = "considering"
      BY <1>1, <2>8, Comes DEF CloseDispatch, Record, Goto
    <3>3. me'[c].stage = me[c].stage /\ me'[c].done = me[c].done
      BY <1>1, <3>1 DEF MeFields, Shaped
    <3> QED BY <1>2, <3>2, <3>3 DEF Onward
  <2> QED BY <1>8, <2>1, <2>2, <2>3, <2>4, <2>5, <2>6, <2>7, <2>8 DEF Attempt
<1>9. CASE Complete(c)
  <2>1. CASE CountSteps(c)
    <3>1. \E report, left : me' = [me EXCEPT ![c].report = report, ![c].left = left]
      BY <2>1, Zenon DEF CountSteps
    <3>2. PICK report, left : me' = [me EXCEPT ![c].report = report, ![c].left = left]
      BY <3>1
    <3>3. pc'[c] = "accounting"
      BY <1>1, <2>1, Comes DEF CountSteps, Local, Goto
    <3>4. me'[c].done = me[c].done
      BY <1>1, <3>2 DEF MeFields, Shaped
    <3> QED BY <3>3, <3>4 DEF Leaves, Outside
  <2>2. CASE CountPayment(c)
    <3>1. \E p, account : me' = [me EXCEPT ![c].report.accounts = @ \cup {account},
                                           ![c].left = @ \ {p}]
      BY <2>2, Zenon DEF CountPayment
    <3>2. PICK p, account : me' = [me EXCEPT ![c].report.accounts = @ \cup {account},
                                           ![c].left = @ \ {p}]
      BY <3>1
    <3>3. pc'[c] = "accounting"
      BY <2>2 DEF CountPayment
    <3>4. me'[c].done = me[c].done
      BY <1>1, <3>2 DEF MeFields, Shaped
    <3> QED BY <3>3, <3>4 DEF Leaves, Outside
  <2>3. CASE Finish(c)
    BY <2>3, EndLeaves DEF Finish, Return
  <2> QED BY <1>9, <2>1, <2>2, <2>3 DEF Complete
<1>10. DeliverStage(c) => Staging(c)
  BY DEF Staging
<1> QED BY <1>3, <1>4, <1>5, <1>6, <1>7, <1>8, <1>9, <1>10 DEF Step, Proceed

-----------------------------------------------------------------------------
(* What the stores say goes on being true                                  *)

LEMMA PathsGrow ==
  ASSUME NEW D, NEW S, NEW E, NEW N, NEW S1, NEW E1, NEW N1,
         Paths(S, E, N, D), S \subseteq S1, E \subseteq E1, N \subseteq N1,
         \A u \in Stages : Checkpoint("stage", u) \in S1 \ S =>
           By(D, u) \subseteq E1 /\ (u # -1 => u \in N1 /\ Checkpoint("evaluation", u) \in S1),
         \A e \in E1 \ E : \E t \in Stages :
           e \in {d.event : d \in D[t]} /\ \A u \in Stages : u < t => Checkpoint("stage", u) \in S1,
         \A t \in Stages : \A d \in D[t] : d.key \in S1 \ S => d.event \in E1,
         \A u \in Stages : Checkpoint("analysis", u) \in S1 \ S => Checkpoint("evaluation", u) \in S1
  PROVE  Paths(S1, E1, N1, D)
<1>1. \A u \in Stages : Checkpoint("stage", u) \in S1 =>
        By(D, u) \subseteq E1 /\ (u # -1 => u \in N1 /\ Checkpoint("evaluation", u) \in S1)
  BY DEF Paths
<1>2. ASSUME NEW e \in E1
      PROVE  \E t \in Stages :
               e \in {d.event : d \in D[t]} /\ \A u \in Stages : u < t => Checkpoint("stage", u) \in S1
  <2>1. CASE e \in E
    <3>1. PICK t \in Stages :
            e \in {d.event : d \in D[t]} /\ \A u \in Stages : u < t => Checkpoint("stage", u) \in S
      BY <2>1 DEF Paths
    <3> QED BY <3>1
  <2>2. CASE e \notin E
    BY <1>2, <2>2
  <2> QED BY <2>1, <2>2
<1>3. \A t \in Stages : \A d \in D[t] : d.key \in S1 => d.event \in E1
  BY DEF Paths
<1>4. \A u \in Stages : Checkpoint("analysis", u) \in S1 => Checkpoint("evaluation", u) \in S1
  BY DEF Paths
<1> QED BY <1>1, <1>2, <1>3, <1>4 DEF Paths

\* Where the kind of a key is no stage's, no analysis' and no delivery's, it
\* says nothing of the stages.
LEMMA StageKeys ==
  /\ \A u \in Stages : /\ Checkpoint("stage", u)[1] = "stage"
                       /\ Checkpoint("analysis", u)[1] = "analysis"
                       /\ Checkpoint("evaluation", u)[1] = "evaluation"
  /\ \A t \in Stages : \A d \in All[t] : d.key[1] \in DeliveryKinds
  /\ \A u, v : /\ Checkpoint("stage", u) = Checkpoint("stage", v) => u = v
               /\ Checkpoint("analysis", u) = Checkpoint("analysis", v) => u = v
               /\ Checkpoint("evaluation", u) = Checkpoint("evaluation", v) => u = v
<1>1. \A t \in Stages : \A d \in All[t] : d.key[1] \in DeliveryKinds
  BY DeliveryFields DEF All
<1> QED BY <1>1 DEF Checkpoint

LEMMA ExactGrow ==
  ASSUME NEW D, NEW st, NEW sc, NEW st1, NEW sc1, Exact(st, sc, D),
         \A s \in DOMAIN sc1 : sc1[s] = By(D, s) \/ (s \in DOMAIN sc /\ sc1[s] = sc[s]),
         \A s \in Stages : LET key == Checkpoint("evaluation", s) IN key \in DOMAIN st1 =>
           st1[key] = By(D, s) \/ (key \in DOMAIN st /\ st1[key] = st[key])
  PROVE  Exact(st1, sc1, D)
BY DEF Exact

LEMMA StoredStep ==
  ASSUME Inv, FrozenInv, NEW c \in Coordinators, Step(c)
  PROVE  /\ Paths(DOMAIN steps', events', DOMAIN scanned', All)
         /\ Exact(steps', scanned', All)
<1> DEFINE S == DOMAIN steps
           S1 == DOMAIN steps'
           N == DOMAIN scanned
           N1 == DOMAIN scanned'
           s == me[c].stage
           Goal == Paths(S1, events', N1, All) /\ Exact(steps', scanned', All)
<1>1. /\ Paths(S, events, N, All) /\ Exact(steps, scanned, All)
      /\ Fares(pc[c], me[c], S, events, N, All)
  BY DEF FrozenInv
<1>2. S \subseteq S1 /\ events \subseteq events' /\ N \subseteq N1
  BY StepsGrow
<1>3. /\ \A u \in Stages : /\ Checkpoint("stage", u)[1] = "stage"
                           /\ Checkpoint("analysis", u)[1] = "analysis"
                           /\ Checkpoint("evaluation", u)[1] = "evaluation"
      /\ \A t \in Stages : \A d \in All[t] : d.key[1] \in DeliveryKinds
  BY StageKeys
<1>b. PathKinds = {"stage", "evaluation", "analysis", "event", "duplicate", "history", "late"}
      /\ DeliveryKinds = {"event", "duplicate", "history", "late"}
  BY DEF PathKinds, DeliveryKinds
<1>4. CASE PathsStay /\ events' = events /\ scanned' = scanned
  <2>1. /\ \A u \in Stages : /\ Checkpoint("stage", u) \notin S1 \ S
                             /\ Checkpoint("analysis", u) \notin S1 \ S
                             /\ Same(Checkpoint("evaluation", u))
        /\ \A t \in Stages : \A d \in All[t] : d.key \notin S1 \ S
    BY <1>3, <1>4, <1>b DEF PathsStay, Same
  <2>2. Paths(S1, events', N1, All)
    BY <1>1, <1>2, <1>4, <2>1, PathsGrow
  <2>3. Exact(steps', scanned', All)
    BY <1>1, <1>4, <2>1, ExactGrow DEF Same
  <2> QED BY <2>2, <2>3
<1>5. CASE Deliver(c)
  <2>1. PICK d \in Undelivered(c) : events' = events \cup {d.event}
    BY <1>5 DEF Deliver
  <2>2. pc[c] = "delivering" /\ steps' = steps /\ scanned' = scanned
    BY <1>5 DEF Deliver
  <2>3. s \in Stages /\ (\A u \in Stages : u < s => Checkpoint("stage", u) \in S)
    BY <1>1, <2>2 DEF Fares, Outside
  <2>4. d \in All[s]
    BY <2>3 DEF Undelivered, All
  <2>5. \A e \in events' \ events : \E t \in Stages :
           e \in {f.event : f \in All[t]} /\ \A u \in Stages : u < t => Checkpoint("stage", u) \in S1
    BY <2>1, <2>2, <2>3, <2>4
  <2>6. Paths(S1, events', N1, All)
    BY <1>1, <1>2, <2>2, <2>5, PathsGrow
  <2> QED BY <1>1, <2>2, <2>6
<1>6. CASE RecordDelivery(c)
  <2> DEFINE d == me[c].delivery
  <2>1. /\ pc[c] = "recording" /\ AppendStep(d.key, "delivered")
        /\ events' = events /\ scanned' = scanned
    BY <1>6 DEF RecordDelivery, Record
  <2>2. s \in Stages /\ d \in All[s] /\ d.event \in events
    BY <1>1, <2>1 DEF Fares, Outside
  <2>3. d.key[1] \in DeliveryKinds
    BY <1>3, <2>2
  <2>4. \A k : k # d.key => Same(k)
    BY <2>1, AppendKeeps
  <2>5. \A u \in Stages : /\ Same(Checkpoint("stage", u)) /\ Same(Checkpoint("analysis", u))
                          /\ Same(Checkpoint("evaluation", u))
    BY <1>3, <1>b, <2>3, <2>4
  <2>6. \A t \in Stages : \A f \in All[t] : f.key \in S1 \ S => f.event \in events'
    BY <2>1, <2>2, <2>4, KeyTellsEvent DEF Same
  <2>7. Paths(S1, events', N1, All)
    BY <1>1, <1>2, <2>1, <2>5, <2>6, PathsGrow DEF Same
  <2>8. Exact(steps', scanned', All)
    BY <1>1, <2>1, <2>5, ExactGrow DEF Same
  <2> QED BY <2>7, <2>8
<1>7. CASE RecordEvaluation(c)
  <2> DEFINE key == Checkpoint("evaluation", s)
  <2>1. /\ pc[c] = "evaluating" /\ events' = events /\ scanned' = scanned
        /\ IF key \in S THEN steps' = steps ELSE AppendStep(key, me[c].evidence)
    BY <1>7 DEF RecordEvaluation, Evaluation
  <2>2. CASE key \in S
    BY <1>1, <2>1, <2>2
  <2>3. CASE key \notin S
    <3>1. s \in Stages /\ me[c].evidence = By(All, s)
      BY <1>1, <2>1, <2>3 DEF Fares, Outside
    <3>2. /\ \A k : k # key => Same(k)
          /\ steps'[key] = me[c].evidence
      BY <2>1, <2>3, AppendKeeps
    <3>3. key[1] = "evaluation"
      BY KeyKinds
    <3>4. /\ \A u \in Stages : Same(Checkpoint("stage", u)) /\ Same(Checkpoint("analysis", u))
          /\ \A t \in Stages : \A f \in All[t] : Same(f.key)
      BY <1>3, <1>b, <3>2, <3>3
    <3>5. Paths(S1, events', N1, All)
      BY <1>1, <1>2, <2>1, <3>4, PathsGrow DEF Same
    <3>6. \A u \in Stages : Checkpoint("evaluation", u) = key => u = s
      BY StageKeys
    <3>7. \A u \in Stages : LET k == Checkpoint("evaluation", u) IN k \in S1 =>
            steps'[k] = By(All, u) \/ (k \in S /\ steps'[k] = steps[k])
      BY <3>1, <3>2, <3>6 DEF Same
    <3>8. Exact(steps', scanned', All)
      BY <1>1, <2>1, <3>7, ExactGrow
    <3> QED BY <3>5, <3>8
  <2> QED BY <2>2, <2>3
<1>8. CASE CloseAnalysis(c)
  <2> DEFINE key == Checkpoint("analysis", s)
  <2>1. /\ pc[c] = "analysed" /\ AppendStep(key, "checkpoint")
        /\ events' = events /\ scanned' = scanned
    BY <1>8 DEF CloseAnalysis, Record
  <2>2. s \in Stages /\ Checkpoint("evaluation", s) \in S
    BY <1>1, <2>1 DEF Fares, Outside, Receiving, Analysing, Looking
  <2>3. \A k : k # key => Same(k)
    BY <2>1, AppendKeeps
  <2>4. key[1] = "analysis"
    BY KeyKinds
  <2>5. /\ \A u \in Stages : Same(Checkpoint("stage", u)) /\ Same(Checkpoint("evaluation", u))
        /\ \A t \in Stages : \A f \in All[t] : Same(f.key)
    BY <1>3, <1>b, <2>3, <2>4
  <2>6. \A u \in Stages : Checkpoint("analysis", u) = key => u = s
    BY StageKeys
  <2>7. \A u \in Stages : Checkpoint("analysis", u) \in S1 \ S => Checkpoint("evaluation", u) \in S1
    BY <1>2, <2>2, <2>3, <2>6 DEF Same
  <2>8. Paths(S1, events', N1, All)
    BY <1>1, <1>2, <2>1, <2>5, <2>7, PathsGrow DEF Same
  <2>9. Exact(steps', scanned', All)
    BY <1>1, <2>1, <2>5, ExactGrow DEF Same
  <2> QED BY <2>8, <2>9
<1>9. CASE Scan(c)
  <2>1. /\ pc[c] = "scanning" /\ steps' = steps /\ events' = events
        /\ scanned' = [t \in DOMAIN scanned \cup {s} |-> IF t \in DOMAIN scanned THEN scanned[t] ELSE events]
    BY <1>9 DEF Scan
  <2>2. s \in Stages /\ s # -1 /\ By(All, s) \subseteq events
    BY <1>1, <2>1 DEF Fares, Outside, Receiving, Analysing, Looking
  <2>3. s \notin N => events = By(All, s)
    BY <1>1, <2>2, NothingLater
  <2>4. Paths(S1, events', N1, All)
    BY <1>1, <1>2, <2>1, PathsGrow
  <2>5. \A t \in DOMAIN scanned' :
          scanned'[t] = By(All, t) \/ (t \in DOMAIN scanned /\ scanned'[t] = scanned[t])
    BY <2>1, <2>3
  <2>6. Exact(steps', scanned', All)
    BY <1>1, <2>1, <2>5, ExactGrow
  <2> QED BY <2>4, <2>6
<1>10. CASE CloseStage(c)
  <2> DEFINE key == Checkpoint("stage", s)
  <2>1. /\ pc[c] = "dispatching" /\ AppendStep(key, "checkpoint")
        /\ events' = events /\ scanned' = scanned
    BY <1>10 DEF CloseStage
  <2>2. /\ s \in Stages /\ By(All, s) \subseteq events
        /\ s # -1 => s \in N /\ Checkpoint("evaluation", s) \in S
    BY <1>1, <2>1 DEF Fares, Outside, Receiving, Analysing, Looking
  <2>3. \A k : k # key => Same(k)
    BY <2>1, AppendKeeps
  <2>4. key[1] = "stage"
    BY KeyKinds
  <2>5. /\ \A u \in Stages : Same(Checkpoint("analysis", u)) /\ Same(Checkpoint("evaluation", u))
        /\ \A t \in Stages : \A f \in All[t] : Same(f.key)
    BY <1>3, <1>b, <2>3, <2>4
  <2>6. \A u \in Stages : Checkpoint("stage", u) = key => u = s
    BY StageKeys
  <2>7. \A u \in Stages : Checkpoint("stage", u) \in S1 \ S =>
          By(All, u) \subseteq events' /\ (u # -1 => u \in N1 /\ Checkpoint("evaluation", u) \in S1)
    BY <1>2, <2>1, <2>2, <2>3, <2>6 DEF Same
  <2>8. Paths(S1, events', N1, All)
    BY <1>1, <1>2, <2>1, <2>5, <2>7, PathsGrow DEF Same
  <2>9. Exact(steps', scanned', All)
    BY <1>1, <2>1, <2>5, ExactGrow DEF Same
  <2> QED BY <2>8, <2>9
<1>11. events' = events \/ Deliver(c)
  BY StoresStep DEF StoresStay
<1>12. scanned' = scanned \/ Scan(c)
  BY ScannedStep
<1>13. PathsStay \/ RecordDelivery(c) \/ RecordEvaluation(c) \/ CloseAnalysis(c) \/ CloseStage(c)
  BY PathsStep
<1> QED BY <1>4, <1>5, <1>6, <1>7, <1>8, <1>9, <1>10, <1>11, <1>12, <1>13

-----------------------------------------------------------------------------
(* Where the coordinators are in the stages                                *)

\* The places as a list, for what is known of each.
LEMMA Places ==
  /\ Outside = {"idle", "starting", "resuming", "reporting", "accounting"}
  /\ Receiving = {"delivering", "registering", "recording"}
  /\ Analysing = {"analysing", "evaluating"}
  /\ Looking = {"analysing", "evaluating", "analysed", "scanning"}
  /\ Scanned = {"enumerating", "planning", "attaching", "planned"}
  /\ Later = {"enumerating", "planning", "attaching", "planned", "dispatching", "considering",
              "reserving", "refused", "modelling", "observed", "suppressed", "reconciled"}
BY DEF Outside, Receiving, Analysing, Looking, Scanned, Later, Inside

LEMMA OnwardFares ==
  ASSUME NEW at, NEW m, NEW at1, NEW m1, NEW S, NEW E, NEW N, NEW D, Fares(at, m, S, E, N, D),
         at \in Later, at1 \in Later, at1 \in Scanned => at \in Scanned,
         m1.stage = m.stage, m1.done = m.done
  PROVE  Fares(at1, m1, S, E, N, D)
<1>1. /\ at \notin Outside \cup Receiving \cup Looking /\ at1 \notin Outside \cup Receiving \cup Looking
      /\ at # "evaluating" /\ at1 # "evaluating"
  BY Places
<1>2. Analysing \subseteq Looking
  BY DEF Looking
<1> QED BY <1>1, <1>2, Places DEF Fares

\* What a coordinator that enters the next open stage has behind it.
LEMMA EnteringFares ==
  ASSUME Inv, NEW c \in Coordinators, NEW s \in Stages \cup {4}, NEW done,
         NEW S, NEW E, NEW N, EnterStage(c, s, done),
         done \subseteq S, \A u \in Stages : u < s => Checkpoint("stage", u) \in S
  PROVE  Fares(pc'[c], me'[c], S, E, N, All)
<1> DEFINE open == {t \in Stages : t >= s /\ Checkpoint("stage", t) \notin done}
           stage == IF open = {} THEN 4 ELSE Least(open)
           to == IF open = {} THEN "reporting" ELSE "delivering"
<1>1. Shaped
  BY DEF Inv
<1>2. /\ me' = [me EXCEPT ![c] = [NewMe EXCEPT !.done = done, !.stage = stage]]
      /\ pc' = [pc EXCEPT ![c] = to]
  BY DEF EnterStage, Goto
<1>3. to = "delivering" =>
        stage \in Stages /\ \A u \in Stages : u < stage => Checkpoint("stage", u) \in S
  <2> SUFFICES ASSUME open # {}
               PROVE  stage \in Stages /\ \A u \in Stages : u < stage => Checkpoint("stage", u) \in S
    OBVIOUS
  <2>1. open \in SUBSET Stages
    OBVIOUS
  <2>2. Least(open) \in open /\ \A t \in open : Least(open) <= t
    BY <2>1, LeastStage
  <2>3. stage = Least(open)
    OBVIOUS
  <2>4. ASSUME NEW u \in Stages, u < stage PROVE Checkpoint("stage", u) \in S
    <3>1. u \notin open
      <4> HIDE DEF open
      <4>1. stage \in Stages
        BY <2>1, <2>2, <2>3
      <4>2. u \in open => stage <= u
        BY <2>2, <2>3
      <4> HIDE DEF stage
      <4> QED BY <2>4, <4>1, <4>2 DEF Stages
    <3>2. CASE u < s
      BY <3>2
    <3>3. CASE ~(u < s)
      <4>1. u >= s
        BY <3>3 DEF Stages
      <4> QED BY <3>1, <4>1
    <3> QED BY <3>2, <3>3
  <2>5. stage \in Stages
    BY <2>2, <2>3
  <2> QED BY <2>4, <2>5
<1>4. to \in {"reporting", "delivering"}
  OBVIOUS
<1> HIDE DEF stage, to
<1>5. me'[c] = [NewMe EXCEPT !.done = done, !.stage = stage] /\ pc'[c] = to
  BY <1>1, <1>2, Comes
<1>6. me'[c].done = done /\ me'[c].stage = stage
  BY <1>5 DEF NewMe
<1> QED BY <1>3, <1>4, <1>5, <1>6, Places DEF Fares

LEMMA DeliveringFares ==
  ASSUME Inv, FrozenInv, NEW c \in Coordinators, Step(c), DeliverStage(c)
  PROVE  Fares(pc'[c], me'[c], DOMAIN steps', events', DOMAIN scanned', All)
<1> DEFINE S == DOMAIN steps
           S1 == DOMAIN steps'
           N1 == DOMAIN scanned'
           s == me[c].stage
<1>1. /\ Shaped /\ DOMAIN me[c] = MeFields
      /\ Paths(S, events, DOMAIN scanned, All)
      /\ Fares(pc[c], me[c], S, events, DOMAIN scanned, All)
  BY DEF Inv, Placed, FrozenInv
<1>2. S \subseteq S1 /\ events \subseteq events'
  BY StepsGrow
<1>3. pc[c] \in Receiving
  BY Places DEF DeliverStage, Deliver, Register, RecordDelivery, AllDelivered
<1>4. /\ me[c].done \subseteq S /\ s \in Stages
      /\ \A u \in Stages : u < s => Checkpoint("stage", u) \in S
      /\ pc[c] \in {"registering", "recording"} =>
           me[c].delivery \in All[s] /\ me[c].delivery.event \in events
  BY <1>1, <1>3, Places DEF Fares
<1>5. CASE Deliver(c)
  <2>1. PICK d \in Undelivered(c) :
          /\ events' = events \cup {d.event} /\ me' = [me EXCEPT ![c].delivery = d]
          /\ Goto(c, IF Enrols(d) THEN "registering" ELSE "recording")
    BY <1>5 DEF Deliver
  <2>2. pc'[c] \in {"registering", "recording"}
    BY <1>1, <2>1, Comes DEF Goto
  <2>3. me'[c].stage = s /\ me'[c].done = me[c].done /\ me'[c].delivery = d
    BY <1>1, <2>1 DEF MeFields, Shaped
  <2>4. d \in All[s] /\ d.event \in events'
    BY <1>4, <2>1 DEF Undelivered, All
  <2> QED BY <1>2, <1>4, <2>2, <2>3, <2>4, Places DEF Fares
<1>6. CASE Register(c)
  <2>1. pc[c] = "registering" /\ pc'[c] = "recording" /\ me'[c] = me[c]
    BY <1>1, <1>6, Comes DEF Register, Goto
  <2> QED BY <1>2, <1>4, <2>1, Places DEF Fares
<1>7. CASE RecordDelivery(c)
  <2> DEFINE key == me[c].delivery.key
  <2>1. /\ me' = [me EXCEPT ![c].done = @ \cup {key}, ![c].delivery = None]
        /\ Goto(c, "delivering") /\ AppendStep(key, "delivered")
    BY <1>7 DEF RecordDelivery, Record
  <2>2. key \in S1
    BY <2>1, AppendKeeps
  <2> HIDE DEF key
  <2>3. me'[c].stage = s /\ me'[c].done = me[c].done \cup {key}
    BY <1>1, <2>1 DEF MeFields, Shaped
  <2>4. pc'[c] = "delivering"
    BY <1>1, <2>1, Comes DEF Goto
  <2> QED BY <1>2, <1>4, <2>2, <2>3, <2>4, Places DEF Fares
<1>8. CASE AllDelivered(c)
  <2>1. /\ Undelivered(c) = {} /\ me' = me
        /\ Goto(c, IF s = -1 THEN "dispatching"
                   ELSE IF Checkpoint("analysis", s) \in me[c].done THEN "scanning"
                   ELSE "analysing")
    BY <1>8 DEF AllDelivered, Local
  <2>2. \A d \in All[s] : d.key \in me[c].done
    BY <1>4, <2>1 DEF Undelivered, All
  <2>3. \A d \in All[s] : d.event \in events
    BY <1>1, <1>4, <2>2 DEF Paths
  <2>4. ASSUME NEW e \in By(All, s) PROVE e \in events
    <3>1. PICK t \in Stages : t <= s /\ e \in {d.event : d \in All[t]}
      BY <2>4 DEF By
    <3>2. CASE t = s
      BY <2>3, <3>1, <3>2
    <3>3. CASE t < s
      <4>1. Checkpoint("stage", t) \in S
        BY <1>4, <3>3
      <4>2. By(All, t) \subseteq events
        BY <1>1, <4>1 DEF Paths
      <4>3. t <= t
        BY DEF Stages
      <4>4. e \in By(All, t)
        BY <3>1, <4>3 DEF By
      <4> QED BY <4>2, <4>4
    <3> QED BY <1>4, <3>1, <3>2, <3>3 DEF Stages
  <2>5. Checkpoint("analysis", s) \in me[c].done => Checkpoint("evaluation", s) \in S
    BY <1>1, <1>4 DEF Paths
  <2>6. me'[c] = me[c] /\ By(All, s) \subseteq events'
    BY <1>2, <2>1, <2>4
  <2>7. CASE s = -1
    <3>1. pc'[c] = "dispatching"
      BY <1>1, <2>1, <2>7, Comes DEF Goto
    <3> QED BY <1>2, <1>4, <2>6, <2>7, <3>1, Places DEF Fares
  <2>8. CASE s # -1 /\ Checkpoint("analysis", s) \in me[c].done
    <3>1. pc'[c] = "scanning"
      BY <1>1, <2>1, <2>8, Comes DEF Goto
    <3> QED BY <1>2, <1>4, <2>5, <2>6, <2>8, <3>1, Places DEF Fares
  <2>9. CASE s # -1 /\ Checkpoint("analysis", s) \notin me[c].done
    <3>1. pc'[c] = "analysing"
      BY <1>1, <2>1, <2>9, Comes DEF Goto
    <3> QED BY <1>2, <1>4, <2>6, <2>9, <3>1, Places DEF Fares
  <2> QED BY <2>7, <2>8, <2>9
<1> QED BY <1>5, <1>6, <1>7, <1>8 DEF DeliverStage

LEMMA AnalysingFares ==
  ASSUME Inv, FrozenInv, NEW c \in Coordinators, Step(c),
         Analyse(c) \/ RecordEvaluation(c) \/ CloseAnalysis(c) \/ Scan(c)
  PROVE  Fares(pc'[c], me'[c], DOMAIN steps', events', DOMAIN scanned', All)
<1> DEFINE S == DOMAIN steps
           S1 == DOMAIN steps'
           N1 == DOMAIN scanned'
           s == me[c].stage
<1>1. /\ Shaped /\ DOMAIN me[c] = MeFields
      /\ Paths(S, events, DOMAIN scanned, All)
      /\ Fares(pc[c], me[c], S, events, DOMAIN scanned, All)
  BY DEF Inv, Placed, FrozenInv
<1>2. S \subseteq S1 /\ events \subseteq events'
  BY StepsGrow
<1>3. pc[c] \in Looking
  BY Places DEF Analyse, RecordEvaluation, CloseAnalysis, Scan
<1>4. /\ me[c].done \subseteq S1 /\ s \in Stages /\ s # -1
      /\ \A u \in Stages : u < s => Checkpoint("stage", u) \in S1
      /\ By(All, s) \subseteq events /\ By(All, s) \subseteq events'
      /\ pc[c] \in {"analysed", "scanning"} => Checkpoint("evaluation", s) \in S1
  BY <1>1, <1>2, <1>3, Places DEF Fares
<1>5. CASE Analyse(c)
  <2>1. /\ pc'[c] = "evaluating" /\ me' = [me EXCEPT ![c].evidence = events] /\ S1 = S
    BY <1>1, <1>5, Comes DEF Analyse, Local, Goto, db
  <2>2. me'[c].stage = s /\ me'[c].done = me[c].done /\ me'[c].evidence = events
    BY <1>1, <2>1 DEF MeFields, Shaped
  <2>3. events = By(All, s) \/ Checkpoint("evaluation", s) \in S1
    BY <1>1, <1>4, <2>1, NothingLater
  <2> QED BY <1>4, <2>1, <2>2, <2>3, Places DEF Fares
<1>6. CASE RecordEvaluation(c)
  <2>1. pc'[c] = "analysed" /\ me'[c] = me[c]
    BY <1>1, <1>6, Comes DEF RecordEvaluation, Goto
  <2>2. Checkpoint("evaluation", s) \in S1
    BY <1>2, <1>6, AppendKeeps DEF RecordEvaluation, Evaluation
  <2> QED BY <1>4, <2>1, <2>2, Places DEF Fares
<1>7. CASE CloseAnalysis(c)
  <2>1. pc[c] = "analysed" /\ pc'[c] = "scanning" /\ me'[c] = me[c]
    BY <1>1, <1>7, Comes DEF CloseAnalysis, Record, Goto
  <2> QED BY <1>4, <2>1, Places DEF Fares
<1>8. CASE Scan(c)
  <2>1. /\ pc[c] = "scanning" /\ me'[c] = me[c] /\ s \in N1
        /\ Goto(c, IF Checkpoint("planning", s) \in me[c].done THEN "planned" ELSE "enumerating")
    BY <1>8 DEF Scan
  <2>2. pc'[c] \in {"planned", "enumerating"}
    BY <1>1, <2>1, Comes DEF Goto
  <2> QED BY <1>4, <2>1, <2>2, Places DEF Fares
<1> QED BY <1>5, <1>6, <1>7, <1>8

LEMMA FaresStep ==
  ASSUME Inv, FrozenInv, NEW c \in Coordinators, Step(c)
  PROVE  \A b \in Coordinators : Fares(pc'[b], me'[b], DOMAIN steps', events', DOMAIN scanned', All)
<1> DEFINE S == DOMAIN steps
           S1 == DOMAIN steps'
           N == DOMAIN scanned
           N1 == DOMAIN scanned'
<1>1. S \subseteq S1 /\ events \subseteq events' /\ N \subseteq N1
  BY StepsGrow
<1>2. \A b \in Coordinators : Fares(pc[b], me[b], S1, events', N1, All)
  <2>1. \A b \in Coordinators : Fares(pc[b], me[b], S, events, N, All)
    BY DEF FrozenInv
  <2> QED BY <1>1, <2>1, FaresOn
<1>3. \A b \in Coordinators \ {c} : pc'[b] = pc[b] /\ me'[b] = me[b]
  BY OthersStep DEF OthersStay, Inv
<1>4. Fares(pc'[c], me'[c], S1, events', N1, All)
  <2>1. CASE Onward(c)
    BY <1>2, <2>1, OnwardFares DEF Onward
  <2>2. CASE Leaves(c)
    BY <1>2, <2>2 DEF Leaves, Fares
  <2>3. CASE LoseLock(c)
    BY <1>2, <2>3 DEF LoseLock
  <2>4. CASE Resume(c)
    <3>1. EnterStage(c, -1, S) /\ -1 \in Stages \cup {4}
      BY <2>4 DEF Resume, Stages
    <3>2. \A u \in Stages : ~(u < -1)
      BY DEF Stages
    <3> QED BY <1>1, <3>1, <3>2, EnteringFares
  <2>5. CASE CloseStage(c)
    <3> DEFINE s == me[c].stage
    <3>1. /\ pc[c] = "dispatching" /\ AppendStep(Checkpoint("stage", s), "checkpoint")
          /\ EnterStage(c, s + 1, me[c].done)
      BY <2>5 DEF CloseStage
    <3>2. /\ me[c].done \subseteq S1 /\ s \in Stages
          /\ \A u \in Stages : u < s => Checkpoint("stage", u) \in S1
      BY <1>2, <3>1, Places DEF Fares
    <3>3. Checkpoint("stage", s) \in S1
      BY <3>1, AppendKeeps
    <3>4. s + 1 \in Stages \cup {4} /\ \A u \in Stages : u < s + 1 => u < s \/ u = s
      BY <3>2 DEF Stages
    <3>5. \A u \in Stages : u < s + 1 => Checkpoint("stage", u) \in S1
      BY <3>2, <3>3, <3>4
    <3> QED BY <3>1, <3>2, <3>4, <3>5, EnteringFares
  <2> QED BY <2>1, <2>2, <2>3, <2>4, <2>5, MovesOn, DeliveringFares, AnalysingFares DEF Staging
<1> QED BY <1>2, <1>3, <1>4

\* How far the stages are holds in every reachable state.
THEOREM Freezing ==
  Spec => []FrozenInv
<1>1. Init => FrozenInv
  <2> SUFFICES ASSUME Init PROVE FrozenInv
    OBVIOUS
  <2>1. steps = <<>> /\ scanned = <<>> /\ events = {}
    BY DEF Init
  <2>2. DOMAIN steps = {} /\ DOMAIN scanned = {}
    BY <2>1
  <2>3. Paths({}, {}, {}, All)
    BY DEF Paths
  <2>4. Exact(steps, scanned, All)
    BY <2>2 DEF Exact
  <2>5. \A c \in Coordinators : Fares(pc[c], me[c], {}, {}, {}, All)
    BY Places DEF Init, Fares, NewMe
  <2> QED BY <2>1, <2>2, <2>3, <2>4, <2>5 DEF FrozenInv
<1>2. Inv /\ FrozenInv /\ [Next]_vars => FrozenInv'
  <2> SUFFICES ASSUME Inv, FrozenInv, [Next]_vars PROVE FrozenInv'
    OBVIOUS
  <2>1. CASE UNCHANGED vars
    <3>1. UNCHANGED <<world, pc, me, steps, events, scanned>>
      BY <2>1 DEF vars, db
    <3>2. All' = All
      BY <3>1, AllStays
    <3> QED BY <3>1, <3>2 DEF FrozenInv
  <2>2. CASE Next
    <3>1. PICK c \in Coordinators : Step(c)
      BY <2>2, Steps
    <3>2. All' = All
      BY <3>1, StoresStep, AllStays DEF StoresStay
    <3> QED BY <3>1, <3>2, StoredStep, FaresStep DEF FrozenInv
  <2> QED BY <2>1, <2>2
<1> QED BY Invariance, <1>1, <1>2, PTL DEF Spec

\* Whoever records them, evaluations and scans see what the stages up to theirs
\* delivered, no less and nothing later, however often a stage is taken up and
\* by however many coordinators (run in simulation.py).
THEOREM StagesFrozen ==
  Spec => []StageFrozen
BY Freezing, FrozenIs, PTL

-----------------------------------------------------------------------------
(* Steps as moves                                                          *)

\* A coordinator goes from one place to another and changes these variables.
Only(c, changed) == \A f \in MeFields \ changed : me'[c][f] = me[c][f]
Move(c, from, to, changed) == pc[c] = from /\ pc'[c] = to /\ Only(c, changed)
Starts(c, from) == pc[c] = from /\ pc'[c] = "idle" /\ me'[c] = NewMe

LEMMA StaysMove ==
  ASSUME Inv, NEW c \in Coordinators, NEW from, NEW to, pc[c] = from, Goto(c, to), me' = me
  PROVE  Move(c, from, to, {})
BY Comes DEF Move, Only, Goto, Inv

LEMMA EndStarts ==
  ASSUME Inv, NEW c \in Coordinators, NEW kind, NEW report, End(c, kind, report)
  PROVE  Starts(c, pc[c])
BY Comes DEF Starts, End, Goto, Inv

LEMMA FirstMoves ==
  ASSUME Inv, NEW c \in Coordinators
  PROVE  /\ Acquire(c) => Move(c, "idle", "starting", {})
         /\ Start(c) => Move(c, "starting", "resuming", {})
         /\ ReturnReport(c) => Starts(c, "starting")
         /\ Finish(c) => Starts(c, "accounting")
         /\ Conflict(c) \/ Fail(c) => Starts(c, pc[c])
         /\ LoseLock(c) => pc' = pc /\ me' = me
<1>1. Acquire(c) => Move(c, "idle", "starting", {})
  BY StaysMove DEF Acquire
<1>2. Start(c) => Move(c, "starting", "resuming", {})
  BY StaysMove DEF Start
<1>3. ReturnReport(c) => Starts(c, "starting")
  BY EndStarts DEF ReturnReport, Return
<1>4. Finish(c) => Starts(c, "accounting")
  BY EndStarts DEF Finish, Return
<1>5. Conflict(c) \/ Fail(c) => Starts(c, pc[c])
  BY EndStarts DEF Conflict, Fail
<1>6. LoseLock(c) => pc' = pc /\ me' = me
  BY DEF LoseLock
<1> QED BY <1>1, <1>2, <1>3, <1>4, <1>5, <1>6

LEMMA DeliveryMoves ==
  ASSUME Inv, NEW c \in Coordinators
  PROVE  /\ Deliver(c) => \E to \in {"registering", "recording"} :
              Move(c, "delivering", to, {"delivery"})
         /\ Register(c) => Move(c, "registering", "recording", {})
         /\ RecordDelivery(c) => Move(c, "recording", "delivering", {"done", "delivery"})
         /\ AllDelivered(c) => \E to \in {"dispatching", "scanning", "analysing"} :
              Move(c, "delivering", to, {})
<1>1. Shaped /\ DOMAIN me[c] = MeFields
  BY DEF Inv, Placed
<1>2. ASSUME Deliver(c)
      PROVE  \E to \in {"registering", "recording"} : Move(c, "delivering", to, {"delivery"})
  <2>1. PICK d : /\ me' = [me EXCEPT ![c].delivery = d]
                 /\ Goto(c, IF Enrols(d) THEN "registering" ELSE "recording")
    BY <1>2 DEF Deliver
  <2>2. pc[c] = "delivering" /\ pc'[c] \in {"registering", "recording"}
    BY <1>1, <1>2, <2>1, Comes DEF Goto, Deliver
  <2>3. Only(c, {"delivery"})
    BY <1>1, <2>1 DEF Only, Shaped
  <2> QED BY <2>2, <2>3 DEF Move
<1>3. Register(c) => Move(c, "registering", "recording", {})
  BY StaysMove DEF Register
<1>4. ASSUME RecordDelivery(c)
      PROVE  Move(c, "recording", "delivering", {"done", "delivery"})
  <2>1. me' = [me EXCEPT ![c].done = @ \cup {me[c].delivery.key}, ![c].delivery = None]
    BY <1>4 DEF RecordDelivery
  <2>2. pc[c] = "recording" /\ pc'[c] = "delivering"
    BY <1>1, <1>4, Comes DEF Goto, RecordDelivery, Record
  <2>3. Only(c, {"done", "delivery"})
    BY <1>1, <2>1 DEF Only, Shaped
  <2> QED BY <2>2, <2>3 DEF Move
<1>5. ASSUME AllDelivered(c)
      PROVE  \E to \in {"dispatching", "scanning", "analysing"} : Move(c, "delivering", to, {})
  <2>1. pc[c] = "delivering" /\ me' = me /\ \E to \in {"dispatching", "scanning", "analysing"} : Goto(c, to)
    BY <1>5 DEF AllDelivered, Local
  <2> QED BY <2>1, StaysMove
<1> QED BY <1>2, <1>3, <1>4, <1>5

LEMMA PlanningMoves ==
  ASSUME Inv, NEW c \in Coordinators
  PROVE  /\ Analyse(c) => Move(c, "analysing", "evaluating", {"evidence"})
         /\ RecordEvaluation(c) => Move(c, "evaluating", "analysed", {})
         /\ CloseAnalysis(c) => Move(c, "analysed", "scanning", {})
         /\ Scan(c) => \E to \in {"planned", "enumerating"} : Move(c, "scanning", to, {})
         /\ Enumerate(c) => /\ Move(c, "enumerating", "planning", {"left"})
                            /\ me'[c].left = Candidates(me[c].stage)
         /\ PlanRecovery(c) => /\ Move(c, "planning", "attaching", {"payment", "left"})
                               /\ me'[c].payment \in me[c].left
                               /\ me'[c].left = me[c].left \ {me'[c].payment}
         /\ AttachPlan(c) => Move(c, "attaching", "planning", {})
         /\ ClosePlanning(c) => Move(c, "planning", "planned", {})
<1>1. Shaped /\ DOMAIN me[c] = MeFields
  BY DEF Inv, Placed
<1>2. ASSUME Analyse(c) PROVE Move(c, "analysing", "evaluating", {"evidence"})
  BY <1>1, <1>2, Comes DEF Analyse, Local, Goto, Move, Only, Shaped
<1>3. RecordEvaluation(c) => Move(c, "evaluating", "analysed", {})
  BY StaysMove DEF RecordEvaluation
<1>4. CloseAnalysis(c) => Move(c, "analysed", "scanning", {})
  BY StaysMove DEF CloseAnalysis, Record
<1>5. ASSUME Scan(c) PROVE \E to \in {"planned", "enumerating"} : Move(c, "scanning", to, {})
  <2>1. pc[c] = "scanning" /\ me' = me /\ \E to \in {"planned", "enumerating"} : Goto(c, to)
    BY <1>5 DEF Scan
  <2> QED BY <2>1, StaysMove
<1>6. ASSUME Enumerate(c)
      PROVE  Move(c, "enumerating", "planning", {"left"}) /\ me'[c].left = Candidates(me[c].stage)
  BY <1>1, <1>6, Comes DEF Enumerate, Local, Goto, Move, Only, Shaped, MeFields
<1>7. ASSUME PlanRecovery(c)
      PROVE  /\ Move(c, "planning", "attaching", {"payment", "left"})
             /\ me'[c].payment \in me[c].left
             /\ me'[c].left = me[c].left \ {me'[c].payment}
  <2>1. PICK p \in me[c].left : me' = [me EXCEPT ![c].payment = p, ![c].left = @ \ {p}]
    BY <1>7 DEF PlanRecovery
  <2>2. pc[c] = "planning" /\ pc'[c] = "attaching"
    BY <1>1, <1>7, Comes DEF PlanRecovery, Goto
  <2>3. Only(c, {"payment", "left"}) /\ me'[c].payment = p /\ me'[c].left = me[c].left \ {p}
    BY <1>1, <2>1 DEF Only, Shaped, MeFields
  <2> QED BY <2>2, <2>3 DEF Move
<1>8. AttachPlan(c) => Move(c, "attaching", "planning", {})
  BY StaysMove DEF AttachPlan
<1>9. ClosePlanning(c) => Move(c, "planning", "planned", {})
  BY StaysMove DEF ClosePlanning, Record
<1> QED BY <1>2, <1>3, <1>4, <1>5, <1>6, <1>7, <1>8, <1>9

LEMMA ScheduleMoves ==
  ASSUME Inv, NEW c \in Coordinators
  PROVE  /\ BeginSimulation(c) =>
              /\ Move(c, "planned", "dispatching", {"known", "left"})
              /\ me'[c].known = DOMAIN steps
              /\ me'[c].left = IF me[c].stage < Outage THEN {} ELSE Enrolled
         /\ NextPayment(c) =>
              /\ Move(c, "dispatching", "considering", {"payment", "ordinal", "left"})
              /\ me'[c].ordinal = 1 /\ me[c].left # {}
              /\ me'[c].payment = Least(me[c].left)
              /\ me'[c].left = me[c].left \ {me'[c].payment}
         /\ LeavePayment(c) => Move(c, "considering", "dispatching", {})
         /\ PassOver(c) => /\ Move(c, "considering", "considering", {"ordinal"})
                           /\ me'[c].ordinal = me[c].ordinal + 1
         /\ TakeUp(c) => /\ Move(c, "considering", "reserving", {"due"})
                         /\ me'[c].due = Due(me[c].payment, me[c].ordinal)
<1>1. Shaped /\ DOMAIN me[c] = MeFields
  BY DEF Inv, Placed
<1>2. ASSUME BeginSimulation(c)
      PROVE  /\ Move(c, "planned", "dispatching", {"known", "left"})
             /\ me'[c].known = DOMAIN steps
             /\ me'[c].left = IF me[c].stage < Outage THEN {} ELSE Enrolled
  <2>1. me' = [me EXCEPT ![c].known = DOMAIN steps,
                         ![c].left = IF me[c].stage < Outage THEN {} ELSE Enrolled]
    BY <1>2 DEF BeginSimulation, Enrolled
  <2>2. pc[c] = "planned" /\ pc'[c] = "dispatching"
    BY <1>1, <1>2, Comes DEF BeginSimulation, Local, Goto
  <2>3. /\ Only(c, {"known", "left"}) /\ me'[c].known = DOMAIN steps
        /\ me'[c].left = IF me[c].stage < Outage THEN {} ELSE Enrolled
    BY <1>1, <2>1 DEF Only, Shaped, MeFields
  <2> QED BY <2>2, <2>3 DEF Move
<1>3. ASSUME NextPayment(c)
      PROVE  /\ Move(c, "dispatching", "considering", {"payment", "ordinal", "left"})
             /\ me'[c].ordinal = 1 /\ me[c].left # {}
             /\ me'[c].payment = Least(me[c].left)
             /\ me'[c].left = me[c].left \ {me'[c].payment}
  <2> DEFINE p == Least(me[c].left)
  <2>1. me' = [me EXCEPT ![c].payment = p, ![c].ordinal = 1, ![c].left = @ \ {p}] /\ me[c].left # {}
    BY <1>3, Zenon DEF NextPayment
  <2>2. pc[c] = "dispatching" /\ pc'[c] = "considering"
    BY <1>1, <1>3, Comes DEF NextPayment, Local, Goto
  <2> HIDE DEF p
  <2>3. /\ Only(c, {"payment", "ordinal", "left"}) /\ me'[c].payment = p /\ me'[c].ordinal = 1
        /\ me'[c].left = me[c].left \ {p}
    BY <1>1, <2>1 DEF Only, Shaped, MeFields
  <2> QED BY <2>1, <2>2, <2>3 DEF Move, p
<1>4. LeavePayment(c) => Move(c, "considering", "dispatching", {})
  BY StaysMove DEF LeavePayment, Local
<1>5. ASSUME PassOver(c)
      PROVE  /\ Move(c, "considering", "considering", {"ordinal"})
             /\ me'[c].ordinal = me[c].ordinal + 1
  BY <1>1, <1>5 DEF PassOver, Move, Only, Shaped, MeFields
<1>6. ASSUME TakeUp(c)
      PROVE  /\ Move(c, "considering", "reserving", {"due"})
             /\ me'[c].due = Due(me[c].payment, me[c].ordinal)
  <2>1. /\ me' = [me EXCEPT ![c].due = Due(me[c].payment, me[c].ordinal)]
        /\ pc[c] = "considering" /\ pc'[c] = "reserving"
    BY <1>1, <1>6, Comes DEF TakeUp, Local, Goto
  <2> QED BY <1>1, <2>1 DEF Move, Only, Shaped, MeFields
<1> QED BY <1>2, <1>3, <1>4, <1>5, <1>6

LEMMA AttemptMoves ==
  ASSUME Inv, NEW c \in Coordinators
  PROVE  /\ FindReserved(c) \/ Reserve(c) => Move(c, "reserving", "modelling", {})
         /\ Refuse(c) => Move(c, "reserving", "refused", {})
         /\ CloseRefused(c) => Move(c, "refused", "dispatching", {})
         /\ RecordOutcome(c) => Move(c, "modelling", "observed", {})
         /\ Suppress(c) => Move(c, "observed", "suppressed", {})
         /\ Reconcile(c) => Move(c, "suppressed", "reconciled", {})
         /\ CloseDispatch(c) => /\ Move(c, "reconciled", "considering", {"ordinal"})
                                /\ me'[c].ordinal = me[c].ordinal + 1
<1>1. Shaped /\ DOMAIN me[c] = MeFields
  BY DEF Inv, Placed
<1>2. FindReserved(c) \/ Reserve(c) => Move(c, "reserving", "modelling", {})
  BY StaysMove DEF FindReserved, Reserve, Local
<1>3. Refuse(c) => Move(c, "reserving", "refused", {})
  BY StaysMove DEF Refuse, Record
<1>4. CloseRefused(c) => Move(c, "refused", "dispatching", {})
  BY StaysMove DEF CloseRefused, Record
<1>5. ASSUME RecordOutcome(c) PROVE Move(c, "modelling", "observed", {})
  <2>1. pc[c] = "modelling" /\ Goto(c, "observed") /\ me' = me
    BY <1>5, Zenon DEF RecordOutcome
  <2> QED BY <2>1, StaysMove
<1>6. Suppress(c) => Move(c, "observed", "suppressed", {})
  BY StaysMove DEF Suppress, Record
<1>7. ASSUME Reconcile(c) PROVE Move(c, "suppressed", "reconciled", {})
  <2>1. pc[c] = "suppressed" /\ Goto(c, "reconciled") /\ me' = me
    BY <1>7, Zenon DEF Reconcile
  <2> QED BY <2>1, StaysMove
<1>8. ASSUME CloseDispatch(c)
      PROVE  /\ Move(c, "reconciled", "considering", {"ordinal"})
             /\ me'[c].ordinal = me[c].ordinal + 1
  BY <1>1, <1>8, Comes DEF CloseDispatch, Record, Goto, Move, Only, Shaped, MeFields
<1> QED BY <1>2, <1>3, <1>4, <1>5, <1>6, <1>7, <1>8

LEMMA ReportMoves ==
  ASSUME Inv, NEW c \in Coordinators
  PROVE  /\ CountSteps(c) => Move(c, "reporting", "accounting", {"report", "left"})
         /\ CountPayment(c) => Move(c, "accounting", "accounting", {"report", "left"})
<1>1. Shaped /\ DOMAIN me[c] = MeFields
  BY DEF Inv, Placed
<1>2. ASSUME CountSteps(c) PROVE Move(c, "reporting", "accounting", {"report", "left"})
  <2>1. \E report, left : me' = [me EXCEPT ![c].report = report, ![c].left = left]
    BY <1>2, Zenon DEF CountSteps
  <2>2. PICK report, left : me' = [me EXCEPT ![c].report = report, ![c].left = left]
    BY <2>1
  <2>3. pc[c] = "reporting" /\ pc'[c] = "accounting"
    BY <1>1, <1>2, Comes DEF CountSteps, Local, Goto
  <2> QED BY <1>1, <2>2, <2>3 DEF Move, Only, Shaped
<1>3. ASSUME CountPayment(c) PROVE Move(c, "accounting", "accounting", {"report", "left"})
  <2>1. \E p, account : me' = [me EXCEPT ![c].report.accounts = @ \cup {account},
                                         ![c].left = @ \ {p}]
    BY <1>3, Zenon DEF CountPayment
  <2>2. PICK p, account : me' = [me EXCEPT ![c].report.accounts = @ \cup {account},
                                         ![c].left = @ \ {p}]
    BY <2>1
  <2>3. pc[c] = "accounting" /\ pc'[c] = "accounting"
    BY <1>3 DEF CountPayment
  <2> QED BY <1>1, <2>2, <2>3 DEF Move, Only, Shaped
<1> QED BY <1>2, <1>3

\* What a coordinator is once it enters the next open stage from s on.
Enters(c, s, done) ==
  /\ me'[c].done = done /\ me'[c].known = {} /\ me'[c].left = {} /\ me'[c].ordinal = 1
  /\ me'[c].stage \in Stages \cup {4}
  /\ pc'[c] \in {"delivering", "reporting"}
  /\ pc'[c] = "reporting" => \A t \in Stages : t < s \/ Checkpoint("stage", t) \in done

LEMMA EnteringMoves ==
  ASSUME Inv, NEW c \in Coordinators, NEW s \in Int, NEW done, EnterStage(c, s, done)
  PROVE  Enters(c, s, done)
<1> DEFINE open == {t \in Stages : t >= s /\ Checkpoint("stage", t) \notin done}
           stage == IF open = {} THEN 4 ELSE Least(open)
           to == IF open = {} THEN "reporting" ELSE "delivering"
<1>1. Shaped
  BY DEF Inv
<1>2. /\ me' = [me EXCEPT ![c] = [NewMe EXCEPT !.done = done, !.stage = stage]]
      /\ pc' = [pc EXCEPT ![c] = to]
  BY DEF EnterStage, Goto
<1>3. stage \in Stages \cup {4}
  <2>1. open # {} => Least(open) \in open
    BY LeastStage
  <2> QED BY <2>1
<1>4. to = "reporting" => \A t \in Stages : t < s \/ Checkpoint("stage", t) \in done
  <2>1. SUFFICES ASSUME open = {}, NEW t \in Stages PROVE t < s \/ Checkpoint("stage", t) \in done
    OBVIOUS
  <2>2. t \in Int
    BY DEF Stages
  <2> QED BY <2>1, <2>2
<1>5. to \in {"delivering", "reporting"}
  OBVIOUS
<1> HIDE DEF stage, to
<1>6. me'[c] = [NewMe EXCEPT !.done = done, !.stage = stage] /\ pc'[c] = to
  BY <1>1, <1>2, Comes
<1>7. /\ me'[c].done = done /\ me'[c].known = {} /\ me'[c].left = {} /\ me'[c].ordinal = 1
      /\ me'[c].stage = stage
  BY <1>6 DEF NewMe
<1> QED BY <1>3, <1>4, <1>5, <1>6, <1>7 DEF Enters

\* The steps one by one.
LEMMA OneStep ==
  ASSUME NEW c \in Coordinators, Step(c)
  PROVE  \/ Acquire(c) \/ Start(c) \/ ReturnReport(c) \/ Resume(c) \/ Fail(c) \/ LoseLock(c)
         \/ Deliver(c) \/ Register(c) \/ RecordDelivery(c) \/ AllDelivered(c)
         \/ Analyse(c) \/ RecordEvaluation(c) \/ CloseAnalysis(c) \/ Scan(c)
         \/ Enumerate(c) \/ PlanRecovery(c) \/ AttachPlan(c) \/ ClosePlanning(c)
         \/ BeginSimulation(c) \/ NextPayment(c) \/ LeavePayment(c) \/ PassOver(c) \/ TakeUp(c)
         \/ CloseStage(c)
         \/ FindReserved(c) \/ Reserve(c) \/ Refuse(c) \/ CloseRefused(c) \/ RecordOutcome(c)
         \/ Suppress(c) \/ Reconcile(c) \/ CloseDispatch(c)
         \/ CountSteps(c) \/ CountPayment(c) \/ Finish(c) \/ Conflict(c)
BY DEF Step, Proceed, Prepare, DeliverStage, PlanStage, Schedule, Attempt, Complete

\* Which step records which key.
Adds(c, key) ==
  \/ RecordDelivery(c) /\ key = me[c].delivery.key
  \/ RecordEvaluation(c) /\ key = Evaluation(c)
  \/ CloseAnalysis(c) /\ key = Checkpoint("analysis", me[c].stage)
  \/ ClosePlanning(c) /\ key = Checkpoint("planning", me[c].stage)
  \/ CloseStage(c) /\ key = Checkpoint("stage", me[c].stage)
  \/ Reserve(c) /\ key \in {AttemptKey("eligibility", c), AttemptKey("reserved", c)}
  \/ Refuse(c) /\ key = AttemptKey("eligibility", c)
  \/ (CloseRefused(c) \/ CloseDispatch(c)) /\ key = AttemptKey("dispatch", c)
  \/ RecordOutcome(c) /\ key = AttemptKey("outcome", c)
  \/ Suppress(c) /\ key = AttemptKey("suppressed", c)
  \/ Reconcile(c) /\ key = AttemptKey("reconcile", c)

\* What is recorded stays as it is, and what is new is some step's own.
Written(c) ==
  /\ \A key \in DOMAIN steps : key \in DOMAIN steps' /\ steps'[key] = steps[key]
  /\ \A key \in DOMAIN steps' \ DOMAIN steps : Adds(c, key)

LEMMA WrittenByAppend ==
  ASSUME NEW c, NEW key, NEW data, AppendStep(key, data), Adds(c, key)
  PROVE  Written(c)
<1>1. \A k \in DOMAIN steps : k \in DOMAIN steps' /\ steps'[k] = steps[k]
  BY AppendKeeps DEF Same
<1>2. \A k \in DOMAIN steps' \ DOMAIN steps : k = key
  BY AppendKeeps DEF Same
<1> QED BY <1>1, <1>2 DEF Written

LEMMA WrittenByReserve ==
  ASSUME NEW c, Reserve(c)
  PROVE  Written(c)
<1>1. steps' = WithReservation(c)
  BY DEF Reserve
<1>2. \A k \in DOMAIN steps : k \in DOMAIN steps' /\ steps'[k] = steps[k]
  BY <1>1 DEF WithReservation
<1>3. \A k \in DOMAIN steps' \ DOMAIN steps : Adds(c, k)
  BY <1>1 DEF WithReservation, Adds
<1> QED BY <1>2, <1>3 DEF Written

LEMMA WrittenStep ==
  ASSUME Inv, NEW c \in Coordinators, Step(c)
  PROVE  Written(c)
<1>a. steps' = steps => Written(c)
  BY DEF Written
<1>1. CASE RecordDelivery(c)
  BY <1>1, WrittenByAppend DEF RecordDelivery, Record, Adds
<1>2. CASE RecordEvaluation(c)
  <2>1. steps' = steps \/ AppendStep(Evaluation(c), me[c].evidence)
    BY <1>2 DEF RecordEvaluation
  <2>2. Adds(c, Evaluation(c))
    BY <1>2 DEF Adds
  <2> QED BY <1>a, <2>1, <2>2, WrittenByAppend
<1>3. CASE CloseAnalysis(c)
  BY <1>3, WrittenByAppend DEF CloseAnalysis, Record, Adds
<1>4. CASE ClosePlanning(c)
  BY <1>4, WrittenByAppend DEF ClosePlanning, Record, Adds
<1>5. CASE CloseStage(c)
  BY <1>5, WrittenByAppend DEF CloseStage, Adds
<1>6. CASE Refuse(c)
  BY <1>6, WrittenByAppend DEF Refuse, Record, Adds
<1>7. CASE CloseRefused(c)
  BY <1>7, WrittenByAppend DEF CloseRefused, Record, Adds
<1>8. CASE CloseDispatch(c)
  BY <1>8, WrittenByAppend DEF CloseDispatch, Record, Adds
<1>9. CASE Suppress(c)
  BY <1>9, WrittenByAppend DEF Suppress, Record, Adds
<1>10. CASE RecordOutcome(c)
  <2>1. Adds(c, <<"outcome", me[c].payment, me[c].ordinal>>)
    BY <1>10 DEF Adds, AttemptKey
  <2>2. steps' = steps \/ \E data : AppendStep(<<"outcome", me[c].payment, me[c].ordinal>>, data)
    BY <1>10, OutcomeEffect
  <2> QED BY <1>a, <2>1, <2>2, WrittenByAppend
<1>11. CASE Reconcile(c)
  <2>1. Adds(c, <<"reconcile", me[c].payment, me[c].ordinal>>)
    BY <1>11 DEF Adds, AttemptKey
  <2>2. steps' = steps \/ \E data : AppendStep(<<"reconcile", me[c].payment, me[c].ordinal>>, data)
    BY <1>11, ReconcileEffect
  <2> QED BY <1>a, <2>1, <2>2, WrittenByAppend
<1>12. CASE Reserve(c)
  BY <1>12, WrittenByReserve
<1>13. CASE \/ Acquire(c) \/ Start(c) \/ ReturnReport(c) \/ Resume(c) \/ Fail(c) \/ LoseLock(c)
            \/ Deliver(c) \/ Register(c) \/ AllDelivered(c)
            \/ Analyse(c) \/ Scan(c) \/ Enumerate(c) \/ PlanRecovery(c) \/ AttachPlan(c)
  BY <1>13, <1>a
     DEF Acquire, Start, ReturnReport, Resume, Fail, LoseLock, Deliver, Register, AllDelivered,
         Analyse, Scan, Enumerate, PlanRecovery, AttachPlan, Local, db
<1>14. CASE \/ BeginSimulation(c) \/ NextPayment(c) \/ LeavePayment(c) \/ PassOver(c) \/ TakeUp(c)
            \/ FindReserved(c) \/ CountSteps(c) \/ CountPayment(c) \/ Finish(c) \/ Conflict(c)
  BY <1>14, <1>a
     DEF BeginSimulation, NextPayment, LeavePayment, PassOver, TakeUp, FindReserved,
         CountSteps, CountPayment, Finish, Conflict, Local, db
<1> QED BY <1>1, <1>2, <1>3, <1>4, <1>5, <1>6, <1>7, <1>8, <1>9, <1>10, <1>11, <1>12, <1>13,
           <1>14, OneStep

\* The invariant so far, kept by a step.
LEMMA InvStep ==
  ASSUME Inv, NEW c \in Coordinators, Step(c)
  PROVE  Inv'
BY EnrolledGrows, SourcedStep, TimedStep, AttemptedStep, OutcomesStep, PlacedStep, ProjectionStep
   DEF Inv

LEMMA FrozenStep ==
  ASSUME Inv, FrozenInv, NEW c \in Coordinators, Step(c)
  PROVE  FrozenInv' /\ All' = All
<1>1. All' = All
  BY StoresStep, AllStays DEF StoresStay
<1> QED BY <1>1, StoredStep, FaresStep DEF FrozenInv

-----------------------------------------------------------------------------
(* Deliveries                                                              *)

Keys(s) == {d.key : d \in All[s]}
Closed(s) == Checkpoint("stage", s) \in DOMAIN steps

\* What a delivery is, of a payment in a stage.
Delivers(d, p, s) ==
  LET w == world[p]
  IN \/ s = Outage /\ d = Delivery("event", 2, FailedEvent(p, w))
     \/ s = Outage /\ w.duplicate /\ d = Delivery("duplicate", 1, FailedEvent(p, w))
     \/ s = Outage /\ w.extra # "none" /\ d = Delivery("history", 3, HistoryEvent(p, w))
     \/ s = Outage + 1 /\ w.late /\ d = Delivery("late", 1, LateEvent(p, w))

LEMMA DeliveryIs ==
  ASSUME NEW s \in Stages
  PROVE  \A d : d \in All[s] <=> \E p \in Payments : Delivers(d, p, s)
<1>1. \A p \in Payments : \A d : d \in Deliveries(p, world[p], s) <=> Delivers(d, p, s)
  <2> SUFFICES ASSUME NEW p \in Payments, NEW d
               PROVE  d \in Deliveries(p, world[p], s) <=> Delivers(d, p, s)
    OBVIOUS
  <2>1. CASE s = Outage
    BY <2>1 DEF Deliveries, Delivers, Outage
  <2>2. CASE s # Outage
    BY <2>2 DEF Deliveries, Delivers, Outage
  <2> QED BY <2>1, <2>2
<1>2. \A d : d \in All[s] <=> \E p \in Payments : d \in Deliveries(p, world[p], s)
  BY DEF All, StageDeliveries
<1> QED BY <1>1, <1>2

\* The fields of a payment's events.
LEMMA EventFields ==
  ASSUME NEW p
  PROVE  LET w == world[p]
         IN /\ \A e \in {FailedEvent(p, w), HistoryEvent(p, w), LateEvent(p, w)} :
                 /\ e.source = "normalized_api" /\ e.payment = p /\ e.window = Outage
                 /\ e.cohort = "card"
            /\ FailedEvent(p, w).status = "failed" /\ FailedEvent(p, w).error = w.label
            /\ FailedEvent(p, w).amount = 1
            /\ LateEvent(p, w).status = "success" /\ LateEvent(p, w).amount = 1
            /\ LateEvent(p, w).error = "none"
            /\ w.extra = "amount" =>
                 /\ HistoryEvent(p, w).status = "failed" /\ HistoryEvent(p, w).error = w.label
                 /\ HistoryEvent(p, w).amount = 2
            /\ w.extra # "amount" =>
                 /\ HistoryEvent(p, w).status = "success" /\ HistoryEvent(p, w).amount = 1
                 /\ HistoryEvent(p, w).error = "none"
BY DEF FailedEvent, HistoryEvent, LateEvent

LEMMA DeliveryParts ==
  ASSUME NEW kind, NEW rank, NEW e
  PROVE  /\ Delivery(kind, rank, e).event = e /\ Delivery(kind, rank, e).rank = rank
         /\ Delivery(kind, rank, e).key = <<kind, e.payment, 0>>
         /\ Delivery(kind, rank, e).key[1] = kind /\ Delivery(kind, rank, e).key[2] = e.payment
BY DEF Delivery

\* What a delivery tells of its payment.
LEMMA DeliveryTells ==
  ASSUME NEW s \in Stages, NEW d \in All[s]
  PROVE  LET p == d.event.payment
         IN /\ p \in Payments /\ d.key = <<d.key[1], p, 0>>
            /\ d.key[1] = "event" => Enrols(d)
            /\ Enrols(d) =>
                 /\ d.event.status = "failed" /\ d.event.error = world[p].label
                 /\ d.event.window = Outage
<1>1. PICK p \in Payments : Delivers(d, p, s)
  BY DeliveryIs
<1> DEFINE w == world[p]
<1>2. \A e \in {FailedEvent(p, w), HistoryEvent(p, w), LateEvent(p, w)} : e.payment = p /\ e.window = Outage
  BY EventFields
<1>3. CASE d = Delivery("event", 2, FailedEvent(p, w))
  <2>1. d.event = FailedEvent(p, w) /\ d.key = <<"event", d.event.payment, 0>> /\ d.key[1] = "event"
    BY <1>3, DeliveryParts
  <2> QED BY <1>2, <2>1, EventFields DEF Enrols
<1>4. CASE d = Delivery("duplicate", 1, FailedEvent(p, w)) \/ d = Delivery("late", 1, LateEvent(p, w))
  <2>1. /\ d.event \in {FailedEvent(p, w), LateEvent(p, w)} /\ d.key[1] \in {"duplicate", "late"}
        /\ d.key = <<d.key[1], d.event.payment, 0>>
    BY <1>4, DeliveryParts
  <2>2. ~Enrols(d)
    BY <2>1 DEF Enrols
  <2> QED BY <1>2, <2>1, <2>2
<1>5. CASE d = Delivery("history", 3, HistoryEvent(p, w))
  <2>1. /\ d.event = HistoryEvent(p, w) /\ d.key = <<"history", d.event.payment, 0>>
        /\ d.key[1] = "history"
    BY <1>5, DeliveryParts
  <2>2. /\ w.extra = "amount" => d.event.status = "failed" /\ d.event.error = w.label
        /\ w.extra # "amount" => d.event.status = "success"
    BY <2>1, EventFields
  <2>3. Enrols(d) => d.event.status = "failed"
    BY DEF Enrols
  <2> QED BY <1>2, <2>1, <2>2, <2>3
<1> QED BY <1>1, <1>3, <1>4, <1>5 DEF Delivers

\* A delivered event is one of the rows that None is not.
LEMMA DeliveryTyped ==
  ASSUME world \in [Payments -> World], NEW s \in Stages, NEW d \in All[s]
  PROVE  d.event \in Events(Payments)
<1>1. PICK p \in Payments : Delivers(d, p, s)
  BY DeliveryIs
<1> DEFINE w == world[p]
<1>2. w.label \in Reviewed \cup {"UNMAPPED"} /\ w.extra \in {"none", "amount", "success"}
  BY DEF World
<1> HIDE DEF w
<1>3. FailedEvent(p, w) \in Events(Payments)
  BY <1>2 DEF FailedEvent, Events
<1>4. LateEvent(p, w) \in Events(Payments)
  BY <1>2 DEF FailedEvent, LateEvent, Events
<1>5. HistoryEvent(p, w) \in Events(Payments)
  <2>1. CASE w.extra = "amount"
    BY <1>2, <2>1 DEF FailedEvent, HistoryEvent, Events
  <2>2. CASE w.extra # "amount"
    BY <1>2, <2>2 DEF FailedEvent, HistoryEvent, Events
  <2> QED BY <2>1, <2>2
<1>6. d.event \in {FailedEvent(p, w), HistoryEvent(p, w), LateEvent(p, w)}
  BY <1>1, DeliveryParts DEF Delivers, w
<1> QED BY <1>3, <1>4, <1>5, <1>6

-----------------------------------------------------------------------------
(* What has arrived                                                        *)

\* An enrolled payment is known by a failed event of the outage.
Entry(p) ==
  /\ enrolled[p] \in events
  /\ enrolled[p].status = "failed" /\ enrolled[p].error = world[p].label
  /\ enrolled[p].window = Outage

\* A coordinator past the deliveries of its stage finds them recorded; what it
\* has in hand enrols; one that reports went through all stages.
Arriving(c) ==
  /\ me[c].stage \in Stages \cup {4}
  /\ me[c].ordinal \in 1..3
  /\ pc[c] \notin Outside \cup Receiving => Keys(me[c].stage) \subseteq DOMAIN steps
  /\ pc[c] = "registering" => Enrols(me[c].delivery)
  /\ pc[c] = "recording" /\ me[c].delivery.key[1] = "event"
       => me[c].delivery.event.payment \in Enrolled
  /\ pc[c] \in {"reporting", "accounting"} => \A s \in Stages : Closed(s)

Recorded(key) ==
  /\ key[1] \in Kinds
  /\ key[1] \in DeliveryKinds => \E s \in Stages : key \in Keys(s)

Arrived ==
  /\ world \in [Payments -> World]
  /\ \A p \in Enrolled : Entry(p)
  /\ \A p \in Payments : <<"event", p, 0>> \in DOMAIN steps => p \in Enrolled
  /\ \A key \in DOMAIN steps : Recorded(key)
  /\ \A s \in Stages : Closed(s) => Keys(s) \subseteq DOMAIN steps
  /\ Checkpoint("evaluation", -1) \notin DOMAIN steps
  /\ DOMAIN scanned \subseteq Stages \ {-1}

LEMMA KeysStay == All' = All => \A s : Keys(s)' = Keys(s)
BY DEF Keys

LEMMA NewKeyKinds ==
  ASSUME NEW c, NEW key, Adds(c, key), ~RecordDelivery(c)
  PROVE  /\ key[1] \in Kinds \ DeliveryKinds
         /\ key[1] = "stage" => CloseStage(c) /\ key = Checkpoint("stage", me[c].stage)
         /\ key[1] = "evaluation" => RecordEvaluation(c) /\ key = Evaluation(c)
         /\ key[1] = "planning" => ClosePlanning(c) /\ key = Checkpoint("planning", me[c].stage)
         /\ key[1] = "eligibility" => (Reserve(c) \/ Refuse(c)) /\ key = AttemptKey("eligibility", c)
         /\ key[1] = "dispatch" => (CloseRefused(c) \/ CloseDispatch(c)) /\ key = AttemptKey("dispatch", c)
         /\ key[1] = "suppressed" => Suppress(c) /\ key = AttemptKey("suppressed", c)
<1>1. \A kind : /\ Checkpoint(kind, me[c].stage)[1] = kind
                /\ AttemptKey(kind, c)[1] = kind
  BY KeyKinds
<1>2. Evaluation(c)[1] = "evaluation"
  BY KeyKinds DEF Evaluation
<1> QED BY <1>1, <1>2 DEF Adds, Kinds, DeliveryKinds

LEMMA EntriesStep ==
  ASSUME Inv, FrozenInv, Arrived, NEW c \in Coordinators, Arriving(c), Step(c)
  PROVE  \A p \in Enrolled' : Entry(p)'
<1>1. world' = world /\ events \subseteq events' /\ (enrolled' = enrolled \/ Register(c))
  BY StoresStep, StepsGrow DEF StoresStay
<1>2. \A p \in Enrolled : Entry(p)
  BY DEF Arrived
<1>3. CASE enrolled' = enrolled
  BY <1>1, <1>2, <1>3 DEF Entry, Enrolled
<1>4. CASE Register(c)
  <2> DEFINE d == me[c].delivery
             e == d.event
  <2>1. /\ pc[c] = "registering" /\ events' = events
        /\ enrolled' = [enrolled EXCEPT ![e.payment] = IF @ = None THEN e ELSE @]
    BY <1>4 DEF Register
  <2>2. me[c].stage \in Stages /\ d \in All[me[c].stage] /\ e \in events
    BY <2>1, Places DEF FrozenInv, Fares
  <2>3. Enrols(d)
    BY <2>1 DEF Arriving
  <2>4. e.payment \in Payments /\ e.status = "failed" /\ e.error = world[e.payment].label /\ e.window = Outage
    BY <2>2, <2>3, DeliveryTells
  <2>5. DOMAIN enrolled = Payments
    BY DEF Inv, Shaped
  <2> HIDE DEF e
  <2>6. ASSUME NEW p \in Enrolled' PROVE Entry(p)'
    <3>1. p \in Payments /\ enrolled'[p] # None
      BY <2>6 DEF Enrolled
    <3>2. CASE enrolled'[p] = enrolled[p]
      <4>1. p \in Enrolled
        BY <3>1, <3>2 DEF Enrolled
      <4> QED BY <1>1, <1>2, <2>1, <3>2, <4>1 DEF Entry
    <3>3. CASE enrolled'[p] # enrolled[p]
      <4>1. p = e.payment /\ enrolled'[p] = e
        BY <2>1, <2>5, <3>1, <3>3
      <4> QED BY <1>1, <2>1, <2>2, <2>4, <4>1 DEF Entry, e
    <3> QED BY <3>2, <3>3
  <2> QED BY <2>6
<1> QED BY <1>1, <1>3, <1>4

LEMMA ArrivedStep ==
  ASSUME Inv, FrozenInv, Arrived, NEW c \in Coordinators, Arriving(c), Step(c)
  PROVE  Arrived'
<1> DEFINE S == DOMAIN steps
           S1 == DOMAIN steps'
           s == me[c].stage
           d == me[c].delivery
<1>1. /\ S \subseteq S1 /\ \A key \in S1 \ S : Adds(c, key)
      /\ All' = All /\ \A t : Keys(t)' = Keys(t)
  BY WrittenStep, FrozenStep, KeysStay DEF Written
<1>2. Enrolled \subseteq Enrolled'
  BY EnrolledGrows
<1>3. RecordDelivery(c) => /\ pc[c] = "recording" /\ s \in Stages /\ d \in All[s]
                           /\ d.key[1] \in DeliveryKinds
                           /\ \A key \in S1 \ S : key = d.key
  <2> SUFFICES ASSUME RecordDelivery(c)
               PROVE  /\ pc[c] = "recording" /\ s \in Stages /\ d \in All[s]
                      /\ d.key[1] \in DeliveryKinds
                      /\ \A key \in S1 \ S : key = d.key
    OBVIOUS
  <2>1. pc[c] = "recording" /\ AppendStep(d.key, "delivered")
    BY DEF RecordDelivery, Record
  <2>2. s \in Stages /\ d \in All[s]
    BY <2>1, Places DEF FrozenInv, Fares
  <2>3. \A key \in S1 \ S : key = d.key
    BY <2>1, AppendKeeps DEF Same
  <2>4. d.key[1] \in DeliveryKinds
    BY <2>2, StageKeys
  <2> QED BY <2>1, <2>2, <2>3, <2>4
<1>4. ASSUME NEW p \in Payments, <<"event", p, 0>> \in S1 PROVE p \in Enrolled'
  <2> DEFINE key == <<"event", p, 0>>
  <2>1. CASE key \in S
    BY <1>2, <2>1 DEF Arrived
  <2>2. CASE key \notin S
    <3>1. key[1] = "event" /\ key[1] \in DeliveryKinds /\ Adds(c, key)
      BY <1>1, <1>4, <2>2 DEF DeliveryKinds
    <3>2. RecordDelivery(c)
      BY <3>1, NewKeyKinds
    <3>3. key = d.key /\ d.key = <<d.key[1], d.event.payment, 0>>
      BY <1>3, <1>4, <2>2, <3>2, DeliveryTells
    <3>4. d.event.payment = p /\ d.key[1] = "event"
      BY <3>3
    <3> QED BY <1>2, <1>3, <3>2, <3>4 DEF Arriving
  <2> QED BY <2>1, <2>2
<1>5. ASSUME NEW key \in S1 PROVE Recorded(key)'
  <2>1. CASE key \in S
    BY <1>1, <2>1 DEF Arrived, Recorded
  <2>2. CASE key \notin S /\ RecordDelivery(c)
    <3>1. key = d.key
      BY <1>3, <1>5, <2>2
    <3>2. key \in Keys(s) /\ s \in Stages /\ key[1] \in DeliveryKinds
      BY <1>3, <2>2, <3>1 DEF Keys
    <3> QED BY <1>1, <3>2 DEF Recorded, Kinds, DeliveryKinds
  <2>3. CASE key \notin S /\ ~RecordDelivery(c)
    BY <1>1, <1>5, <2>3, NewKeyKinds DEF Recorded
  <2> QED BY <2>1, <2>2, <2>3
<1>6. ASSUME NEW t \in Stages, Closed(t)' PROVE Keys(t)' \subseteq S1
  <2> DEFINE key == Checkpoint("stage", t)
  <2>1. CASE key \in S
    BY <1>1, <2>1 DEF Arrived, Closed
  <2>2. CASE key \notin S
    <3>1. key \in S1 \ S /\ key[1] = "stage"
      BY <1>6, <2>2, StageKeys DEF Closed
    <3>2. ~RecordDelivery(c)
      BY <1>3, <3>1 DEF DeliveryKinds
    <3>3. CloseStage(c) /\ key = Checkpoint("stage", s)
      BY <1>1, <3>1, <3>2, NewKeyKinds
    <3>4. t = s /\ pc[c] = "dispatching"
      BY <3>3, StageKeys DEF CloseStage
    <3>5. Keys(s) \subseteq S
      BY <3>4, Places DEF Arriving
    <3> QED BY <1>1, <3>4, <3>5
  <2> QED BY <2>1, <2>2
<1>7. Checkpoint("evaluation", -1) \notin S1
  <2> DEFINE key == Checkpoint("evaluation", -1)
  <2>1. SUFFICES ASSUME key \in S1 \ S PROVE FALSE
    BY DEF Arrived
  <2>2. key[1] = "evaluation" /\ -1 \in Stages
    BY KeyKinds DEF Stages
  <2>3. ~RecordDelivery(c)
    BY <1>3, <2>1, <2>2 DEF DeliveryKinds
  <2>4. RecordEvaluation(c) /\ key = Checkpoint("evaluation", s)
    BY <1>1, <2>1, <2>2, <2>3, NewKeyKinds DEF Evaluation
  <2>5. s = -1 /\ pc[c] = "evaluating"
    BY <2>4, StageKeys DEF RecordEvaluation
  <2> QED BY <2>5, Places DEF FrozenInv, Fares
<1>8. DOMAIN scanned' \subseteq Stages \ {-1}
  <2>1. CASE scanned' = scanned
    BY <2>1 DEF Arrived
  <2>2. CASE Scan(c)
    <3>1. pc[c] = "scanning" /\ DOMAIN scanned' = DOMAIN scanned \cup {s}
      BY <2>2 DEF Scan
    <3>2. s \in Stages \ {-1}
      BY <3>1, Places DEF FrozenInv, Fares
    <3> QED BY <3>1, <3>2 DEF Arrived
  <2> QED BY <2>1, <2>2, ScannedStep
<1>9. world' \in [Payments -> World]
  BY StoresStep DEF StoresStay, Arrived
<1> QED BY <1>4, <1>5, <1>6, <1>7, <1>8, <1>9, EntriesStep DEF Arrived

\* Where a coordinator comes from.
LEMMA ArrivingOthers ==
  ASSUME Inv, FrozenInv, NEW c \in Coordinators, Step(c), NEW b \in Coordinators, Arriving(b),
         pc'[b] = pc[b], me'[b] = me[b]
  PROVE  Arriving(b)'
<1>1. /\ DOMAIN steps \subseteq DOMAIN steps' /\ \A t : Keys(t)' = Keys(t)
      /\ Enrolled \subseteq Enrolled'
  BY StepsGrow, FrozenStep, KeysStay, EnrolledGrows
<1>2. \A t : Closed(t) => Closed(t)'
  BY <1>1 DEF Closed
<1> QED BY <1>1, <1>2 DEF Arriving

LEMMA ArrivingStep ==
  ASSUME Inv, FrozenInv, Arrived, NEW c \in Coordinators, Arriving(c), Step(c)
  PROVE  Arriving(c)'
<1> DEFINE S == DOMAIN steps
           S1 == DOMAIN steps'
           s == me[c].stage
<1>1. /\ S \subseteq S1 /\ (\A t : Keys(t)' = Keys(t)) /\ Enrolled \subseteq Enrolled'
      /\ (\A t : Closed(t) => Closed(t)') /\ Inv'
  BY StepsGrow, FrozenStep, KeysStay, EnrolledGrows, InvStep DEF Closed
<1>2. DOMAIN me[c] = MeFields /\ (pc[c] \in InTurn => me[c].ordinal \in 1..2)
  BY DEF Inv, Placed
<1>3. {"stage", "ordinal", "delivery", "done"} \subseteq MeFields
  BY DEF MeFields
\* Nothing of it changes, or it begins anew.
<1>4. CASE LoseLock(c)
  BY <1>4, FirstMoves, ArrivingOthers
<1>5. CASE Starts(c, pc[c])
  BY <1>5, Places DEF Starts, Arriving, NewMe, Stages
<1>6. CASE Acquire(c) \/ Start(c)
  <2>1. Move(c, "idle", "starting", {}) \/ Move(c, "starting", "resuming", {})
    BY <1>6, FirstMoves
  <2>2. me'[c].stage = s /\ me'[c].ordinal = me[c].ordinal /\ pc'[c] \in {"starting", "resuming"}
    BY <1>3, <2>1 DEF Move, Only
  <2> QED BY <2>2, Places DEF Arriving
\* It enters a stage.
<1>7. ASSUME NEW t \in Stages \cup {4}, NEW done, EnterStage(c, t, done), done \subseteq S1,
             \A u \in Stages : u < t => Closed(u)'
      PROVE  Arriving(c)'
  <2>1. Enters(c, t, done)
    BY <1>7, EnteringMoves DEF Stages
  <2>2. pc'[c] = "reporting" => \A u \in Stages : Closed(u)'
    BY <1>7, <2>1 DEF Enters, Closed
  <2> QED BY <2>1, <2>2, Places DEF Enters, Arriving
<1>8. CASE Resume(c)
  <2>1. EnterStage(c, -1, S) /\ -1 \in Stages /\ \A u \in Stages : ~(u < -1)
    BY <1>8 DEF Resume, Stages
  <2> QED BY <1>1, <1>7, <2>1
<1>9. CASE CloseStage(c)
  <2>1. /\ pc[c] = "dispatching" /\ AppendStep(Checkpoint("stage", s), "checkpoint")
        /\ EnterStage(c, s + 1, me[c].done)
    BY <1>9 DEF CloseStage
  <2>2. /\ me[c].done \subseteq S /\ s \in Stages
        /\ \A u \in Stages : u < s => Closed(u)
    BY <2>1, Places DEF FrozenInv, Fares, Closed
  <2>3. Checkpoint("stage", s) \in S1
    BY <2>1, AppendKeeps
  <2>4. s + 1 \in Stages \cup {4} /\ \A u \in Stages : u < s + 1 => u < s \/ u = s
    BY <2>2 DEF Stages
  <2>5. \A u \in Stages : u < s + 1 => Closed(u)'
    BY <1>1, <2>2, <2>3, <2>4 DEF Closed
  <2> QED BY <1>1, <1>7, <2>1, <2>2, <2>4, <2>5
\* It receives.
<1>10. CASE Deliver(c)
  <2>1. PICK d \in Undelivered(c) :
          /\ me' = [me EXCEPT ![c].delivery = d]
          /\ Goto(c, IF Enrols(d) THEN "registering" ELSE "recording")
    BY <1>10 DEF Deliver
  <2>2. PICK to \in {"registering", "recording"} : Move(c, "delivering", to, {"delivery"})
    BY <1>10, DeliveryMoves
  <2>3. me'[c].stage = s /\ me'[c].ordinal = me[c].ordinal /\ pc'[c] \in {"registering", "recording"}
    BY <1>3, <2>2 DEF Move, Only
  <2>4. me'[c].delivery = d /\ pc'[c] = IF Enrols(d) THEN "registering" ELSE "recording"
    BY <1>2, <2>1, Comes DEF Inv, Shaped, MeFields, Goto
  <2>5. s \in Stages
    BY <2>2, Places DEF Move, FrozenInv, Fares
  <2>6. d \in All[s]
    BY <2>1, <2>5 DEF Undelivered, All
  <2>7. d.key[1] = "event" => Enrols(d)
    BY <2>5, <2>6, DeliveryTells
  <2> QED BY <2>3, <2>4, <2>7, Places DEF Arriving
<1>11. CASE Register(c)
  <2> DEFINE e == me[c].delivery.event
  <2>1. Move(c, "registering", "recording", {})
    BY <1>11, DeliveryMoves
  <2>2. /\ me'[c].stage = s /\ me'[c].ordinal = me[c].ordinal /\ me'[c].delivery = me[c].delivery
        /\ pc[c] = "registering" /\ pc'[c] = "recording"
    BY <1>3, <2>1 DEF Move, Only
  <2>3. s \in Stages /\ me[c].delivery \in All[s] /\ e \in events
    BY <2>2, Places DEF FrozenInv, Fares
  <2>4. e.payment \in Payments /\ e \in Events(Payments)
    BY <2>3, DeliveryTells, DeliveryTyped DEF Arrived
  <2>5. enrolled'[e.payment] # None
    BY <1>11, <2>4, NoneAssumption DEF Register, Inv, Shaped
  <2>6. e.payment \in Enrolled'
    BY <2>4, <2>5 DEF Enrolled
  <2> QED BY <2>2, <2>6, Places DEF Arriving
<1>12. CASE RecordDelivery(c)
  <2>1. Move(c, "recording", "delivering", {"done", "delivery"})
    BY <1>12, DeliveryMoves
  <2>2. me'[c].stage = s /\ me'[c].ordinal = me[c].ordinal /\ pc'[c] = "delivering"
    BY <1>3, <2>1 DEF Move, Only
  <2> QED BY <2>2, Places DEF Arriving
<1>13. CASE AllDelivered(c)
  <2>1. PICK to \in {"dispatching", "scanning", "analysing"} : Move(c, "delivering", to, {})
    BY <1>13, DeliveryMoves
  <2>2. /\ me'[c].stage = s /\ me'[c].ordinal = me[c].ordinal
        /\ pc'[c] \in {"dispatching", "scanning", "analysing"} /\ pc[c] = "delivering"
    BY <1>3, <2>1 DEF Move, Only
  <2>3. s \in Stages /\ me[c].done \subseteq S
    BY <2>2, Places DEF FrozenInv, Fares
  <2>4. Keys(s) \subseteq S
    BY <1>13, <2>3 DEF AllDelivered, Undelivered, Keys, All
  <2> QED BY <1>1, <2>2, <2>4, Places DEF Arriving
\* It goes on in its stage, or reports.
<1>14. ASSUME pc[c] \notin Outside \cup Receiving, pc'[c] \notin Outside \cup Receiving,
              me'[c].stage = s, me'[c].ordinal \in 1..3
       PROVE  Arriving(c)'
  BY <1>1, <1>14, Places DEF Arriving
<1>15. \A from, to, changed : Move(c, from, to, changed) /\ changed \subseteq MeFields \ {"stage", "ordinal"}
         => pc[c] = from /\ pc'[c] = to /\ me'[c].stage = s /\ me'[c].ordinal \in 1..3
  BY <1>3 DEF Move, Only, Arriving
<1>16. CASE Analyse(c) \/ RecordEvaluation(c) \/ CloseAnalysis(c) \/ Scan(c)
  BY <1>14, <1>15, <1>16, <1>3, Places, PlanningMoves DEF MeFields
<1>17. CASE Enumerate(c) \/ PlanRecovery(c) \/ AttachPlan(c) \/ ClosePlanning(c)
  BY <1>14, <1>15, <1>17, <1>3, Places, PlanningMoves DEF MeFields
<1>18. CASE BeginSimulation(c) \/ LeavePayment(c) \/ TakeUp(c)
  BY <1>14, <1>15, <1>18, <1>3, Places, ScheduleMoves DEF MeFields
<1>19. CASE NextPayment(c)
  BY <1>14, <1>19, <1>3, Places, ScheduleMoves DEF Move, Only
<1>20. CASE PassOver(c)
  <2>1. me[c].ordinal \in 1..2
    BY <1>20 DEF PassOver, Exhausted, Arriving
  <2> QED BY <1>14, <1>20, <2>1, <1>3, Places, ScheduleMoves DEF Move, Only
<1>21. CASE CloseDispatch(c)
  <2>1. me[c].ordinal \in 1..2
    BY <1>2, <1>21, AttemptMoves DEF Move, InTurn, Inside
  <2> QED BY <1>14, <1>21, <2>1, <1>3, Places, AttemptMoves DEF Move, Only
<1>22. CASE FindReserved(c) \/ Reserve(c) \/ Refuse(c) \/ CloseRefused(c)
  BY <1>14, <1>15, <1>22, <1>3, Places, AttemptMoves DEF MeFields
<1>23. CASE RecordOutcome(c) \/ Suppress(c) \/ Reconcile(c)
  BY <1>14, <1>15, <1>23, <1>3, Places, AttemptMoves DEF MeFields
<1>24. CASE CountSteps(c) \/ CountPayment(c)
  <2>1. /\ pc[c] \in {"reporting", "accounting"} /\ pc'[c] = "accounting"
        /\ me'[c].stage = s /\ me'[c].ordinal \in 1..3
    BY <1>15, <1>24, ReportMoves DEF MeFields
  <2> QED BY <1>1, <2>1, Places DEF Arriving
<1>25. CASE ReturnReport(c) \/ Finish(c) \/ Conflict(c) \/ Fail(c)
  BY <1>5, <1>25, FirstMoves DEF Starts
<1> QED BY <1>4, <1>6, <1>8, <1>9, <1>10, <1>11, <1>12, <1>13, <1>16, <1>17, <1>18, <1>19, <1>20,
           <1>21, <1>22, <1>23, <1>24, <1>25, OneStep

ArrivedInv == Arrived /\ \A c \in Coordinators : Arriving(c)

LEMMA ArrivedInvStep ==
  ASSUME Inv, FrozenInv, ArrivedInv, NEW c \in Coordinators, Step(c)
  PROVE  ArrivedInv'
<1>1. Arrived' /\ Arriving(c)'
  BY ArrivedStep, ArrivingStep DEF ArrivedInv
<1>2. ASSUME NEW b \in Coordinators \ {c} PROVE Arriving(b)'
  <2>1. pc'[b] = pc[b] /\ me'[b] = me[b]
    BY OthersStep DEF OthersStay, Inv
  <2> QED BY <2>1, ArrivingOthers DEF ArrivedInv
<1> QED BY <1>1, <1>2 DEF ArrivedInv

LEMMA ArrivedInitially ==
  Init => ArrivedInv
<1> SUFFICES ASSUME Init PROVE ArrivedInv
  OBVIOUS
<1>1. DOMAIN steps = {} /\ DOMAIN scanned = {} /\ Enrolled = {} /\ world \in [Payments -> World]
  BY ScenariosAssumption DEF Init, Enrolled
<1>2. Arrived
  BY <1>1 DEF Arrived, Closed
<1>3. \A c \in Coordinators : Arriving(c)
  BY Places DEF Init, Arriving, NewMe, Stages
<1> QED BY <1>2, <1>3 DEF ArrivedInv

\* What is recorded as delivered was a delivery of its stage, and a stage that
\* is closed has all of them recorded.
THEOREM Arrivals ==
  Spec => []ArrivedInv
<1>1. Inv /\ FrozenInv /\ ArrivedInv /\ [Next]_vars => ArrivedInv'
  <2> SUFFICES ASSUME Inv, FrozenInv, ArrivedInv, [Next]_vars PROVE ArrivedInv'
    OBVIOUS
  <2>1. CASE UNCHANGED vars
    <3>1. UNCHANGED <<world, pc, me, steps, events, scanned, enrolled>> /\ All' = All
      BY <2>1, AllStays DEF vars, db
    <3>2. \A s : Keys(s)' = Keys(s) /\ Closed(s)' = Closed(s)
      BY <3>1 DEF Keys, Closed
    <3>3. Enrolled' = Enrolled
      BY <3>1 DEF Enrolled
    <3>4. \A p \in Enrolled : Entry(p)' = Entry(p)
      BY <3>1 DEF Entry
    <3>5. Arrived'
      BY <3>1, <3>2, <3>3, <3>4 DEF ArrivedInv, Arrived, Recorded
    <3>6. \A c \in Coordinators : Arriving(c)'
      BY <3>1, <3>2, <3>3 DEF ArrivedInv, Arriving
    <3> QED BY <3>5, <3>6 DEF ArrivedInv
  <2>2. CASE Next
    BY <2>2, Steps, ArrivedInvStep
  <2> QED BY <2>1, <2>2
<1> QED BY Invariance, Freezing, ArrivedInitially, <1>1, PTL DEF Spec

-----------------------------------------------------------------------------
(* What a payment's history says                                           *)

LEMMA EventIds ==
  ASSUME NEW p, NEW w
  PROVE  /\ FailedEvent(p, w).id = "event" /\ HistoryEvent(p, w).id = "history"
         /\ LateEvent(p, w).id = "late"
BY DEF FailedEvent, HistoryEvent, LateEvent

Own(p) == {e \in events : SamePayment(e, enrolled[p])}
LateSuccess(p) == LateEvent(p, world[p])

LEMMA OwnEvents ==
  ASSUME Inv, FrozenInv, ArrivedInv, NEW p \in Enrolled
  PROVE  LET w == world[p]
         IN /\ \A e \in Own(p) :
                 \/ e = FailedEvent(p, w)
                 \/ w.extra # "none" /\ e = HistoryEvent(p, w)
                 \/ w.late /\ Closed(Outage) /\ e = LateSuccess(p)
            /\ By(All, Outage) \subseteq events =>
                 /\ FailedEvent(p, w) \in Own(p)
                 /\ w.extra # "none" => HistoryEvent(p, w) \in Own(p)
            /\ By(All, Outage + 1) \subseteq events /\ w.late => LateSuccess(p) \in Own(p)
<1> DEFINE w == world[p]
<1>1. p \in Payments /\ enrolled[p].payment = p /\ enrolled[p].source = "normalized_api"
  BY DEF Inv, Sourced, Enrolled
<1>2. ASSUME NEW e \in Own(p)
      PROVE  \/ e = FailedEvent(p, w)
             \/ w.extra # "none" /\ e = HistoryEvent(p, w)
             \/ w.late /\ Closed(Outage) /\ e = LateSuccess(p)
  <2>1. e \in events /\ e.payment = p
    BY <1>1 DEF Own, SamePayment
  <2>2. PICK t \in Stages : e \in {d.event : d \in All[t]} /\ \A u \in Stages : u < t => Closed(u)
    BY <2>1 DEF FrozenInv, Paths, Closed
  <2>3. PICK d \in All[t] : d.event = e
    BY <2>2
  <2>4. PICK q \in Payments : Delivers(d, q, t)
    BY <2>3, DeliveryIs
  <2>5. /\ \/ e = FailedEvent(q, world[q])
           \/ world[q].extra # "none" /\ e = HistoryEvent(q, world[q])
           \/ t = Outage + 1 /\ world[q].late /\ e = LateSuccess(q)
        /\ e \in {FailedEvent(q, world[q]), HistoryEvent(q, world[q]), LateEvent(q, world[q])}
    BY <2>3, <2>4, DeliveryParts DEF Delivers, LateSuccess
  <2>6. q = p
    BY <2>1, <2>5, EventFields
  <2>7. t = Outage + 1 => Closed(Outage)
    BY <2>2 DEF Outage, Stages
  <2> QED BY <2>5, <2>6, <2>7
<1>3. \A e : e \in {FailedEvent(p, w), HistoryEvent(p, w), LateEvent(p, w)} /\ e \in events => e \in Own(p)
  BY <1>1, EventFields DEF Own, SamePayment
<1>4. \A s \in Stages : \A d : \A t \in Stages : Delivers(d, p, t) /\ t <= s => d.event \in By(All, s)
  BY <1>1, DeliveryIs DEF By
<1>5. 1 \in Stages /\ 2 \in Stages /\ Outage = 1 /\ Outage + 1 = 2
  BY DEF Outage, Stages
<1>6. FailedEvent(p, w) \in By(All, Outage)
  <2>1. Delivers(Delivery("event", 2, FailedEvent(p, w)), p, 1)
    BY <1>5 DEF Delivers
  <2> QED BY <1>4, <1>5, <2>1, DeliveryParts
<1>7. w.extra # "none" => HistoryEvent(p, w) \in By(All, Outage)
  <2>1. w.extra # "none" => Delivers(Delivery("history", 3, HistoryEvent(p, w)), p, 1)
    BY <1>5 DEF Delivers
  <2> QED BY <1>4, <1>5, <2>1, DeliveryParts
<1>8. w.late => LateEvent(p, w) \in By(All, Outage + 1)
  <2>1. w.late => Delivers(Delivery("late", 1, LateEvent(p, w)), p, 2)
    BY <1>5 DEF Delivers
  <2> QED BY <1>4, <1>5, <2>1, DeliveryParts
<1> QED BY <1>2, <1>3, <1>6, <1>7, <1>8 DEF LateSuccess

\* What planning advises for a payment, by its scenario.
Advised(w) ==
  IF w.extra = "success" THEN Advice("no_action", "no_action", "stored_success")
  ELSE IF w.extra = "amount" THEN Advice("escalate", "manual_review", "contradictory_history")
  ELSE BySignal[IF w.label \in Reviewed THEN w.label ELSE "unknown"]

LEMMA HistoryBefore ==
  ASSUME Inv, FrozenInv, ArrivedInv, NEW p \in Enrolled, By(All, Outage) \subseteq events,
         LateSuccess(p) \notin events
  PROVE  LET w == world[p]
             v == History(events, enrolled[p])
         IN /\ v.success <=> w.extra = "success"
            /\ Integrity(v) <=> w.extra # "none"
            /\ Decide(v) = Advised(w)
<1> DEFINE w == world[p]
           v == History(events, enrolled[p])
           f == FailedEvent(p, w)
           h == HistoryEvent(p, w)
<1>1. w.extra \in {"none", "amount", "success"}
  BY DEF ArrivedInv, Arrived, World, Enrolled
<1>2. /\ \A e \in Own(p) : e = f \/ (w.extra # "none" /\ e = h)
      /\ f \in Own(p) /\ (w.extra # "none" => h \in Own(p))
  BY OwnEvents DEF Own
<1>3. /\ f.status = "failed" /\ f.error = w.label /\ f.amount = 1 /\ f.cohort = "card"
      /\ h.cohort = "card"
      /\ w.extra = "amount" => h.status = "failed" /\ h.error = w.label /\ h.amount = 2
      /\ w.extra # "amount" => h.status = "success" /\ h.amount = 1
  BY EventFields
<1>4. /\ v.signal = Signal(enrolled[p])
      /\ v.success <=> \E r \in Own(p) : r.status = "success"
      /\ v.mixed <=> (\E r \in Own(p) : r.status = "success") /\ (\E r \in Own(p) : r.status = "failed")
      /\ v.inconsistent <=> \E r, s \in Own(p) : r.cohort # s.cohort \/ r.amount # s.amount
      /\ v.conflicting <=> \E r, s \in Own(p) :
            SignalledFailure(r) /\ SignalledFailure(s) /\ r.error # s.error
  BY DEF History, Own
<1>5. v.signal = IF w.label \in Reviewed THEN w.label ELSE "unknown"
  BY <1>4 DEF Signal, Inv, Sourced, ArrivedInv, Arrived, Entry
<1> HIDE DEF v, f, h, w
<1>6. v.success <=> w.extra = "success"
  BY <1>1, <1>2, <1>3, <1>4
<1>7. CASE w.extra = "none"
  <2>1. Own(p) = {f}
    BY <1>2, <1>7
  <2>2. ~v.mixed /\ ~v.inconsistent /\ ~v.conflicting
    BY <1>3, <1>4, <2>1
  <2>3. ~Integrity(v) /\ ~v.success
    BY <1>6, <1>7, <2>2 DEF Integrity
  <2>4. Decide(v) = BySignal[v.signal]
    BY <2>3 DEF Decide
  <2> QED BY <1>5, <1>6, <1>7, <2>3, <2>4 DEF Advised, v, w
<1>8. CASE w.extra = "amount"
  <2>1. v.inconsistent
    BY <1>2, <1>3, <1>4, <1>8
  <2>2. Integrity(v) /\ ~v.success
    BY <1>6, <1>8, <2>1 DEF Integrity
  <2>3. Decide(v) = Advice("escalate", "manual_review", "contradictory_history")
    BY <2>2 DEF Decide
  <2> QED BY <1>6, <1>8, <2>2, <2>3 DEF Advised, v, w
<1>9. CASE w.extra = "success"
  <2>1. v.mixed /\ v.success
    BY <1>2, <1>3, <1>4, <1>9
  <2>2. Decide(v) = Advice("no_action", "no_action", "stored_success")
    BY <2>1 DEF Decide
  <2> QED BY <1>6, <1>9, <2>1, <2>2 DEF Advised, Integrity, v, w
<1> QED BY <1>1, <1>7, <1>8, <1>9

LEMMA HistoryAfter ==
  ASSUME Inv, FrozenInv, ArrivedInv, NEW p \in Enrolled, LateSuccess(p) \in events
  PROVE  History(events, enrolled[p]).success
<1>1. LateSuccess(p) \in Own(p) /\ LateSuccess(p).status = "success"
  BY EventFields DEF Own, SamePayment, LateSuccess, Inv, Sourced, Enrolled
<1> QED BY <1>1 DEF History, Own

\* The late success arrives in the stage after the outage.
LEMMA LateArrival ==
  ASSUME Inv, FrozenInv, ArrivedInv, NEW p \in Enrolled
  PROVE  /\ LateSuccess(p) \in events => world[p].late /\ Closed(Outage)
         /\ By(All, Outage + 1) \subseteq events /\ world[p].late => LateSuccess(p) \in events
<1>1. LateSuccess(p) \in events => LateSuccess(p) \in Own(p)
  BY EventFields DEF Own, SamePayment, LateSuccess, Inv, Sourced, Enrolled
<1>2. LateSuccess(p) # FailedEvent(p, world[p]) /\ LateSuccess(p) # HistoryEvent(p, world[p])
  BY EventIds DEF LateSuccess
<1> QED BY <1>1, <1>2, OwnEvents DEF Own

=============================================================================
