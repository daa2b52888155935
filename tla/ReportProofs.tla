---------------------------- MODULE ReportProofs ----------------------------
(***************************************************************************)
(* The report of a simulation is the one its scenario determines, for any  *)
(* number of coordinators and payments, any scenarios and any number of    *)
(* crashes.  On top of what SimulationProofs says of the coordinators, the *)
(* stages and the arrivals: plans are those of their stage (PlannedInv),   *)
(* attempts are the foreseen ones or on their way there (TrackedInv), and  *)
(* the report counts them (ReportInv).                                     *)
(***************************************************************************)
EXTENDS SimulationProofs, FiniteSetTheorems

-----------------------------------------------------------------------------
(* What is planned                                                         *)

\* What is known of a reachable state so far, and of the one after it.
Base == Inv /\ FrozenInv /\ ArrivedInv

LEMMA BaseStep ==
  ASSUME Base, NEW c \in Coordinators, Step(c)
  PROVE  Base'
BY InvStep, FrozenStep, ArrivedInvStep DEF Base

LEMMA NewKeys ==
  ASSUME Base, NEW c \in Coordinators, Step(c), NEW key \in DOMAIN steps' \ DOMAIN steps,
         key[1] \notin DeliveryKinds
  PROVE  /\ key[1] = "stage" => CloseStage(c) /\ key = Checkpoint("stage", me[c].stage)
         /\ key[1] = "planning" => ClosePlanning(c) /\ key = Checkpoint("planning", me[c].stage)
         /\ key[1] = "eligibility" => (Reserve(c) \/ Refuse(c)) /\ key = AttemptKey("eligibility", c)
         /\ key[1] = "dispatch" => (CloseRefused(c) \/ CloseDispatch(c)) /\ key = AttemptKey("dispatch", c)
         /\ key[1] = "suppressed" => Suppress(c) /\ key = AttemptKey("suppressed", c)
<1>1. Adds(c, key)
  BY WrittenStep DEF Written, Base
<1>2. ~RecordDelivery(c)
  <2>1. SUFFICES ASSUME RecordDelivery(c) PROVE FALSE
    OBVIOUS
  <2>2. pc[c] = "recording" /\ AppendStep(me[c].delivery.key, "delivered")
    BY <2>1 DEF RecordDelivery, Record
  <2>3. key = me[c].delivery.key
    BY <2>2, AppendKeeps DEF Same
  <2> QED BY <2>2, <2>3 DEF Base, Inv, Placed
<1> QED BY <1>1, <1>2, NewKeyKinds

LEMMA HistoryIsEvidence ==
  ASSUME NEW rows, NEW e
  PROVE  History(rows, e) \in Evidence
<1>1. Signal(e) \in Signals
  BY DEF Signal, Signals
<1> QED BY <1>1 DEF History, Evidence

LEMMA CheckpointKey ==
  ASSUME NEW kind, NEW s
  PROVE  Checkpoint(kind, s)[1] = kind /\ \A t : Checkpoint(kind, s) = Checkpoint(kind, t) => s = t
BY DEF Checkpoint

PlanOf(p) == [advice |-> Advised(world[p]), created |-> StageTime(Outage)]

AllAttached == \A p \in Payments : world[p].seen => attached[p] # None

\* Where a coordinator is past the planning of its stage.
Simulating == {"planned", "dispatching"} \cup Inside

\* A coordinator that plans the outage leaves out no payment, and one that is
\* past it finds every payment of the scan attached to its plan.
PlanningAt(c) ==
  /\ pc[c] \in {"planning", "attaching"} =>
       /\ me[c].left \subseteq Candidates(me[c].stage)
       /\ me[c].stage = Outage =>
            \A p \in Payments : world[p].seen =>
              p \in me[c].left \/ attached[p] # None \/ (pc[c] = "attaching" /\ me[c].payment = p)
  /\ pc[c] = "attaching" => plans[me[c].payment] # None
  /\ pc[c] \in Simulating /\ me[c].stage >= Outage => AllAttached

Planned ==
  /\ \A p \in Payments : plans[p] # None => world[p].seen /\ plans[p] = PlanOf(p)
  /\ Closed(Outage) \/ Checkpoint("planning", Outage) \in DOMAIN steps => AllAttached

PlannedInv == Planned /\ \A c \in Coordinators : PlanningAt(c)

\* Plans and references stay.
LEMMA PlansGrow ==
  ASSUME Base, NEW c \in Coordinators, Step(c)
  PROVE  /\ \A p \in Payments : /\ plans[p] # None => plans'[p] = plans[p]
                                /\ attached[p] # None => attached'[p] = attached[p]
         /\ AllAttached => AllAttached'
         /\ \A s : Candidates(s) \subseteq Candidates(s)'
<1>1. Shaped /\ Timed /\ StoresStay(c)
  BY StoresStep DEF Base, Inv
<1>2. ASSUME NEW p \in Payments
      PROVE  /\ plans[p] # None => plans'[p] = plans[p]
             /\ attached[p] # None => attached'[p] = attached[p]
  <2>1. plans[p] # None => plans'[p] = plans[p]
    BY <1>1, <1>2 DEF StoresStay, PlanRecovery, Shaped
  <2>2. attached[p] # None => attached'[p] = attached[p]
    BY <1>1, <1>2 DEF StoresStay, AttachPlan, Shaped, Timed
  <2> QED BY <2>1, <2>2
<1>3. \A p \in Enrolled : p \in Enrolled' /\ enrolled'[p] = enrolled[p]
  BY EnrolledGrows DEF Base
<1>4. \A s : Candidates(s) \subseteq Candidates(s)'
  BY <1>1, <1>3 DEF Candidates, Enrolled, StoresStay
<1>5. AllAttached => AllAttached'
  BY <1>1, <1>2 DEF AllAttached, StoresStay
<1> QED BY <1>2, <1>4, <1>5

\* The outage's candidates, and no other stage has any.
LEMMA CandidatesAre ==
  ASSUME Base
  PROVE  /\ \A s : \A p \in Candidates(s) : s = Outage /\ p \in Enrolled /\ world[p].seen
         /\ Keys(Outage) \subseteq DOMAIN steps =>
              /\ Enrolled = Payments
              /\ \A p \in Payments : world[p].seen => p \in Candidates(Outage)
<1>1. \A p \in Enrolled : enrolled[p].window = Outage
  BY DEF Base, ArrivedInv, Arrived, Entry
<1>2. ASSUME Keys(Outage) \subseteq DOMAIN steps, NEW p \in Payments PROVE p \in Enrolled
  <2> DEFINE d == Delivery("event", 2, FailedEvent(p, world[p]))
  <2>1. Delivers(d, p, Outage) /\ Outage \in Stages
    BY DEF Delivers, Outage, Stages
  <2>2. d \in All[Outage] /\ d.key = <<"event", p, 0>>
    BY <2>1, DeliveryIs, DeliveryParts, EventFields
  <2>3. <<"event", p, 0>> \in DOMAIN steps
    BY <1>2, <2>2 DEF Keys
  <2> QED BY <2>3 DEF Base, ArrivedInv, Arrived
<1> QED BY <1>1, <1>2 DEF Candidates, Enrolled

\* A plan that is made is the one the scenario asks for.
LEMMA PlanMade ==
  ASSUME Base, Planned, NEW c \in Coordinators, PlanningAt(c), PlanRecovery(c)
  PROVE  \E q \in me[c].left :
           /\ me'[c].payment = q /\ q \in Payments
           /\ plans'[q] = PlanOf(q) /\ world[q].seen /\ plans'[q] # None
           /\ \A p \in Payments \ {q} : plans'[p] = plans[p]
<1>1. PICK q \in me[c].left :
        /\ plans' = [plans EXCEPT ![q] =
                       IF @ # None THEN @
                       ELSE [advice |-> Decide(History(events, enrolled[q])),
                             created |-> StageTime(me[c].stage)]]
        /\ me' = [me EXCEPT ![c].payment = q, ![c].left = @ \ {q}]
  BY DEF PlanRecovery
<1>2. pc[c] = "planning" /\ Shaped /\ Timed /\ DOMAIN me[c] = MeFields
  BY DEF PlanRecovery, Base, Inv, Placed
<1>3. q \in Candidates(me[c].stage)
  BY <1>1, <1>2 DEF PlanningAt
<1>4. me[c].stage = Outage /\ q \in Enrolled /\ q \in Payments /\ world[q].seen
  BY <1>3, CandidatesAre DEF Enrolled
<1>5. me'[c].payment = q
  BY <1>1, <1>2 DEF Shaped, MeFields
<1>6. \A p \in Payments \ {q} : plans'[p] = plans[p]
  BY <1>1, <1>2 DEF Shaped
<1>7. CASE plans[q] # None
  <2>1. plans'[q] = plans[q]
    BY <1>1, <1>2, <1>4, <1>7 DEF Shaped
  <2> QED BY <1>4, <1>5, <1>6, <1>7, <2>1 DEF Planned
<1>8. CASE plans[q] = None
  <2> DEFINE v == History(events, enrolled[q])
  <2>1. plans'[q] = [advice |-> Decide(v), created |-> StageTime(Outage)]
    BY <1>1, <1>2, <1>4, <1>8 DEF Shaped
  <2>2. ~Closed(Outage)
    BY <1>2, <1>4, <1>8 DEF Planned, AllAttached, Timed
  <2>3. By(All, Outage) \subseteq events
    BY <1>2, <1>4, Places DEF Base, FrozenInv, Fares
  <2>4. LateSuccess(q) \notin events
    BY <1>4, <2>2, LateArrival DEF Base
  <2>5. Decide(v) = Advised(world[q])
    BY <1>4, <2>3, <2>4, HistoryBefore DEF Base
  <2>6. v \in Evidence /\ Outage \in Stages
    BY HistoryIsEvidence DEF Outage, Stages
  <2> HIDE DEF v
  <2>7. plans'[q] \in Plans
    BY <2>1, <2>6 DEF Plans
  <2>8. plans'[q] # None
    BY <2>7, NoneAssumption
  <2> QED BY <1>4, <1>5, <1>6, <2>1, <2>5, <2>8 DEF PlanOf
<1> QED BY <1>7, <1>8

LEMMA PlannedStep ==
  ASSUME Base, Planned, NEW c \in Coordinators, PlanningAt(c), Step(c)
  PROVE  Planned'
<1>1. /\ StoresStay(c) /\ DOMAIN steps \subseteq DOMAIN steps'
      /\ (AllAttached => AllAttached')
  BY StoresStep, StepsGrow, PlansGrow DEF Base
<1>2. ASSUME NEW p \in Payments, plans'[p] # None PROVE (world[p].seen /\ plans[p] = PlanOf(p))'
  <2>1. PlanOf(p)' = PlanOf(p) /\ world' = world
    BY <1>1 DEF PlanOf, StoresStay
  <2>2. CASE plans'[p] = plans[p]
    BY <1>2, <2>1, <2>2 DEF Planned
  <2>3. CASE plans'[p] # plans[p]
    <3>1. PlanRecovery(c)
      BY <1>1, <2>3 DEF StoresStay
    <3>2. plans'[p] = PlanOf(p) /\ world[p].seen
      BY <2>3, <3>1, PlanMade
    <3> QED BY <2>1, <3>2
  <2> QED BY <2>2, <2>3
<1>3. ASSUME NEW kind \in {"stage", "planning"}, Checkpoint(kind, Outage) \in DOMAIN steps'
      PROVE  AllAttached'
  <2> DEFINE key == Checkpoint(kind, Outage)
  <2>1. CASE key \in DOMAIN steps
    <3>1. Closed(Outage) \/ Checkpoint("planning", Outage) \in DOMAIN steps
      BY <1>3, <2>1 DEF Closed
    <3> QED BY <1>1, <3>1 DEF Planned
  <2>2. CASE key \notin DOMAIN steps
    <3>1. key[1] = kind /\ key[1] \notin DeliveryKinds
      BY <1>3, CheckpointKey DEF DeliveryKinds
    <3>2. \/ CloseStage(c) /\ key = Checkpoint("stage", me[c].stage)
          \/ ClosePlanning(c) /\ key = Checkpoint("planning", me[c].stage)
      BY <1>3, <2>2, <3>1, NewKeys
    <3>3. me[c].stage = Outage
      BY <3>2 DEF Checkpoint
    <3>4. CASE CloseStage(c)
      <4>1. pc[c] = "dispatching" /\ me[c].stage >= Outage
        BY <3>3, <3>4 DEF CloseStage, Outage
      <4> QED BY <1>1, <4>1 DEF PlanningAt, Simulating
    <3>5. CASE ClosePlanning(c)
      <4>1. pc[c] = "planning" /\ me[c].left = {}
        BY <3>5 DEF ClosePlanning
      <4>2. AllAttached
        BY <3>3, <4>1 DEF PlanningAt, AllAttached
      <4> QED BY <1>1, <4>2
    <3> QED BY <3>2, <3>4, <3>5
  <2> QED BY <2>1, <2>2
<1>4. Closed(Outage)' => AllAttached'
  BY <1>3 DEF Closed
<1>5. Checkpoint("planning", Outage) \in DOMAIN steps' => AllAttached'
  BY <1>3
<1> QED BY <1>2, <1>4, <1>5 DEF Planned

\* A coordinator that stays where it is.
LEMMA PlanningOthers ==
  ASSUME Base, NEW c \in Coordinators, Step(c), NEW b \in Coordinators, PlanningAt(b),
         pc'[b] = pc[b], me'[b] = me[b]
  PROVE  PlanningAt(b)'
<1>1. /\ world' = world /\ (AllAttached => AllAttached')
      /\ \A s : Candidates(s) \subseteq Candidates(s)'
      /\ \A p \in Payments : /\ plans[p] # None => plans'[p] = plans[p]
                             /\ attached[p] # None => attached'[p] = attached[p]
  BY StoresStep, PlansGrow DEF StoresStay
<1>2. pc[b] = "attaching" => me[b].payment \in Payments
  BY DEF Base, Inv, Placed
<1>3. PICK s : s = me[b].stage /\ s = me'[b].stage
  OBVIOUS
<1>4. Candidates(s) \subseteq Candidates(s)'
  BY <1>1
<1> QED BY <1>1, <1>2, <1>3, <1>4 DEF PlanningAt

LEMMA PlanningStep ==
  ASSUME Base, Planned, NEW c \in Coordinators, PlanningAt(c), Step(c)
  PROVE  PlanningAt(c)'
<1>1. /\ world' = world /\ (AllAttached => AllAttached')
      /\ \A p \in Payments : /\ plans[p] # None => plans'[p] = plans[p]
                             /\ attached[p] # None => attached'[p] = attached[p]
  BY StoresStep, PlansGrow DEF StoresStay
<1>2. Shaped /\ DOMAIN me[c] = MeFields /\ {"stage", "left", "payment"} \subseteq MeFields
  BY DEF Base, Inv, Placed, MeFields
<1>3. Simulating = {"planned", "dispatching", "considering", "reserving", "refused", "modelling",
                    "observed", "suppressed", "reconciled"}
  BY DEF Simulating, Inside
<1>4. pc[c] \notin Outside \cup Receiving =>
        /\ me[c].stage \in Stages /\ Keys(me[c].stage) \subseteq DOMAIN steps
        /\ \A u \in Stages : u < me[c].stage => Closed(u)
  BY DEF Base, FrozenInv, Fares, ArrivedInv, Arriving, Closed
<1>5. Outage \in Stages /\ \A u \in Stages : u >= Outage <=> u = Outage \/ Outage < u
  BY DEF Outage, Stages
\* Nothing is asked of where it comes.
<1>6. ASSUME pc'[c] \notin {"planning", "attaching"} \cup Simulating PROVE PlanningAt(c)'
  BY <1>3, <1>6 DEF PlanningAt
<1>7. ASSUME pc'[c] \in Simulating, me'[c].stage >= Outage => AllAttached' PROVE PlanningAt(c)'
  BY <1>3, <1>7 DEF PlanningAt
<1>8. CASE LoseLock(c)
  BY <1>8, FirstMoves, PlanningOthers DEF Base
<1>9. CASE \/ Acquire(c) \/ Start(c) \/ ReturnReport(c) \/ Finish(c) \/ Conflict(c) \/ Fail(c)
  BY <1>3, <1>6, <1>9, FirstMoves DEF Base, Move, Starts
<1>10. CASE Resume(c) \/ CloseStage(c)
  <2>1. \E s \in Int : \E done : EnterStage(c, s, done)
    BY <1>2, <1>10 DEF Resume, CloseStage, Base, Inv, Placed
  <2> QED BY <1>3, <1>6, <2>1, EnteringMoves DEF Base, Enters
<1>11. CASE Deliver(c) \/ Register(c) \/ RecordDelivery(c)
  BY <1>3, <1>6, <1>11, DeliveryMoves DEF Base, Move
<1>12. CASE AllDelivered(c)
  <2>1. PICK to \in {"dispatching", "scanning", "analysing"} : Move(c, "delivering", to, {})
    BY <1>12, DeliveryMoves DEF Base
  <2>2. me'[c].stage = me[c].stage /\ pc'[c] \in {"dispatching", "scanning", "analysing"}
    BY <1>2, <2>1 DEF Move, Only
  <2>3. CASE pc'[c] = "dispatching"
    <3>1. me[c].stage = -1
      BY <1>2, <1>12, <2>3 DEF AllDelivered, Local, Goto, Shaped
    <3> QED BY <1>3, <1>7, <2>2, <2>3, <3>1 DEF Outage
  <2> QED BY <1>3, <1>6, <2>2, <2>3
<1>13. CASE Analyse(c) \/ RecordEvaluation(c) \/ CloseAnalysis(c)
  BY <1>3, <1>6, <1>13, PlanningMoves DEF Base, Move
<1>14. CASE Scan(c)
  <2>1. PICK to \in {"planned", "enumerating"} : Move(c, "scanning", to, {})
    BY <1>14, PlanningMoves DEF Base
  <2>2. me'[c].stage = me[c].stage /\ pc'[c] \in {"planned", "enumerating"} /\ pc[c] = "scanning"
    BY <1>2, <2>1 DEF Move, Only
  <2>3. CASE pc'[c] = "planned"
    <3>1. Checkpoint("planning", me[c].stage) \in me[c].done
      BY <1>2, <1>14, <2>3 DEF Scan, Goto, Shaped
    <3>2. Checkpoint("planning", me[c].stage) \in DOMAIN steps
      BY <3>1 DEF Base, FrozenInv, Fares
    <3>3. me[c].stage >= Outage => AllAttached
      BY <1>4, <1>5, <2>2, <3>2, Places DEF Planned
    <3> QED BY <1>1, <1>3, <1>7, <2>2, <2>3, <3>3
  <2> QED BY <1>3, <1>6, <2>2, <2>3
\* It plans.
<1>15. CASE Enumerate(c)
  <2>1. Move(c, "enumerating", "planning", {"left"}) /\ me'[c].left = Candidates(me[c].stage)
    BY <1>15, PlanningMoves DEF Base
  <2>2. me'[c].stage = me[c].stage /\ pc'[c] = "planning" /\ pc[c] = "enumerating"
    BY <1>2, <2>1 DEF Move, Only
  <2>3. UNCHANGED <<world, enrolled>>
    BY <1>15 DEF Enumerate, Local, Keep, db
  <2>4. me'[c].left = Candidates(me[c].stage)'
    BY <2>1, <2>2, <2>3 DEF Candidates
  <2>5. me[c].stage = Outage => \A p \in Payments : world[p].seen => p \in me'[c].left
    BY <1>4, <2>1, <2>2, CandidatesAre, Places
  <2> QED BY <1>1, <1>3, <2>2, <2>4, <2>5 DEF PlanningAt
<1>16. CASE PlanRecovery(c)
  <2>1. /\ Move(c, "planning", "attaching", {"payment", "left"})
        /\ me'[c].left = me[c].left \ {me'[c].payment}
    BY <1>16, PlanningMoves DEF Base
  <2>2. me'[c].stage = me[c].stage /\ pc'[c] = "attaching" /\ pc[c] = "planning"
    BY <1>2, <2>1 DEF Move, Only
  <2>3. plans'[me'[c].payment] # None
    BY <1>16, PlanMade
  <2>4. UNCHANGED <<world, enrolled, attached>>
    BY <1>16 DEF PlanRecovery, Keep
  <2>5. me'[c].left \subseteq Candidates(me[c].stage)'
    BY <2>1, <2>2, <2>4 DEF Candidates, PlanningAt
  <2>6. me[c].stage = Outage => \A p \in Payments : world[p].seen =>
          p \in me'[c].left \/ attached[p] # None \/ me'[c].payment = p
    BY <2>1, <2>2 DEF PlanningAt
  <2> QED BY <1>3, <2>2, <2>3, <2>4, <2>5, <2>6 DEF PlanningAt
<1>17. CASE AttachPlan(c)
  <2> DEFINE q == me[c].payment
  <2>1. Move(c, "attaching", "planning", {})
    BY <1>17, PlanningMoves DEF Base
  <2>2. /\ me'[c].stage = me[c].stage /\ me'[c].left = me[c].left
        /\ pc'[c] = "planning" /\ pc[c] = "attaching"
    BY <1>2, <2>1 DEF Move, Only
  <2>3. UNCHANGED <<world, enrolled>> /\ attached' = [attached EXCEPT ![q] = plans[q]]
    BY <1>17 DEF AttachPlan, Keep
  <2>4. me'[c].left \subseteq Candidates(me[c].stage)'
    BY <2>2, <2>3 DEF Candidates, PlanningAt
  <2>5. q \in Payments /\ plans[q] # None
    BY <2>2 DEF Base, Inv, Placed, PlanningAt
  <2>6. attached'[q] # None
    BY <1>2, <2>3, <2>5 DEF Shaped
  <2>7. me[c].stage = Outage => \A p \in Payments : world[p].seen => p \in me[c].left \/ attached'[p] # None
    BY <1>1, <2>2, <2>6 DEF PlanningAt
  <2> QED BY <1>3, <2>2, <2>3, <2>4, <2>7 DEF PlanningAt
<1>18. CASE ClosePlanning(c)
  <2>1. Move(c, "planning", "planned", {})
    BY <1>18, PlanningMoves DEF Base
  <2>2. me'[c].stage = me[c].stage /\ pc'[c] = "planned" /\ pc[c] = "planning" /\ me[c].left = {}
    BY <1>2, <1>18, <2>1 DEF Move, Only, ClosePlanning
  <2>3. me[c].stage = Outage => AllAttached
    BY <2>2 DEF PlanningAt, AllAttached
  <2>4. me[c].stage >= Outage => AllAttached
    BY <1>4, <1>5, <2>2, <2>3, Places DEF Planned
  <2> QED BY <1>1, <1>3, <1>7, <2>2, <2>4
\* It simulates.
<1>19. ASSUME pc[c] \in Simulating, pc'[c] \in Simulating, me'[c].stage = me[c].stage
       PROVE  PlanningAt(c)'
  BY <1>1, <1>7, <1>19 DEF PlanningAt
<1>20. \A from, to, changed : Move(c, from, to, changed) /\ "stage" \notin changed
         => pc[c] = from /\ pc'[c] = to /\ me'[c].stage = me[c].stage
  BY <1>2 DEF Move, Only
<1>21. CASE BeginSimulation(c) \/ NextPayment(c) \/ LeavePayment(c) \/ PassOver(c) \/ TakeUp(c)
  BY <1>3, <1>19, <1>20, <1>21, ScheduleMoves DEF Base
<1>22. CASE FindReserved(c) \/ Reserve(c) \/ Refuse(c) \/ CloseRefused(c)
  BY <1>3, <1>19, <1>20, <1>22, AttemptMoves DEF Base
<1>23. CASE RecordOutcome(c) \/ Suppress(c) \/ Reconcile(c) \/ CloseDispatch(c)
  BY <1>3, <1>19, <1>20, <1>23, AttemptMoves DEF Base
<1>24. CASE CountSteps(c) \/ CountPayment(c)
  BY <1>3, <1>6, <1>20, <1>24, ReportMoves DEF Base
<1> QED BY <1>8, <1>9, <1>10, <1>11, <1>12, <1>13, <1>14, <1>15, <1>16, <1>17, <1>18, <1>21, <1>22,
           <1>23, <1>24, OneStep

LEMMA PlannedInvStep ==
  ASSUME Base, PlannedInv, NEW c \in Coordinators, Step(c)
  PROVE  PlannedInv'
<1>1. Planned' /\ PlanningAt(c)'
  BY PlannedStep, PlanningStep DEF PlannedInv
<1>2. ASSUME NEW b \in Coordinators \ {c} PROVE PlanningAt(b)'
  <2>1. pc'[b] = pc[b] /\ me'[b] = me[b]
    BY OthersStep DEF OthersStay, Base, Inv
  <2> QED BY <2>1, PlanningOthers DEF PlannedInv
<1> QED BY <1>1, <1>2 DEF PlannedInv

LEMMA PlannedStutters ==
  ASSUME PlannedInv, UNCHANGED vars
  PROVE  PlannedInv'
<1>1. UNCHANGED <<world, pc, me, steps, enrolled, plans, attached>>
  BY DEF vars, db
<1>2. \A s : Candidates(s)' = Candidates(s)
  BY <1>1 DEF Candidates
<1>3. AllAttached' = AllAttached /\ Closed(Outage)' = Closed(Outage)
  BY <1>1 DEF AllAttached, Closed
<1>4. \A p : PlanOf(p)' = PlanOf(p)
  BY <1>1 DEF PlanOf
<1>5. Planned'
  BY <1>1, <1>3, <1>4 DEF PlannedInv, Planned
<1>6. ASSUME NEW c \in Coordinators PROVE PlanningAt(c)'
  <2>1. PlanningAt(c)
    BY DEF PlannedInv
  <2>2. PICK s : s = me[c].stage /\ s = me'[c].stage
    BY <1>1
  <2> QED BY <1>1, <1>2, <1>3, <2>1, <2>2 DEF PlanningAt
<1> QED BY <1>5, <1>6 DEF PlannedInv

LEMMA PlannedInitially ==
  Init => PlannedInv
<1> SUFFICES ASSUME Init PROVE PlannedInv
  OBVIOUS
<1>1. \A p \in Payments : plans[p] = None
  BY DEF Init
<1>2. Planned
  BY <1>1 DEF Init, Planned, Closed
<1>3. \A c \in Coordinators : PlanningAt(c)
  BY DEF Init, PlanningAt, Simulating, Inside
<1> QED BY <1>2, <1>3 DEF PlannedInv

\* Every payment of the outage's scan is planned once, by the outage's evidence
\* and not by what arrives later, and attached before an attempt is considered.
THEOREM Plannings ==
  Spec => []PlannedInv
<1>1. Inv /\ FrozenInv /\ ArrivedInv /\ PlannedInv /\ [Next]_vars => PlannedInv'
  BY PlannedInvStep, PlannedStutters, Steps DEF Base
<1> QED BY Invariance, Freezing, Arrivals, PlannedInitially, <1>1, PTL DEF Spec

-----------------------------------------------------------------------------
(* What a scenario leads to                                                *)

\* How long a payment's plan makes its attempts wait, and when they fall due.
Delay(w) == IF w.seen THEN Seconds(Advised(w)) ELSE 0
DueAt(w, k) == StageTime(Outage) + (IF k = 1 THEN Delay(w) ELSE 3 * Delay(w))

LEMMA Times ==
  /\ StageTime(Outage) = 2220 /\ ReconcileSeconds = 60
  /\ Cutoff(Outage) = 3120 /\ Cutoff(1) = 3120 /\ Cutoff(2) = 4020 /\ Cutoff(3) = 4920
BY DEF StageTime, Cutoff, Outage, ReconcileSeconds

LEMMA AdvisedIs ==
  ASSUME NEW w \in World
  PROVE  LET retried == w.extra = "none" /\ w.label \in {"network_timeout", "issuer_unavailable"}
             a == Advised(w)
         IN /\ a.action \in Retries <=> retried
            /\ retried => a.attempts = 2
            /\ retried => Seconds(a) = IF w.label = "network_timeout" THEN 30 ELSE 480
            /\ ~retried => Seconds(a) = 0
<1>1. /\ w.label \in {"network_timeout", "issuer_unavailable", "insufficient_funds",
                      "incorrect_pin", "UNMAPPED"}
      /\ w.extra \in {"none", "amount", "success"}
  BY DEF World, Reviewed
<1>2. /\ BySignal["incorrect_pin"] = Advice("no_action", "no_action", "authentication_failure")
      /\ BySignal["insufficient_funds"] = Advice("notify_customer", "manual_review", "customer_funding_action")
      /\ BySignal["network_timeout"] = RetryAdvice("retry_now", "transient_network", 30)
      /\ BySignal["issuer_unavailable"] = RetryAdvice("wait_and_retry", "issuer_health_wait", 480)
      /\ BySignal["unknown"] = Advice("escalate", "manual_review", "unknown_signal")
  BY DEF BySignal
<1>3. \A action, decision, reason :
        /\ Advice(action, decision, reason).action = action
        /\ Seconds(Advice(action, decision, reason)) = 0
  BY DEF Advice, Seconds, NoDelay
<1>4. \A action, reason : \A delay \in {30, 480} :
        /\ RetryAdvice(action, reason, delay).action = action
        /\ RetryAdvice(action, reason, delay).attempts = 2
        /\ Seconds(RetryAdvice(action, reason, delay)) = delay
  BY DEF RetryAdvice, Seconds, NoDelay
<1>5. CASE w.extra = "none" /\ w.label = "network_timeout"
  <2>1. Advised(w) = BySignal["network_timeout"]
    BY <1>5 DEF Advised, Reviewed
  <2> QED BY <1>2, <1>4, <1>5, <2>1 DEF Retries
<1>6. CASE w.extra = "none" /\ w.label = "issuer_unavailable"
  <2>1. Advised(w) = BySignal["issuer_unavailable"]
    BY <1>6 DEF Advised, Reviewed
  <2> QED BY <1>2, <1>4, <1>6, <2>1 DEF Retries
<1>7. CASE w.extra = "none" /\ w.label \notin {"network_timeout", "issuer_unavailable"}
  <2>1. Advised(w) \in {BySignal["insufficient_funds"], BySignal["incorrect_pin"], BySignal["unknown"]}
    BY <1>1, <1>7 DEF Advised, Reviewed
  <2> QED BY <1>2, <1>3, <1>7, <2>1 DEF Retries
<1>8. CASE w.extra # "none"
  <2>1. \/ Advised(w) = Advice("no_action", "no_action", "stored_success")
        \/ Advised(w) = Advice("escalate", "manual_review", "contradictory_history")
    BY <1>1, <1>8 DEF Advised
  <2> QED BY <1>3, <1>8, <2>1 DEF Retries
<1> QED BY <1>5, <1>6, <1>7, <1>8

LEMMA Foretold ==
  ASSUME NEW w \in World
  PROVE  LET E == ExpectedAttempts(w)
             first == ExpectedAttempt(w, DueAt(w, 1))
             second == ExpectedAttempt(w, DueAt(w, 2))
         IN /\ ExpectedReason(w) # "eligible" => E = <<>>
            /\ ExpectedReason(w) = "eligible" =>
                 /\ w.seen /\ w.extra = "none"
                 /\ w.label \in {"network_timeout", "issuer_unavailable"}
                 /\ Delay(w) = IF w.label = "network_timeout" THEN 30 ELSE 480
                 /\ \/ /\ E = <<first, second>> /\ first.state = "failed"
                       /\ w.label = "issuer_unavailable" => ~w.late
                    \/ /\ E = <<first>>
                       /\ first.state # "failed" \/ (w.late /\ w.label = "issuer_unavailable")
            /\ Delay(w) \in {0, 30, 480}
            /\ DueAt(w, 1) + 60 <= 3120
            /\ w.label # "issuer_unavailable" => DueAt(w, 2) + 60 <= 3120
            /\ DueAt(w, 2) + 60 <= 4020
            /\ DueAt(w, 2) + 60 > 3120 => w.label = "issuer_unavailable"
<1> DEFINE E == ExpectedAttempts(w)
           first == ExpectedAttempt(w, DueAt(w, 1))
           second == ExpectedAttempt(w, DueAt(w, 2))
<1>1. Delay(w) \in {0, 30, 480} /\ (Delay(w) = 480 => w.label = "issuer_unavailable")
  BY AdvisedIs DEF Delay
<1>2. /\ DueAt(w, 1) = 2220 + Delay(w) /\ DueAt(w, 2) = 2220 + 3 * Delay(w)
  BY Times DEF DueAt
<1>3. /\ DueAt(w, 1) + 60 <= 3120
      /\ w.label # "issuer_unavailable" => DueAt(w, 2) + 60 <= 3120
      /\ DueAt(w, 2) + 60 <= 4020
      /\ DueAt(w, 2) + 60 > 3120 => w.label = "issuer_unavailable"
  BY <1>1, <1>2
<1>4. ExpectedReason(w) # "eligible" => E = <<>>
  BY DEF ExpectedAttempts
<1>5. ASSUME ExpectedReason(w) = "eligible"
      PROVE  /\ w.seen /\ w.extra = "none"
             /\ w.label \in {"network_timeout", "issuer_unavailable"}
             /\ Delay(w) = IF w.label = "network_timeout" THEN 30 ELSE 480
             /\ \/ /\ E = <<first, second>> /\ first.state = "failed"
                   /\ w.label = "issuer_unavailable" => ~w.late
                \/ /\ E = <<first>>
                   /\ first.state # "failed" \/ (w.late /\ w.label = "issuer_unavailable")
  <2>1. w.seen /\ w.extra = "none" /\ w.label \in {"network_timeout", "issuer_unavailable"}
    BY <1>5 DEF ExpectedReason, World
  <2> DEFINE wait == IF w.label = "network_timeout" THEN 30 ELSE 480
             x == ExpectedAttempt(w, StageTime(Outage) + wait)
             y == ExpectedAttempt(w, x.at + 2 * wait)
             overtaken == w.late /\ y.at + ReconcileSeconds > Cutoff(Outage)
  <2>2. Delay(w) = wait
    BY <2>1, AdvisedIs DEF Delay
  <2>3. /\ x = first /\ x.at = 2220 + wait
    BY <1>2, <2>2, Times DEF ExpectedAttempt, DueAt
  <2>4. y = second /\ y.at = 2220 + 3 * wait
    <3>1. x.at + 2 * wait = DueAt(w, 2)
      BY <1>2, <2>2, <2>3
    <3> QED BY <1>2, <2>2, <3>1 DEF ExpectedAttempt
  <2>5. overtaken <=> w.late /\ w.label = "issuer_unavailable"
    BY <2>1, <2>4, Times
  <2>6. E = IF x.state = "failed" /\ ~overtaken THEN <<x, y>> ELSE <<x>>
    BY <1>5, Zenon DEF ExpectedAttempts
  <2> HIDE DEF x, y, overtaken, first, second, E
  <2> QED BY <2>1, <2>2, <2>3, <2>4, <2>5, <2>6
<1> QED BY <1>1, <1>3, <1>4, <1>5

\* What blocks an attempt that falls due now, before anything late arrives, is
\* the scenario's reason, for a first attempt and for one after a failure.
LEMMA EligibilityIs ==
  ASSUME NEW w \in World, w.seen, NEW v, NEW plan, NEW records, NEW now,
         v.success <=> w.extra = "success", Integrity(v) <=> w.extra # "none",
         Decide(v) = Advised(w), plan.advice = Advised(w), plan.created = StageTime(Outage),
         \/ records = <<>> /\ now = DueAt(w, 1)
         \/ /\ Len(records) = 1 /\ DOMAIN records = {1} /\ records[1].state = "failed"
            /\ records # <<>> /\ records[1].at = DueAt(w, 1) /\ now = DueAt(w, 2)
  PROVE  Eligibility(plan, v, w, records, now) = ExpectedReason(w)
<1> DEFINE least == IF Seconds(plan.advice) > Seconds(Decide(v))
                    THEN Seconds(plan.advice) ELSE Seconds(Decide(v))
           due == IF records = <<>> THEN plan.created + least
                  ELSE records[Len(records)].at + 2 * least
<1>1. least = Delay(w) /\ Delay(w) \in {0, 30, 480}
  BY Foretold DEF Delay
<1>2. due = now
  <2>1. /\ DueAt(w, 1) = 2220 + Delay(w) /\ DueAt(w, 2) = 2220 + 3 * Delay(w)
    BY Times DEF DueAt
  <2>2. CASE records = <<>>
    BY <1>1, <2>1, <2>2, Times
  <2>3. CASE records # <<>>
    <3>1. due = records[1].at + 2 * least
      BY <2>3
    <3> HIDE DEF due, least
    <3> QED BY <1>1, <2>1, <2>3, <3>1
  <2> QED BY <2>2, <2>3
<1>3. now \in Int
  BY <1>1, Times DEF DueAt
<1>4. "succeeded" \notin States(records) /\ States(records) \cap Outstanding = {}
  BY DEF States, Outstanding
<1>5. Len(records) \in {0, 1}
  OBVIOUS
<1> DEFINE retried == w.extra = "none" /\ w.label \in {"network_timeout", "issuer_unavailable"}
<1>6. /\ Advised(w).action \in Retries <=> retried
      /\ retried => Advised(w).attempts = 2
  BY AdvisedIs
<1>7. retried => ~\E most \in {2, plan.advice.attempts, Decide(v).attempts} : Len(records) >= most
  <2>1. retried => plan.advice.attempts = 2 /\ Decide(v).attempts = 2
    BY <1>6
  <2>2. ~(Len(records) >= 2)
    <3>1. \A n \in {0, 1} : ~(n >= 2)
      OBVIOUS
    <3> QED BY <1>5, <3>1, Zenon
  <2> QED BY <2>1, <2>2, Zenon
<1>8. w.extra \in {"none", "amount", "success"}
  BY DEF World
<1> HIDE DEF least, due
<1>9. Eligibility(plan, v, w, records, now) =
        IF v.success THEN "stored_success"
        ELSE IF Integrity(v) THEN "integrity"
        ELSE IF plan.advice.action \notin Retries \/ Decide(v).action \notin Retries
        THEN "terminal_or_unknown"
        ELSE IF ~w.consent THEN "missing_consent"
        ELSE IF ~w.flow THEN "unsupported_flow"
        ELSE IF w.status # "failed" THEN "unresolved_status"
        ELSE IF "succeeded" \in States(records) THEN "simulated_success"
        ELSE IF States(records) \cap Outstanding # {} THEN "outstanding_attempt"
        ELSE IF \E most \in {2, plan.advice.attempts, Decide(v).attempts} : Len(records) >= most
        THEN "attempt_limit"
        ELSE IF now < due THEN "backoff"
        ELSE "eligible"
  BY Zenon DEF Eligibility, least, due
<1>10. ~(now < due)
  BY <1>2, <1>3
<1> QED BY <1>4, <1>6, <1>7, <1>8, <1>9, <1>10 DEF ExpectedReason

-----------------------------------------------------------------------------
(* The course of the attempts                                              *)

Foreseen(p) == ExpectedAttempts(world[p])
Said(kind, p, k) == <<kind, p, k>> \in DOMAIN steps

\* An attempt is the foreseen one, or on its way there.
OnCourse(p, k) ==
  LET r == attempts[p][k]
      x == Foreseen(p)[k]
  IN /\ r.at = x.at
     /\ \/ r.state = "reserved" /\ r.truth = None
        \/ r.truth = x.truth /\ r.state \in {Observed(world[p], x.at), x.state}

\* What is true of an attempt whose dispatch is recorded.
Done(p, k) ==
  /\ k <= Len(Foreseen(p)) =>
       k \in DOMAIN attempts[p] /\ attempts[p][k] = Foreseen(p)[k] /\ Said("suppressed", p, k)
  /\ k = 1 => Said("eligibility", p, 1)

\* A stage is through with a payment.
Settled(p, s) ==
  /\ Said("dispatch", p, 1)
  /\ Foreseen(p) # <<>> /\ (world[p].label = "network_timeout" \/ s > Outage)
       => Said("dispatch", p, 2)

Progress(p) ==
  /\ Len(attempts[p]) <= Len(Foreseen(p))
  /\ \A k \in DOMAIN attempts[p] : OnCourse(p, k)
  /\ Len(attempts[p]) = 2 => attempts[p][1].state = "failed"
  /\ attempts[p] # <<>> => Said("eligibility", p, 1)
  /\ Said("eligibility", p, 1) => steps[<<"eligibility", p, 1>>] = ExpectedReason(world[p])
  /\ \A k \in 1..2 : Said("dispatch", p, k) => Done(p, k)

Tracked ==
  /\ \A p \in Payments : Progress(p)
  /\ \A key \in DOMAIN steps : key[1] = "suppressed" =>
       \E p \in Payments : \E k \in DOMAIN attempts[p] : key = <<"suppressed", p, k>>
  /\ \A s \in Outage..3 : Closed(s) => \A p \in Payments : Settled(p, s)

\* A coordinator that simulates the outage or a later stage has settled the
\* payments it left behind, and knows of the one in hand what its place says.
Doing(c) ==
  LET p == me[c].payment
      k == me[c].ordinal
      s == me[c].stage
  IN /\ me[c].known \subseteq DOMAIN steps
     /\ pc[c] \in Receiving => me[c].left = {}
     /\ pc[c] \in {"dispatching"} \cup Inside =>
          IF s >= Outage
          THEN \A q \in Payments : q \in me[c].left \/ (pc[c] \in Inside /\ q = p) \/ Settled(q, s)
          ELSE pc[c] = "dispatching" /\ me[c].left = {}
     /\ pc[c] \in Inside => (k >= 2 => Said("dispatch", p, 1)) /\ (k = 3 => Settled(p, s))
     /\ pc[c] = "reserving" => me[c].due = DueAt(world[p], k) /\ me[c].due + 60 <= Cutoff(s)
     /\ pc[c] = "refused" => Len(Foreseen(p)) < k /\ (k = 1 => Said("eligibility", p, 1))
     /\ pc[c] \in {"modelling", "observed", "suppressed", "reconciled"} => k \in DOMAIN attempts[p]
     /\ pc[c] \in {"observed", "suppressed", "reconciled"} => attempts[p][k].state # "reserved"
     /\ pc[c] \in {"suppressed", "reconciled"} => Said("suppressed", p, k)
     /\ pc[c] = "reconciled" => attempts[p][k].state = Foreseen(p)[k].state

TrackedInv == Tracked /\ \A c \in Coordinators : Doing(c)

Ground == Base /\ PlannedInv

LEMMA GroundStep ==
  ASSUME Ground, NEW c \in Coordinators, Step(c)
  PROVE  Ground' /\ world' = world
BY BaseStep, PlannedInvStep, StoresStep DEF Ground, StoresStay

LEMMA WorldIs ==
  ASSUME Ground, NEW p \in Payments
  PROVE  world[p] \in World
BY DEF Ground, Base, ArrivedInv, Arrived

LEMMA ForeseenIs ==
  ASSUME NEW w \in World
  PROVE  LET E == ExpectedAttempts(w)
         IN /\ Len(E) \in 0..2 /\ DOMAIN E = 1..Len(E)
            /\ \A k \in DOMAIN E : E[k] = ExpectedAttempt(w, DueAt(w, k))
            /\ Len(E) = 2 => E[1].state = "failed"
            /\ Len(E) = 0 <=> ExpectedReason(w) # "eligible"
            /\ E = <<>> <=> ExpectedReason(w) # "eligible"
<1> DEFINE E == ExpectedAttempts(w)
           first == ExpectedAttempt(w, DueAt(w, 1))
           second == ExpectedAttempt(w, DueAt(w, 2))
<1>1. /\ ExpectedReason(w) # "eligible" => E = <<>>
      /\ ExpectedReason(w) = "eligible" =>
           (E = <<first, second>> /\ first.state = "failed") \/ E = <<first>>
  BY Foretold
<1> HIDE DEF E
<1>2. CASE ExpectedReason(w) # "eligible"
  <2>1. E = <<>>
    BY <1>1, <1>2
  <2> QED BY <1>2, <2>1 DEF E
<1>3. CASE ExpectedReason(w) = "eligible" /\ E = <<first>>
  <2>1. Len(E) = 1 /\ DOMAIN E = {1} /\ E[1] = ExpectedAttempt(w, DueAt(w, 1)) /\ E # <<>>
    <3> HIDE DEF first
    <3>1. Len(E) = 1 /\ DOMAIN E = {1} /\ E[1] = first /\ E # <<>>
      BY <1>3
    <3> QED BY <3>1 DEF first
  <2>2. DOMAIN E = 1..Len(E) /\ \A k \in DOMAIN E : E[k] = ExpectedAttempt(w, DueAt(w, k))
    BY <2>1
  <2> QED BY <1>3, <2>1, <2>2 DEF E
<1>4. CASE ExpectedReason(w) = "eligible" /\ E = <<first, second>> /\ first.state = "failed"
  <2>1. /\ Len(E) = 2 /\ DOMAIN E = {1, 2} /\ E # <<>> /\ E[1].state = "failed"
        /\ E[1] = ExpectedAttempt(w, DueAt(w, 1)) /\ E[2] = ExpectedAttempt(w, DueAt(w, 2))
    <3> HIDE DEF first, second
    <3>1. Len(E) = 2 /\ DOMAIN E = {1, 2} /\ E # <<>> /\ E[1] = first /\ E[2] = second
      BY <1>4
    <3> QED BY <1>4, <3>1 DEF first, second
  <2>2. DOMAIN E = 1..Len(E) /\ \A k \in DOMAIN E : E[k] = ExpectedAttempt(w, DueAt(w, k))
    BY <2>1
  <2> QED BY <1>4, <2>1, <2>2 DEF E
<1> QED BY <1>1, <1>2, <1>3, <1>4

\* What is hidden of an attempt that is foreseen.
LEMMA ExpectedIs ==
  ASSUME NEW w, NEW at
  PROVE  LET x == ExpectedAttempt(w, at)
         IN /\ x = [at |-> at, state |-> x.state, truth |-> Truth(w, at)]
            /\ x.at = at /\ x.truth = Truth(w, at) /\ Truth(w, at) \in {"succeeded", "failed"}
            /\ x.state \in {Truth(w, at), "uncertain"}
            /\ ~w.lost => x.state = Truth(w, at) /\ Observed(w, at) = Truth(w, at)
            /\ w.lost => /\ Observed(w, at) = "uncertain"
                         /\ x.state = IF w.reconcilable THEN Truth(w, at) ELSE "uncertain"
<1>1. Truth(w, at) \in {"succeeded", "failed"}
  BY DEF Truth
<1> QED BY <1>1 DEF ExpectedAttempt, Observed

\* What a recorded attempt says of the foreseen one.
LEMMA CourseTells ==
  ASSUME Ground, NEW p \in Payments, Progress(p), NEW k \in DOMAIN attempts[p]
  PROVE  LET w == world[p]
             r == attempts[p][k]
             x == Foreseen(p)[k]
         IN /\ k \in DOMAIN Foreseen(p) /\ k \in 1..2 /\ r \in AttemptRecord
            /\ x = ExpectedAttempt(w, DueAt(w, k)) /\ x.at = DueAt(w, k) /\ r.at = x.at
            /\ r.state # "reserved" => r.truth = Truth(w, x.at)
            /\ r.state = "uncertain" => w.lost
            /\ r.state \in {"failed", "succeeded"} => r.state = x.state
            /\ r.state = x.state => r = x
<1> DEFINE w == world[p]
           r == attempts[p][k]
           x == Foreseen(p)[k]
<1>1. attempts[p] \in Seq(AttemptRecord) /\ w \in World
  BY WorldIs DEF Ground, Base, Inv, Attempted
<1>2. r \in AttemptRecord /\ k \in 1..Len(attempts[p])
  BY <1>1
<1>3. Len(Foreseen(p)) \in 0..2 /\ DOMAIN Foreseen(p) = 1..Len(Foreseen(p))
  BY <1>1, ForeseenIs DEF Foreseen
<1>4. k \in DOMAIN Foreseen(p) /\ k \in 1..2
  <2>1. Len(attempts[p]) <= Len(Foreseen(p)) /\ Len(attempts[p]) \in Nat
    BY <1>1 DEF Progress
  <2> QED BY <1>2, <1>3, <2>1
<1>5. x = ExpectedAttempt(w, DueAt(w, k))
  BY <1>1, <1>4, ForeseenIs DEF Foreseen
<1>6. /\ x = [at |-> DueAt(w, k), state |-> x.state, truth |-> Truth(w, DueAt(w, k))]
      /\ x.at = DueAt(w, k) /\ x.truth = Truth(w, x.at) /\ x.truth \in {"succeeded", "failed"}
      /\ x.state \in {x.truth, "uncertain"}
      /\ ~w.lost => x.state = x.truth /\ Observed(w, x.at) = x.truth
      /\ w.lost => /\ Observed(w, x.at) = "uncertain"
                   /\ x.state = IF w.reconcilable THEN x.truth ELSE "uncertain"
  <2> HIDE DEF w, x
  <2> QED BY <1>5, ExpectedIs
<1>7. OnCourse(p, k)
  BY DEF Progress
<1>8. /\ r.at = x.at
      /\ \/ r.state = "reserved" /\ r.truth = None
         \/ r.truth = x.truth /\ r.state \in {Observed(w, x.at), x.state}
  BY <1>7 DEF OnCourse
<1> HIDE DEF w, x, r
<1>9. r = [at |-> r.at, state |-> r.state, truth |-> r.truth]
  BY <1>2 DEF AttemptRecord
<1>10. r.state = x.state => r = x
  BY <1>6, <1>8, <1>9
<1>11. /\ r.state # "reserved" => r.truth = Truth(w, x.at)
       /\ r.state = "uncertain" => w.lost
       /\ r.state \in {"failed", "succeeded"} => r.state = x.state
  BY <1>6, <1>8
<1> QED BY <1>2, <1>4, <1>5, <1>6, <1>8, <1>10, <1>11 DEF w, x, r

\* A coordinator with a payment in hand.
LEMMA Situation ==
  ASSUME Ground, NEW c \in Coordinators, Doing(c), pc[c] \in Inside
  PROVE  LET p == me[c].payment
             s == me[c].stage
         IN /\ p \in Enrolled /\ p \in Payments /\ me[c].ordinal \in 1..3
            /\ s \in {1, 2, 3}
            /\ s > 1 => Closed(Outage)
            /\ By(All, Outage) \subseteq events
            /\ s > 1 => By(All, Outage + 1) \subseteq events
            /\ world[p].seen => attached[p] = PlanOf(p) /\ attached[p] # None
            /\ ~world[p].seen => attached[p] = None
<1> DEFINE p == me[c].payment
           s == me[c].stage
<1>1. p \in Enrolled /\ p \in Payments /\ me[c].ordinal \in 1..3
  BY DEF Ground, Base, Inv, Placed, Enrolled
<1>2. pc[c] \notin Outside \cup Receiving /\ pc[c] # "dispatching" /\ pc[c] \in Simulating
  BY Places DEF Inside, Simulating
<1>3. /\ s \in Stages /\ By(All, s) \subseteq events
      /\ \A u \in Stages : u < s => Closed(u)
      /\ \A u \in Stages : Closed(u) => By(All, u) \subseteq events
  BY <1>2 DEF Ground, Base, FrozenInv, Fares, Paths, Closed
<1>4. s >= Outage
  BY <1>2 DEF Doing
<1>5. s \in {1, 2, 3}
  BY <1>3, <1>4 DEF Stages, Outage
<1>6. 1 \in Stages /\ 2 \in Stages /\ Outage = 1 /\ Outage + 1 = 2
  BY DEF Stages, Outage
<1>7. s > 1 => Closed(1)
  BY <1>3, <1>5, <1>6
<1>8. By(All, 1) \subseteq events
  BY <1>3, <1>5, <1>6
<1>9. s > 1 => By(All, 2) \subseteq events
  <2>1. s = 3 => Closed(2)
    BY <1>3, <1>6
  <2> QED BY <1>3, <1>5, <1>6, <2>1
<1>10. AllAttached
  BY <1>2, <1>4 DEF Ground, PlannedInv, PlanningAt
<1>11. attached[p] \in {None, plans[p]} /\ (plans[p] # None => world[p].seen /\ plans[p] = PlanOf(p))
  BY <1>1 DEF Ground, Base, Inv, Timed, PlannedInv, Planned
<1>12. /\ world[p].seen => attached[p] = PlanOf(p) /\ attached[p] # None
       /\ ~world[p].seen => attached[p] = None
  BY <1>1, <1>10, <1>11 DEF AllAttached
<1> QED BY <1>1, <1>5, <1>6, <1>7, <1>8, <1>9, <1>12

\* An attempt falls due when it is foreseen to.
LEMMA DueIs ==
  ASSUME Ground, NEW c \in Coordinators, Doing(c), pc[c] \in Inside, Progress(me[c].payment)
  PROVE  LET p == me[c].payment
         IN /\ Due(p, 1) = DueAt(world[p], 1)
            /\ attempts[p] # <<>> => Due(p, 2) = DueAt(world[p], 2)
<1> DEFINE p == me[c].payment
           w == world[p]
<1>1. /\ p \in Payments /\ w \in World
      /\ w.seen => attached[p] = PlanOf(p) /\ attached[p] # None
      /\ ~w.seen => attached[p] = None
  BY Situation, WorldIs
<1>2. Delay(w) \in {0, 30, 480}
  BY <1>1, Foretold
<1>3. w.seen => attached[p].advice = Advised(w) /\ attached[p].created = StageTime(Outage)
  BY <1>1 DEF PlanOf
<1>4. /\ attached[p] = None => Delay(w) = 0
      /\ attached[p] # None => Seconds(attached[p].advice) = Delay(w) /\ attached[p].created = 2220
  BY <1>1, <1>3, Times DEF Delay
<1>5. DueAt(w, 1) = 2220 + Delay(w) /\ DueAt(w, 2) = 2220 + 3 * Delay(w)
  BY Times DEF DueAt
<1>6. Due(p, 1) = IF attached[p] = None THEN StageTime(Outage)
                  ELSE attached[p].created + Seconds(attached[p].advice)
  BY DEF Due
<1>7. Due(p, 1) = DueAt(w, 1)
  <2>1. CASE attached[p] = None
    BY <1>4, <1>5, <1>6, <2>1, Times
  <2>2. CASE attached[p] # None
    <3>1. Due(p, 1) = 2220 + Delay(w)
      BY <1>4, <1>6, <2>2
    <3> QED BY <1>5, <3>1
  <2> QED BY <2>1, <2>2
<1>8. ASSUME attempts[p] # <<>> PROVE Due(p, 2) = DueAt(w, 2)
  <2>1. 1 \in DOMAIN attempts[p]
    BY <1>1, <1>8 DEF Ground, Base, Inv, Attempted
  <2>2. attempts[p][1].at = DueAt(w, 1) /\ 1 \in DOMAIN Foreseen(p)
    BY <1>1, <2>1, CourseTells
  <2>3. ExpectedReason(w) = "eligible"
    BY <1>1, <2>2, ForeseenIs DEF Foreseen
  <2>4. w.seen /\ Delay(w) \in {30, 480}
    BY <1>1, <2>3, Foretold
  <2>5. Seconds(attached[p].advice) = Delay(w) /\ attached[p] # None
    BY <1>1, <1>4, <2>4
  <2>6. Due(p, 2) = attempts[p][1].at
                      + (IF 2 * Delay(w) > ReconcileSeconds THEN 2 * Delay(w) ELSE ReconcileSeconds)
    BY <2>5 DEF Due
  <2>7. (IF 2 * Delay(w) > ReconcileSeconds THEN 2 * Delay(w) ELSE ReconcileSeconds) = 2 * Delay(w)
    BY <2>4, Times
  <2>8. Due(p, 2) = (2220 + Delay(w)) + 2 * Delay(w)
    BY <1>5, <2>2, <2>6, <2>7
  <2> QED BY <1>5, <2>4, <2>8
<1> QED BY <1>7, <1>8

-----------------------------------------------------------------------------
(* Verdicts and outcomes                                                   *)

\* The verdict on an attempt before the late success arrives.
LEMMA BlockerIs ==
  ASSUME Ground, NEW c \in Coordinators, Doing(c), pc[c] = "reserving", Progress(me[c].payment),
         LateSuccess(me[c].payment) \notin events,
         \/ me[c].ordinal = 1 /\ attempts[me[c].payment] = <<>>
         \/ /\ me[c].ordinal = 2 /\ Len(attempts[me[c].payment]) = 1
            /\ attempts[me[c].payment][1].state = "failed"
  PROVE  Blocker(c) = ExpectedReason(world[me[c].payment])
<1> DEFINE p == me[c].payment
           w == world[p]
           v == History(events, enrolled[p])
<1>1. pc[c] \in Inside
  BY DEF Inside
<1>2. /\ p \in Enrolled /\ p \in Payments /\ By(All, Outage) \subseteq events /\ w \in World
      /\ w.seen => attached[p] = PlanOf(p) /\ attached[p] # None
      /\ ~w.seen => attached[p] = None
  BY <1>1, Situation, WorldIs
<1>3. CASE ~w.seen
  BY <1>2, <1>3 DEF Blocker, ExpectedReason
<1>4. CASE w.seen
  <2>1. /\ v.success <=> w.extra = "success"
        /\ Integrity(v) <=> w.extra # "none"
        /\ Decide(v) = Advised(w)
    BY <1>2, HistoryBefore DEF Ground, Base
  <2>2. attached[p].advice = Advised(w) /\ attached[p].created = StageTime(Outage)
    BY <1>2, <1>4 DEF PlanOf
  <2>3. me[c].due = DueAt(w, me[c].ordinal)
    BY DEF Doing
  <2>4. CASE me[c].ordinal = 1 /\ attempts[p] = <<>>
    <3>1. Eligibility(attached[p], v, w, attempts[p], me[c].due) = ExpectedReason(w)
      <4> HIDE DEF v, w
      <4> QED BY <1>2, <1>4, <2>1, <2>2, <2>3, <2>4, EligibilityIs
    <3> QED BY <1>2, <1>4, <3>1 DEF Blocker
  <2>5. CASE /\ me[c].ordinal = 2 /\ Len(attempts[p]) = 1
             /\ attempts[p][1].state = "failed"
    <3>1. attempts[p] \in Seq(AttemptRecord)
      BY <1>2 DEF Ground, Base, Inv, Attempted
    <3>2. DOMAIN attempts[p] = {1} /\ attempts[p] # <<>>
      BY <2>5, <3>1
    <3>3. attempts[p][1].at = DueAt(w, 1)
      BY <1>2, <3>2, CourseTells
    <3>4. Eligibility(attached[p], v, w, attempts[p], me[c].due) = ExpectedReason(w)
      <4> HIDE DEF v, w
      <4> QED BY <1>2, <1>4, <2>1, <2>2, <2>3, <2>5, <3>2, <3>3, EligibilityIs
    <3> QED BY <1>2, <1>4, <3>4 DEF Blocker
  <2> QED BY <2>4, <2>5
<1> QED BY <1>3, <1>4

\* An attempt is reserved where one is foreseen, at its time.
LEMMA ReserveOnCourse ==
  ASSUME Ground, NEW c \in Coordinators, Doing(c), Progress(me[c].payment), Reserve(c)
  PROVE  LET p == me[c].payment
             k == me[c].ordinal
         IN /\ k = Len(attempts[p]) + 1 /\ k \in 1..2 /\ k <= Len(Foreseen(p))
            /\ me[c].due = Foreseen(p)[k].at
            /\ ExpectedReason(world[p]) = "eligible"
            /\ k = 2 => attempts[p][1].state = "failed"
<1> DEFINE p == me[c].payment
           k == me[c].ordinal
           w == world[p]
           s == me[c].stage
<1>1. /\ p \in Enrolled /\ k = Len(attempts[p]) + 1 /\ Len(attempts[p]) < 2
      /\ ~History(events, enrolled[p]).success
      /\ \A j \in DOMAIN attempts[p] : attempts[p][j].state = "failed"
  BY ReserveEffect DEF Ground, Base
<1>2. pc[c] = "reserving" /\ pc[c] \in Inside /\ Blocker(c) = "eligible"
  BY DEF Reserve, Inside
<1>3. p \in Payments /\ w \in World /\ attempts[p] \in Seq(AttemptRecord)
  BY <1>1, WorldIs DEF Enrolled, Ground, Base, Inv, Attempted
<1>4. LateSuccess(p) \notin events
  BY <1>1, HistoryAfter DEF Ground, Base
<1>5. me[c].due = DueAt(w, k) /\ me[c].due + 60 <= Cutoff(s)
  BY <1>2 DEF Doing
<1>6. \/ k = 1 /\ attempts[p] = <<>>
      \/ k = 2 /\ Len(attempts[p]) = 1 /\ 1 \in DOMAIN attempts[p] /\ attempts[p][1].state = "failed"
  <2>0. Len(attempts[p]) \in Nat
    BY <1>3
  <2>1. Len(attempts[p]) = 0 \/ Len(attempts[p]) = 1
    <3>1. \A n \in Nat : n < 2 => n = 0 \/ n = 1
      OBVIOUS
    <3> QED BY <1>1, <2>0, <3>1, Zenon
  <2>2. Len(attempts[p]) = 0 => attempts[p] = <<>>
    BY <1>3
  <2>3. Len(attempts[p]) = 1 => 1 \in DOMAIN attempts[p]
    BY <1>3
  <2> QED BY <1>1, <2>1, <2>2, <2>3
<1>7. ExpectedReason(w) = "eligible"
  BY <1>2, <1>4, <1>6, BlockerIs
<1>8. k <= Len(Foreseen(p))
  <2>1. Len(Foreseen(p)) \in 0..2 /\ Len(Foreseen(p)) # 0
    BY <1>3, <1>7, ForeseenIs DEF Foreseen
  <2>2. CASE k = 1
    BY <2>1, <2>2
  <2>3. CASE k = 2 /\ 1 \in DOMAIN attempts[p] /\ attempts[p][1].state = "failed"
    <3>1. Foreseen(p)[1].state = "failed" /\ Foreseen(p)[1] = ExpectedAttempt(w, DueAt(w, 1))
      BY <1>3, <2>3, CourseTells
    <3>2. ~(w.late /\ w.label = "issuer_unavailable")
      <4>1. SUFFICES ASSUME w.late, w.label = "issuer_unavailable" PROVE FALSE
        OBVIOUS
      <4>2. Delay(w) = 480
        BY <1>3, <1>7, <4>1, Foretold
      <4>3. DueAt(w, 2) = 3660
        BY <4>2, Times DEF DueAt
      <4>4. s \in {1, 2, 3} /\ (s > 1 => By(All, Outage + 1) \subseteq events)
        BY <1>2, Situation
      <4>5. s > 1
        BY <1>5, <2>3, <4>3, <4>4, Times
      <4> QED BY <1>1, <1>4, <4>1, <4>4, <4>5, LateArrival DEF Ground, Base
    <3>3. Foreseen(p) = <<ExpectedAttempt(w, DueAt(w, 1)), ExpectedAttempt(w, DueAt(w, 2))>>
      BY <1>3, <1>7, <3>1, <3>2, Foretold DEF Foreseen
    <3> QED BY <2>3, <3>3
  <2> QED BY <1>6, <2>2, <2>3
<1>9. me[c].due = Foreseen(p)[k].at
  <2>1. DOMAIN Foreseen(p) = 1..Len(Foreseen(p)) /\ Len(Foreseen(p)) \in Nat
    BY <1>3, ForeseenIs DEF Foreseen
  <2>2. k \in DOMAIN Foreseen(p)
    BY <1>6, <1>8, <2>1
  <2>3. Foreseen(p)[k] = ExpectedAttempt(w, DueAt(w, k))
    BY <1>3, <2>2, ForeseenIs DEF Foreseen
  <2> QED BY <1>5, <2>3, ExpectedIs
<1> QED BY <1>1, <1>6, <1>7, <1>8, <1>9

\* One is refused where none is foreseen, for the scenario's reason.
LEMMA RefuseOnCourse ==
  ASSUME Ground, Tracked, NEW c \in Coordinators, Doing(c), Refuse(c)
  PROVE  LET p == me[c].payment
             k == me[c].ordinal
             key == <<"eligibility", p, 1>>
         IN /\ Len(Foreseen(p)) < k
            /\ k = 1 => key \in DOMAIN steps' /\ steps'[key] = ExpectedReason(world[p])
<1> DEFINE p == me[c].payment
           k == me[c].ordinal
           w == world[p]
           s == me[c].stage
           key == <<"eligibility", p, 1>>
<1>1. /\ pc[c] = "reserving" /\ pc[c] \in Inside /\ pc[c] \in InTurn
      /\ k \notin DOMAIN attempts[p] /\ Blocker(c) # "eligible"
      /\ AppendStep(<<"eligibility", p, k>>, Blocker(c))
  BY DEF Refuse, Record, Reserved, AttemptKey, Inside, InTurn
<1>2. /\ p \in Enrolled /\ p \in Payments /\ w \in World /\ Progress(p) /\ k \in 1..2
      /\ attempts[p] \in Seq(AttemptRecord)
  BY <1>1, Situation, WorldIs DEF Tracked, Ground, Base, Inv, Placed, Attempted
<1>3. /\ s \in {1, 2, 3} /\ (s > 1 => Closed(Outage))
      /\ LateSuccess(p) \in events => w.late /\ Closed(Outage)
  BY <1>1, <1>2, Situation, LateArrival DEF Ground, Base
<1>4. Closed(Outage) => Settled(p, Outage)
  BY <1>2 DEF Tracked, Outage
<1>5. /\ Len(Foreseen(p)) \in 0..2
      /\ Len(Foreseen(p)) = 0 <=> ExpectedReason(w) # "eligible"
      /\ Len(Foreseen(p)) = 2 => Foreseen(p)[1].state = "failed"
  BY <1>2, ForeseenIs DEF Foreseen
<1>6. CASE k = 1
  <2>1. attempts[p] = <<>>
    BY <1>1, <1>2, <1>6
  <2>2. key \in DOMAIN steps' /\ steps'[key] = Blocker(c) /\ (key \in DOMAIN steps => steps[key] = Blocker(c))
    BY <1>1, <1>6, AppendKeeps
  <2>3. Blocker(c) = ExpectedReason(w)
    <3>1. CASE key \in DOMAIN steps
      BY <1>2, <2>2, <3>1 DEF Progress, Said
    <3>2. CASE key \notin DOMAIN steps
      <4>1. ~Said("dispatch", p, 1)
        BY <1>2, <3>2 DEF Progress, Done, Said
      <4>2. LateSuccess(p) \notin events
        BY <1>3, <1>4, <4>1 DEF Settled
      <4> QED BY <1>1, <1>2, <1>6, <2>1, <4>2, BlockerIs
    <3> QED BY <3>1, <3>2
  <2>4. Len(Foreseen(p)) = 0
    BY <1>1, <1>5, <2>3
  <2> QED BY <1>6, <2>2, <2>3, <2>4
<1>7. CASE k = 2
  <2>1. Done(p, 1)
    BY <1>1, <1>2, <1>7 DEF Doing, Progress
  <2>a. \A n \in 0..2 : n < 2 \/ n = 2
    OBVIOUS
  <2>b. k # 1 /\ (Len(Foreseen(p)) < 2 => Len(Foreseen(p)) < k)
    BY <1>7
  <2>2. SUFFICES ASSUME Len(Foreseen(p)) = 2 PROVE FALSE
    BY <1>5, <2>a, <2>b, Zenon
  <2>3. 1 \in DOMAIN attempts[p] /\ attempts[p][1] = Foreseen(p)[1]
    BY <2>1, <2>2 DEF Done
  <2>4. attempts[p][1].state = "failed" /\ Len(attempts[p]) = 1
    <3>1. 1 \in DOMAIN attempts[p] /\ 2 \notin DOMAIN attempts[p]
      BY <1>1, <1>7, <2>3
    <3>2. Len(attempts[p]) \in Nat /\ DOMAIN attempts[p] = 1..Len(attempts[p])
      BY <1>2
    <3>3. \A n \in Nat : 1 \in 1..n /\ 2 \notin 1..n => n = 1
      OBVIOUS
    <3>4. Len(attempts[p]) = 1
      BY <3>1, <3>2, <3>3, Zenon
    <3> QED BY <1>5, <2>2, <2>3, <3>4
  <2>5. ExpectedReason(w) = "eligible" /\ Foreseen(p) # <<>>
    BY <1>2, <1>5, <2>2, ForeseenIs DEF Foreseen
  <2>6. LateSuccess(p) \notin events
    <3>1. SUFFICES ASSUME LateSuccess(p) \in events PROVE FALSE
      OBVIOUS
    <3>2. w.late /\ Settled(p, Outage)
      BY <1>3, <1>4, <3>1
    <3>3. w.label \in {"network_timeout", "issuer_unavailable"}
      BY <1>2, <2>5, Foretold
    <3>4. CASE w.label = "network_timeout"
      <4>1. Said("dispatch", p, 2)
        BY <2>5, <3>2, <3>4 DEF Settled
      <4>2. Done(p, 2)
        BY <1>2, <4>1 DEF Progress
      <4> QED BY <1>1, <1>7, <2>2, <4>2 DEF Done
    <3>5. CASE w.label = "issuer_unavailable"
      <4>1. \/ Foreseen(p) = <<ExpectedAttempt(w, DueAt(w, 1))>>
            \/ ~w.late
        BY <1>2, <2>5, <3>5, Foretold DEF Foreseen
      <4>2. Len(<<ExpectedAttempt(w, DueAt(w, 1))>>) = 1
        OBVIOUS
      <4> QED BY <2>2, <3>2, <4>1, <4>2
    <3> QED BY <3>3, <3>4, <3>5
  <2>7. Blocker(c) = ExpectedReason(w)
    BY <1>1, <1>2, <1>7, <2>4, <2>6, BlockerIs
  <2> QED BY <1>1, <2>5, <2>7
<1> QED BY <1>2, <1>6, <1>7

-----------------------------------------------------------------------------
(* What a step does to the attempts                                        *)

\* What a step does to the attempts of a payment.
Follows(p) ==
  /\ Len(attempts'[p]) <= Len(Foreseen(p))
  /\ \A k \in DOMAIN attempts'[p] : OnCourse(p, k)'
  /\ Len(attempts'[p]) = 2 => attempts'[p][1].state = "failed"
  /\ attempts'[p] # <<>> => Said("eligibility", p, 1)'
  /\ \A k \in DOMAIN attempts[p] :
       /\ k \in DOMAIN attempts'[p]
       /\ attempts[p][k].state # "reserved" => attempts'[p][k].state # "reserved"
       /\ attempts[p][k].state = Foreseen(p)[k].state => attempts'[p][k] = attempts[p][k]

\* What is recorded stays so.
LEMMA SaidStays ==
  ASSUME Ground, NEW c \in Coordinators, Step(c)
  PROVE  /\ \A kind, p, k : Said(kind, p, k) => Said(kind, p, k)'
         /\ \A p : Foreseen(p)' = Foreseen(p)
         /\ \A p, s : Settled(p, s) => Settled(p, s)'
         /\ \A s : Closed(s) => Closed(s)'
<1>1. DOMAIN steps \subseteq DOMAIN steps' /\ world' = world
  BY StepsGrow, GroundStep DEF Ground, Base
<1>2. \A kind, p, k : Said(kind, p, k) => Said(kind, p, k)'
  BY <1>1 DEF Said
<1>3. \A p : Foreseen(p)' = Foreseen(p)
  BY <1>1 DEF Foreseen
<1>4. \A p, s : Settled(p, s) => Settled(p, s)'
  BY <1>1, <1>2, <1>3 DEF Settled
<1>5. \A s : Closed(s) => Closed(s)'
  BY <1>1 DEF Closed
<1> QED BY <1>2, <1>3, <1>4, <1>5

LEMMA FollowsSame ==
  ASSUME Ground, NEW c \in Coordinators, Step(c), NEW p \in Payments, Progress(p),
         attempts'[p] = attempts[p]
  PROVE  Follows(p)
<1>1. Foreseen(p)' = Foreseen(p) /\ world' = world
      /\ (Said("eligibility", p, 1) => Said("eligibility", p, 1)')
  BY SaidStays, GroundStep
<1>2. ASSUME NEW k \in DOMAIN attempts'[p] PROVE OnCourse(p, k)'
  <2>1. OnCourse(p, k)
    BY <1>2 DEF Progress
  <2> QED BY <1>1, <2>1 DEF OnCourse
<1> QED BY <1>1, <1>2 DEF Follows, Progress

LEMMA FollowsReserve ==
  ASSUME Ground, NEW c \in Coordinators, Step(c), Doing(c), NEW p \in Payments, p = me[c].payment,
         Progress(p), Reserve(c)
  PROVE  Follows(p)
<1> DEFINE k == me[c].ordinal
           x == Foreseen(p)[k]
           n == Len(attempts[p])
<1>1. /\ k = n + 1 /\ k \in 1..2 /\ k <= Len(Foreseen(p))
      /\ me[c].due = x.at
      /\ k = 2 => attempts[p][1].state = "failed"
  BY ReserveOnCourse
<1>2. p \in Payments /\ me[c].due \in Int /\ Added(p, me[c].due) /\ Attempted
  BY ReserveEffect DEF Ground, Base, Inv, Enrolled
<1> DEFINE due == me[c].due
<1>3. /\ Len(attempts'[p]) = n + 1
      /\ n \in Nat /\ DOMAIN attempts[p] = 1..n
      /\ DOMAIN attempts'[p] = 1..(n + 1)
      /\ \A j \in DOMAIN attempts[p] : attempts'[p][j] = attempts[p][j]
      /\ attempts'[p][n + 1] = [at |-> due, state |-> "reserved", truth |-> None]
  <2> HIDE DEF due
  <2> QED BY <1>2, AddedTyped DEF due
<1>4. Foreseen(p)' = Foreseen(p) /\ world' = world
      /\ (Said("eligibility", p, 1) => Said("eligibility", p, 1)')
  BY SaidStays, GroundStep
<1>6. ASSUME NEW j \in DOMAIN attempts'[p] PROVE OnCourse(p, j)'
  <2>1. CASE j \in DOMAIN attempts[p]
    <3>1. OnCourse(p, j) /\ attempts'[p][j] = attempts[p][j]
      BY <1>3, <2>1 DEF Progress
    <3> QED BY <1>4, <3>1 DEF OnCourse
  <2>2. CASE j \notin DOMAIN attempts[p]
    <3>1. j = n + 1
      BY <1>3, <1>6, <2>2
    <3>2. /\ attempts'[p][j].at = Foreseen(p)[j].at
          /\ attempts'[p][j].state = "reserved" /\ attempts'[p][j].truth = None
      BY <1>1, <1>3, <3>1
    <3> QED BY <1>4, <3>2 DEF OnCourse
  <2> QED BY <2>1, <2>2
<1>7. Said("eligibility", p, 1)'
  <2>1. CASE k = 1
    <3>1. AttemptKey("eligibility", c) = <<"eligibility", p, 1>> /\ steps' = WithReservation(c)
      BY <2>1 DEF AttemptKey, Reserve
    <3> QED BY <3>1 DEF WithReservation, Said
  <2>2. CASE k = 2
    <3>1. attempts[p] # <<>>
      BY <1>1, <1>3, <2>2
    <3> QED BY <1>4, <3>1 DEF Progress
  <2> QED BY <1>1, <2>1, <2>2
<1>8. Len(attempts'[p]) = 2 => attempts'[p][1].state = "failed"
  <2>1. \A m \in Nat : m + 1 = 2 => m = 1 /\ 1 \in 1..m
    OBVIOUS
  <2>2. Len(attempts'[p]) = 2 => k = 2 /\ 1 \in DOMAIN attempts[p]
    BY <1>1, <1>3, <2>1, Zenon
  <2> QED BY <1>1, <1>3, <2>2, Zenon
<1>9. \A j \in DOMAIN attempts[p] : j \in DOMAIN attempts'[p]
  BY <1>3
<1> QED BY <1>1, <1>3, <1>6, <1>7, <1>8, <1>9 DEF Follows

LEMMA FollowsReplace ==
  ASSUME Ground, NEW c \in Coordinators, Step(c), NEW p \in Payments, Progress(p),
         NEW k \in DOMAIN attempts[p], NEW state,
         attempts[p][k].state \in {"reserved", "uncertain"},
         state \in {Observed(world[p], Foreseen(p)[k].at), Foreseen(p)[k].state},
         attempts[p][k].state = "uncertain" => state = Foreseen(p)[k].state,
         Replaced(p, k, state, Truth(world[p], Foreseen(p)[k].at))
  PROVE  Follows(p)
<1> DEFINE w == world[p]
           r == attempts[p][k]
           x == Foreseen(p)[k]
           truth == Truth(w, x.at)
<1>1. /\ r \in AttemptRecord /\ x = ExpectedAttempt(w, DueAt(w, k)) /\ x.at = DueAt(w, k)
      /\ r.at = x.at /\ (r.state # "reserved" => r.truth = truth)
      /\ r.state = x.state => r = x
  BY CourseTells
<1>2. /\ x.truth = truth /\ x.state \in {truth, "uncertain"} /\ truth \in {"succeeded", "failed"}
      /\ Observed(w, x.at) \in {truth, "uncertain"}
      /\ x = [at |-> x.at, state |-> x.state, truth |-> truth]
  <2> HIDE DEF w, x
  <2> QED BY <1>1, ExpectedIs, ModelAnswers DEF truth
<1>3. /\ DOMAIN attempts'[p] = DOMAIN attempts[p] /\ Len(attempts'[p]) = Len(attempts[p])
      /\ \A j \in DOMAIN attempts[p] \ {k} : attempts'[p][j] = attempts[p][j]
      /\ attempts'[p][k] = [at |-> r.at, state |-> state, truth |-> truth]
  BY DEF Replaced
<1>4. Foreseen(p)' = Foreseen(p) /\ world' = world
      /\ (Said("eligibility", p, 1) => Said("eligibility", p, 1)')
  BY SaidStays, GroundStep
<1>5. state # "reserved"
  BY <1>2
<1>6. ASSUME NEW j \in DOMAIN attempts'[p] PROVE OnCourse(p, j)'
  <2>1. CASE j # k
    <3>1. OnCourse(p, j) /\ attempts'[p][j] = attempts[p][j]
      BY <1>3, <1>6, <2>1 DEF Progress
    <3> QED BY <1>4, <3>1 DEF OnCourse
  <2>2. CASE j = k
    <3>1. /\ attempts'[p][k].at = x.at /\ attempts'[p][k].truth = x.truth
          /\ attempts'[p][k].state \in {Observed(world[p], x.at), x.state}
      BY <1>1, <1>2, <1>3
    <3> QED BY <1>4, <2>2, <3>1 DEF OnCourse
  <2> QED BY <2>1, <2>2
<1>7. attempts'[p] # <<>> => attempts[p] # <<>>
  <2>1. attempts[p] \in Seq(AttemptRecord)
    BY DEF Ground, Base, Inv, Attempted
  <2> QED BY <2>1
<1>8. Len(attempts'[p]) = 2 => attempts'[p][1].state = "failed"
  <2>1. SUFFICES ASSUME Len(attempts[p]) = 2 PROVE attempts'[p][1].state = "failed"
    BY <1>3
  <2>2. attempts[p][1].state = "failed"
    BY <2>1 DEF Progress
  <2>3. k # 1
    BY <2>2
  <2>4. 1 \in DOMAIN attempts[p]
    <3>1. attempts[p] \in Seq(AttemptRecord)
      BY DEF Ground, Base, Inv, Attempted
    <3> QED BY <2>1, <3>1
  <2> QED BY <1>3, <2>2, <2>3, <2>4
<1>9. ASSUME NEW j \in DOMAIN attempts[p]
      PROVE  /\ j \in DOMAIN attempts'[p]
             /\ attempts[p][j].state # "reserved" => attempts'[p][j].state # "reserved"
             /\ attempts[p][j].state = Foreseen(p)[j].state => attempts'[p][j] = attempts[p][j]
  <2>1. CASE j # k
    BY <1>3, <1>9, <2>1
  <2>2. CASE j = k
    <3>1. attempts'[p][k].state # "reserved"
      BY <1>3, <1>5
    <3>2. r.state = x.state => attempts'[p][k] = r
      <4>1. SUFFICES ASSUME r.state = x.state PROVE attempts'[p][k] = r
        OBVIOUS
      <4>2. r = x /\ state = x.state
        BY <1>1, <1>2, <4>1
      <4> QED BY <1>1, <1>2, <1>3, <4>2
    <3> QED BY <1>3, <2>2, <3>1, <3>2
  <2> QED BY <2>1, <2>2
<1> QED BY <1>3, <1>4, <1>6, <1>7, <1>8, <1>9 DEF Follows, Progress

LEMMA FollowsReconcile ==
  ASSUME Ground, NEW c \in Coordinators, Step(c), NEW p \in Payments, p = me[c].payment,
         Progress(p), Reconcile(c)
  PROVE  Follows(p)
<1> DEFINE k == me[c].ordinal
           w == world[p]
           x == Foreseen(p)[k]
           revealed == IF w.reconcilable THEN attempts[p][k].truth ELSE "uncertain"
<1>1. /\ p \in Payments /\ k \in DOMAIN attempts[p] /\ Attempted
      /\ attempts' = attempts \/ attempts[p][k].state = "uncertain"
  BY ReconcileEffect DEF Ground, Base, Inv
<1>2. CASE attempts[p][k].state # "uncertain"
  BY <1>1, <1>2, FollowsSame
<1>3. CASE attempts[p][k].state = "uncertain"
  <2>1. attempts' = [attempts EXCEPT ![p][k].state = revealed]
    BY <1>3 DEF Reconcile
  <2>2. /\ w.lost /\ attempts[p][k].truth = Truth(w, x.at)
        /\ x = ExpectedAttempt(w, DueAt(w, k)) /\ x.at = DueAt(w, k)
    BY <1>1, <1>3, CourseTells
  <2>3. revealed = x.state /\ revealed \in AttemptStates
    <3>1. /\ x.state = IF w.reconcilable THEN Truth(w, x.at) ELSE "uncertain"
          /\ x.state \in {"succeeded", "failed", "uncertain"}
      <4> HIDE DEF w, x
      <4> QED BY <2>2, ExpectedIs
    <3> QED BY <2>2, <3>1 DEF AttemptStates
  <2> HIDE DEF revealed
  <2>4. Replaced(p, k, revealed, attempts[p][k].truth)
    <3> HIDE DEF k
    <3> QED BY <1>1, <2>1, <2>3, ReplaceState
  <2> QED BY <1>1, <1>3, <2>2, <2>3, <2>4, FollowsReplace
<1> QED BY <1>2, <1>3

LEMMA FollowsStep ==
  ASSUME Ground, NEW c \in Coordinators, Step(c), Doing(c), \A q \in Payments : Progress(q),
         NEW p \in Payments
  PROVE  Follows(p)
<1>1. CASE attempts'[p] = attempts[p]
  BY <1>1, FollowsSame
<1>2. CASE Reserve(c) /\ attempts'[p] # attempts[p]
  <2>1. p = me[c].payment
    BY <1>2, ReserveEffect DEF Added, Ground, Base, Inv, Attempted
  <2> QED BY <1>2, <2>1, FollowsReserve
<1>3. CASE RecordOutcome(c) /\ attempts'[p] # attempts[p]
  <2> DEFINE q == me[c].payment
             k == me[c].ordinal
             at == attempts[q][k].at
  <2>1. /\ q \in Payments /\ k \in DOMAIN attempts[q] /\ attempts[q][k].state = "reserved"
        /\ Replaced(q, k, Observed(world[q], at), Truth(world[q], at))
    BY <1>3, OutcomeEffect DEF Ground, Base
  <2>2. p = q
    BY <1>3, <2>1 DEF Replaced
  <2>3. at = Foreseen(q)[k].at
    BY <2>1, CourseTells
  <2> HIDE DEF q, k
  <2> QED BY <2>1, <2>2, <2>3, FollowsReplace
<1>4. CASE Reconcile(c) /\ attempts'[p] # attempts[p]
  <2>1. me[c].payment \in Payments
        /\ \E state, truth : Replaced(me[c].payment, me[c].ordinal, state, truth)
    BY <1>4, ReconcileEffect DEF Ground, Base
  <2>2. p = me[c].payment
    BY <1>4, <2>1 DEF Replaced
  <2> QED BY <1>4, <2>2, FollowsReconcile
<1> QED BY <1>1, <1>2, <1>3, <1>4, StoresStep DEF StoresStay

LEMMA DoneStays ==
  ASSUME Ground, NEW c \in Coordinators, Step(c), NEW p \in Payments, Follows(p),
         NEW k, Done(p, k)
  PROVE  Done(p, k)'
<1>1. Foreseen(p)' = Foreseen(p)
      /\ \A kind, j : Said(kind, p, j) => Said(kind, p, j)'
  BY SaidStays
<1>2. ASSUME k <= Len(Foreseen(p))
      PROVE  /\ k \in DOMAIN attempts'[p] /\ attempts'[p][k] = Foreseen(p)[k]
             /\ Said("suppressed", p, k)'
  <2>1. /\ k \in DOMAIN attempts[p] /\ attempts[p][k] = Foreseen(p)[k] /\ Said("suppressed", p, k)
    BY <1>2 DEF Done
  <2> QED BY <1>1, <2>1 DEF Follows
<1> QED BY <1>1, <1>2 DEF Done

LEMMA ProgressStep ==
  ASSUME Ground, Tracked, NEW c \in Coordinators, Step(c), Doing(c), NEW p \in Payments
  PROVE  Progress(p)'
<1>1. Follows(p) /\ Progress(p)
  BY FollowsStep DEF Tracked
<1>2. /\ Foreseen(p)' = Foreseen(p) /\ world' = world
      /\ \A kind, k : Said(kind, p, k) => Said(kind, p, k)'
  BY SaidStays, GroundStep
<1>3. ASSUME Said("eligibility", p, 1)'
      PROVE  steps'[<<"eligibility", p, 1>>] = ExpectedReason(world[p])
  <2> DEFINE key == <<"eligibility", p, 1>>
  <2>1. CASE key \in DOMAIN steps
    <3>1. steps'[key] = steps[key] /\ steps[key] = ExpectedReason(world[p])
      BY <1>1, <2>1, WrittenStep DEF Progress, Said, Written, Ground, Base
    <3> QED BY <3>1
  <2>2. CASE key \notin DOMAIN steps
    <3>1. key \in DOMAIN steps' \ DOMAIN steps /\ key[1] = "eligibility" /\ key[1] \notin DeliveryKinds
      BY <1>3, <2>2 DEF Said, DeliveryKinds
    <3>2. (Reserve(c) \/ Refuse(c)) /\ key = AttemptKey("eligibility", c)
      BY <3>1, NewKeys DEF Ground
    <3>3. me[c].payment = p /\ me[c].ordinal = 1
      BY <3>2 DEF AttemptKey
    <3>4. CASE Reserve(c)
      <4>1. steps' = WithReservation(c)
        BY <3>4 DEF Reserve
      <4>2. key # AttemptKey("reserved", c)
        BY <3>1, KeyKinds
      <4>3. steps'[key] = "eligible"
        BY <2>2, <3>2, <4>1, <4>2 DEF WithReservation
      <4> QED BY <1>1, <3>3, <3>4, <4>3, ReserveOnCourse
    <3>5. CASE Refuse(c)
      BY <3>3, <3>5, RefuseOnCourse
    <3> QED BY <3>2, <3>4, <3>5
  <2> QED BY <2>1, <2>2
<1>4. ASSUME NEW k \in 1..2, Said("dispatch", p, k)' PROVE Done(p, k)'
  <2> DEFINE key == <<"dispatch", p, k>>
  <2>1. CASE key \in DOMAIN steps
    <3>1. Done(p, k)
      BY <1>1, <2>1 DEF Progress, Said
    <3> QED BY <1>1, <3>1, DoneStays
  <2>2. CASE key \notin DOMAIN steps
    <3>1. key \in DOMAIN steps' \ DOMAIN steps /\ key[1] = "dispatch" /\ key[1] \notin DeliveryKinds
      BY <1>4, <2>2 DEF Said, DeliveryKinds
    <3>2. (CloseRefused(c) \/ CloseDispatch(c)) /\ key = AttemptKey("dispatch", c)
      BY <3>1, NewKeys DEF Ground
    <3>3. me[c].payment = p /\ me[c].ordinal = k
      BY <3>2 DEF AttemptKey
    <3>4. CASE CloseRefused(c)
      <4>1. Len(Foreseen(p)) < k /\ (k = 1 => Said("eligibility", p, 1))
        BY <3>3, <3>4 DEF CloseRefused, Doing
      <4>2. Len(Foreseen(p)) \in Nat
        BY WorldIs, ForeseenIs DEF Foreseen
      <4>3. \A n \in Nat : n < k => ~(k <= n)
        OBVIOUS
      <4>4. ~(k <= Len(Foreseen(p)))
        BY <4>1, <4>2, <4>3, Zenon
      <4>5. Done(p, k)
        BY <4>1, <4>4 DEF Done
      <4> QED BY <1>1, <4>5, DoneStays
    <3>5. CASE CloseDispatch(c)
      <4>1. /\ k \in DOMAIN attempts[p] /\ attempts[p][k].state = Foreseen(p)[k].state
            /\ Said("suppressed", p, k)
        BY <3>3, <3>5 DEF CloseDispatch, Doing
      <4>2. attempts[p][k] = Foreseen(p)[k]
        BY <1>1, <4>1, CourseTells
      <4>3. attempts[p] # <<>>
        BY <4>1
      <4>4. Done(p, k)
        BY <1>1, <4>1, <4>2, <4>3 DEF Done, Progress
      <4> QED BY <1>1, <4>4, DoneStays
    <3> QED BY <3>2, <3>4, <3>5
  <2> QED BY <2>1, <2>2
<1> QED BY <1>1, <1>2, <1>3, <1>4 DEF Progress, Follows

LEMMA TrackedStep ==
  ASSUME Ground, Tracked, NEW c \in Coordinators, Step(c), Doing(c)
  PROVE  Tracked'
<1>1. \A p \in Payments : Progress(p)'
  BY ProgressStep
<1>2. \A p \in Payments : Follows(p)
  BY FollowsStep DEF Tracked
<1>3. ASSUME NEW key \in DOMAIN steps', key[1] = "suppressed"
      PROVE  \E p \in Payments : \E k \in DOMAIN attempts'[p] : key = <<"suppressed", p, k>>
  <2>1. CASE key \in DOMAIN steps
    <3>1. PICK p \in Payments : \E k \in DOMAIN attempts[p] : key = <<"suppressed", p, k>>
      BY <1>3, <2>1 DEF Tracked
    <3> QED BY <1>2, <3>1 DEF Follows
  <2>2. CASE key \notin DOMAIN steps
    <3>1. key[1] \notin DeliveryKinds
      BY <1>3 DEF DeliveryKinds
    <3>2. Suppress(c) /\ key = AttemptKey("suppressed", c)
      BY <1>3, <2>2, <3>1, NewKeys DEF Ground
    <3>3. pc[c] \in Inside /\ me[c].ordinal \in DOMAIN attempts[me[c].payment]
      BY <3>2 DEF Suppress, Reserved, Inside
    <3>4. me[c].payment \in Payments
      BY <3>3, Situation
    <3> QED BY <1>2, <3>2, <3>3, <3>4 DEF Follows, AttemptKey
  <2> QED BY <2>1, <2>2
<1>4. ASSUME NEW s \in Outage..3, Closed(s)', NEW p \in Payments PROVE Settled(p, s)'
  <2>1. CASE Closed(s)
    BY <2>1, SaidStays DEF Tracked
  <2>2. CASE ~Closed(s)
    <3> DEFINE key == Checkpoint("stage", s)
    <3>1. key \in DOMAIN steps' \ DOMAIN steps /\ key[1] = "stage" /\ key[1] \notin DeliveryKinds
      BY <1>4, <2>2, CheckpointKey DEF Closed, DeliveryKinds
    <3>2. CloseStage(c) /\ key = Checkpoint("stage", me[c].stage)
      BY <3>1, NewKeys DEF Ground
    <3>3. s = me[c].stage
      BY <3>2, CheckpointKey
    <3>4. pc[c] = "dispatching" /\ me[c].left = {} /\ s >= Outage
      BY <3>2 DEF CloseStage, Outage
    <3>5. Settled(p, s)
      BY <3>3, <3>4 DEF Doing, Inside
    <3> QED BY <3>5, SaidStays
  <2> QED BY <2>1, <2>2
<1>5. \A s \in Outage..3 : Closed(s)' => \A p \in Payments : Settled(p, s)'
  BY <1>4
<1> QED BY <1>1, <1>3, <1>5 DEF Tracked

\* A coordinator that stays where it is.
LEMMA DoingOthers ==
  ASSUME Ground, Tracked, NEW c \in Coordinators, Step(c), \A p \in Payments : Follows(p),
         NEW b \in Coordinators, Doing(b), pc'[b] = pc[b], me'[b] = me[b]
  PROVE  Doing(b)'
<1>1. PICK m : m = me[b] /\ m = me'[b]
  OBVIOUS
<1> DEFINE p == m.payment
           k == m.ordinal
           s == m.stage
<1>2. /\ DOMAIN steps \subseteq DOMAIN steps' /\ world' = world
      /\ \A kind, q, j : Said(kind, q, j) => Said(kind, q, j)'
      /\ \A q : Foreseen(q)' = Foreseen(q)
      /\ \A q, t : Settled(q, t) => Settled(q, t)'
  BY SaidStays, GroundStep, StepsGrow DEF Ground, Base
<1>3. /\ m.known \subseteq DOMAIN steps
      /\ pc[b] \in Receiving => m.left = {}
      /\ pc[b] \in {"dispatching"} \cup Inside =>
           IF s >= Outage
           THEN \A q \in Payments : q \in m.left \/ (pc[b] \in Inside /\ q = p) \/ Settled(q, s)
           ELSE pc[b] = "dispatching" /\ m.left = {}
      /\ pc[b] \in Inside => (k >= 2 => Said("dispatch", p, 1)) /\ (k = 3 => Settled(p, s))
      /\ pc[b] = "reserving" => m.due = DueAt(world[p], k) /\ m.due + 60 <= Cutoff(s)
      /\ pc[b] = "refused" => Len(Foreseen(p)) < k /\ (k = 1 => Said("eligibility", p, 1))
      /\ pc[b] \in {"modelling", "observed", "suppressed", "reconciled"} => k \in DOMAIN attempts[p]
      /\ pc[b] \in {"observed", "suppressed", "reconciled"} => attempts[p][k].state # "reserved"
      /\ pc[b] \in {"suppressed", "reconciled"} => Said("suppressed", p, k)
      /\ pc[b] = "reconciled" => attempts[p][k].state = Foreseen(p)[k].state
  BY <1>1 DEF Doing
<1>4. pc[b] \in Inside => p \in Payments
  BY <1>1, Situation
<1>5. {"modelling", "observed", "suppressed", "reconciled"} \subseteq Inside
  BY DEF Inside
<1>6. pc[b] \in {"modelling", "observed", "suppressed", "reconciled"} => k \in DOMAIN attempts'[p]
  BY <1>3, <1>4, <1>5 DEF Follows
<1>7. pc[b] \in {"observed", "suppressed", "reconciled"} => attempts'[p][k].state # "reserved"
  BY <1>3, <1>4, <1>5 DEF Follows
<1>8. pc[b] = "reconciled" => attempts'[p][k].state = Foreseen(p)[k].state
  BY <1>3, <1>4, <1>5 DEF Follows
<1>9. pc[b] \in {"dispatching"} \cup Inside =>
           IF s >= Outage
           THEN \A q \in Payments : q \in m.left \/ (pc[b] \in Inside /\ q = p) \/ Settled(q, s)'
           ELSE pc[b] = "dispatching" /\ m.left = {}
  BY <1>2, <1>3
<1> HIDE DEF p, k, s
<1>10. p = me'[b].payment /\ k = me'[b].ordinal /\ s = me'[b].stage
  BY <1>1 DEF p, k, s
<1> QED BY <1>1, <1>2, <1>3, <1>6, <1>7, <1>8, <1>9, <1>10 DEF Doing

-----------------------------------------------------------------------------
(* What a coordinator is about                                             *)

\* What a coordinator knows only grows truer.
LEMMA DoingKnown ==
  ASSUME Ground, NEW c \in Coordinators, Doing(c), Step(c)
  PROVE  me'[c].known \subseteq DOMAIN steps'
<1>1. /\ DOMAIN steps \subseteq DOMAIN steps' /\ me[c].known \subseteq DOMAIN steps
      /\ DOMAIN me[c] = MeFields /\ "known" \in MeFields /\ Inv /\ me[c].stage \in Int
  BY StepsGrow DEF Ground, Base, Doing, Inv, Placed, MeFields
<1>2. \A from, to, changed : Move(c, from, to, changed) /\ "known" \notin changed
        => me'[c].known = me[c].known
  BY <1>1 DEF Move, Only
<1>3. CASE LoseLock(c)
  BY <1>1, <1>3, FirstMoves
<1>4. CASE Starts(c, pc[c])
  BY <1>4 DEF Starts, NewMe
<1>5. CASE Acquire(c) \/ Start(c)
  BY <1>1, <1>2, <1>5, FirstMoves
<1>6. CASE Resume(c) \/ CloseStage(c)
  <2>1. \E s \in Int : \E done : EnterStage(c, s, done)
    BY <1>1, <1>6 DEF Resume, CloseStage
  <2> QED BY <1>1, <2>1, EnteringMoves DEF Enters
<1>7. CASE Deliver(c) \/ Register(c) \/ RecordDelivery(c) \/ AllDelivered(c)
  BY <1>1, <1>2, <1>7, DeliveryMoves
<1>8. CASE \/ Analyse(c) \/ RecordEvaluation(c) \/ CloseAnalysis(c) \/ Scan(c)
           \/ Enumerate(c) \/ PlanRecovery(c) \/ AttachPlan(c) \/ ClosePlanning(c)
  BY <1>1, <1>2, <1>8, PlanningMoves
<1>9. CASE BeginSimulation(c) \/ NextPayment(c) \/ LeavePayment(c) \/ PassOver(c) \/ TakeUp(c)
  BY <1>1, <1>2, <1>9, ScheduleMoves
<1>10. CASE \/ FindReserved(c) \/ Reserve(c) \/ Refuse(c) \/ CloseRefused(c) \/ RecordOutcome(c)
            \/ Suppress(c) \/ Reconcile(c) \/ CloseDispatch(c)
  BY <1>1, <1>2, <1>10, AttemptMoves
<1>11. CASE CountSteps(c) \/ CountPayment(c)
  BY <1>1, <1>2, <1>11, ReportMoves
<1>12. CASE ReturnReport(c) \/ Finish(c) \/ Conflict(c) \/ Fail(c)
  BY <1>1, <1>4, <1>12, FirstMoves DEF Starts
<1> QED BY <1>3, <1>5, <1>6, <1>7, <1>8, <1>9, <1>10, <1>11, <1>12, OneStep

\* Where nothing more is asked of a coordinator.
LEMMA DoingAway ==
  ASSUME NEW c \in Coordinators, me'[c].known \subseteq DOMAIN steps',
         \/ pc'[c] \notin Receiving \cup {"dispatching"} \cup Inside
         \/ pc'[c] \in Receiving /\ me'[c].left = {}
  PROVE  Doing(c)'
<1>1. Receiving \cap ({"dispatching"} \cup Inside) = {} /\ "dispatching" \notin Inside
  BY Places DEF Inside
<1>2. {"reserving", "refused", "modelling", "observed", "suppressed", "reconciled"} \subseteq Inside
  BY DEF Inside
<1> QED BY <1>1, <1>2 DEF Doing

\* It takes up the next payment or stage.
LEMMA DoingDispatching ==
  ASSUME NEW c \in Coordinators, me'[c].known \subseteq DOMAIN steps', pc'[c] = "dispatching",
         IF me'[c].stage >= Outage
         THEN \A q \in Payments : q \in me'[c].left \/ Settled(q, me[c].stage)'
         ELSE me'[c].left = {}
  PROVE  Doing(c)'
<1>1. "dispatching" \notin Inside \cup Receiving
  BY Places DEF Inside
<1> QED BY <1>1 DEF Doing

\* It has a payment in hand.
LEMMA DoingConsidering ==
  ASSUME NEW c \in Coordinators, me'[c].known \subseteq DOMAIN steps', pc'[c] = "considering",
         me'[c].stage >= Outage,
         NEW p, p = me'[c].payment,
         \A q \in Payments : q \in me'[c].left \/ q = p \/ Settled(q, me[c].stage)',
         me'[c].ordinal >= 2 => Said("dispatch", p, 1)',
         me'[c].ordinal = 3 => Settled(p, me[c].stage)'
  PROVE  Doing(c)'
<1>1. "considering" \in Inside /\ "considering" \notin Receiving
  BY Places DEF Inside
<1> QED BY <1>1 DEF Doing

\* It goes on with the one it has in hand.
LEMMA DoingOn ==
  ASSUME Ground, NEW c \in Coordinators, Step(c), Doing(c), me'[c].known \subseteq DOMAIN steps',
         pc[c] \in Inside, pc'[c] \in Inside,
         NEW p, p = me[c].payment, NEW k, k = me[c].ordinal, NEW s, s = me[c].stage,
         me'[c].payment = p, me'[c].ordinal = k, me'[c].stage = s, me'[c].left = me[c].left,
         pc'[c] = "reserving" => me'[c].due = DueAt(world[p], k) /\ me'[c].due + 60 <= Cutoff(s),
         pc'[c] = "refused" => Len(Foreseen(p)) < k /\ (k = 1 => Said("eligibility", p, 1)'),
         pc'[c] \in {"modelling", "observed", "suppressed", "reconciled"} => k \in DOMAIN attempts'[p],
         pc'[c] \in {"observed", "suppressed", "reconciled"} => attempts'[p][k].state # "reserved",
         pc'[c] \in {"suppressed", "reconciled"} => Said("suppressed", p, k)',
         pc'[c] = "reconciled" => attempts'[p][k].state = Foreseen(p)[k].state
  PROVE  Doing(c)'
<1>1. /\ world' = world /\ Foreseen(p)' = Foreseen(p)
      /\ \A kind, q, j : Said(kind, q, j) => Said(kind, q, j)'
      /\ \A q, t : Settled(q, t) => Settled(q, t)'
  BY SaidStays, GroundStep
<1>2. pc'[c] \notin Receiving /\ pc[c] # "dispatching" /\ pc'[c] # "dispatching"
  BY Places DEF Inside
<1>3. /\ s >= Outage
      /\ \A q \in Payments : q \in me[c].left \/ q = p \/ Settled(q, s)
      /\ k >= 2 => Said("dispatch", p, 1)
      /\ k = 3 => Settled(p, s)
  BY <1>2 DEF Doing
<1>4. /\ \A q \in Payments : q \in me[c].left \/ q = p \/ Settled(q, s)'
      /\ k >= 2 => Said("dispatch", p, 1)'
      /\ k = 3 => Settled(p, s)'
  BY <1>1, <1>3
<1> QED BY <1>1, <1>2, <1>3, <1>4 DEF Doing

\* Where a coordinator looks for its next attempt.
LEMMA DoingBegun ==
  ASSUME Ground, Tracked, NEW c \in Coordinators, Step(c), Doing(c),
         me'[c].known \subseteq DOMAIN steps', BeginSimulation(c)
  PROVE  Doing(c)'
<1>1. /\ Move(c, "planned", "dispatching", {"known", "left"})
      /\ me'[c].left = IF me[c].stage < Outage THEN {} ELSE Enrolled
  BY ScheduleMoves DEF Ground, Base
<1>2. /\ pc[c] = "planned" /\ pc'[c] = "dispatching" /\ me'[c].stage = me[c].stage
  BY <1>1 DEF Move, Only, MeFields
<1>3. PICK s : s = me[c].stage /\ s = me'[c].stage
  BY <1>2
<1>4. /\ s \in Stages /\ Keys(s) \subseteq DOMAIN steps
      /\ \A u \in Stages : u < s => Closed(u)
  BY <1>2, <1>3, Places DEF Ground, Base, FrozenInv, Fares, ArrivedInv, Arriving, Closed
<1>5. /\ Outage \in Stages /\ s \in Int /\ Outage \in Int
      /\ s >= Outage <=> s = Outage \/ Outage < s
      /\ s < Outage <=> ~(s >= Outage)
  BY <1>4 DEF Stages, Outage
<1>6. CASE s >= Outage
  <2>1. Keys(Outage) \subseteq DOMAIN steps
    BY <1>4, <1>5, <1>6 DEF Ground, Base, ArrivedInv, Arrived
  <2>2. me'[c].left = Payments
    BY <1>1, <1>3, <1>5, <1>6, <2>1, CandidatesAre DEF Ground
  <2> QED BY <1>2, <1>3, <1>6, <2>2, DoingDispatching
<1>7. CASE ~(s >= Outage)
  <2>1. me'[c].left = {}
    BY <1>1, <1>3, <1>5, <1>7
  <2> QED BY <1>2, <1>3, <1>7, <2>1, DoingDispatching
<1> QED BY <1>6, <1>7

LEMMA DoingNext ==
  ASSUME Ground, Tracked, NEW c \in Coordinators, Step(c), Doing(c),
         me'[c].known \subseteq DOMAIN steps', NextPayment(c)
  PROVE  Doing(c)'
<1>1. /\ Move(c, "dispatching", "considering", {"payment", "ordinal", "left"})
      /\ me'[c].ordinal = 1 /\ me[c].left # {}
      /\ me'[c].payment = Least(me[c].left)
      /\ me'[c].left = me[c].left \ {me'[c].payment}
  BY ScheduleMoves DEF Ground, Base
<1>2. /\ pc[c] = "dispatching" /\ pc'[c] = "considering" /\ me'[c].stage = me[c].stage
  BY <1>1 DEF Move, Only, MeFields
<1>3. PICK s : s = me[c].stage /\ s = me'[c].stage
  BY <1>2
<1>4. /\ s >= Outage
      /\ \A q \in Payments : q \in me[c].left \/ Settled(q, s)
  BY <1>1, <1>2, <1>3, Places DEF Doing, Inside
<1>5. PICK p : p = me'[c].payment
  OBVIOUS
<1>6. \A q \in Payments : q \in me'[c].left \/ q = p \/ Settled(q, s)'
  BY <1>1, <1>4, <1>5, SaidStays
<1>7. me'[c].ordinal = 1
  BY <1>1
<1> QED BY <1>2, <1>3, <1>4, <1>5, <1>6, <1>7, DoingConsidering

\* What is known of a coordinator that considers a payment.
LEMMA Considered ==
  ASSUME Ground, NEW c \in Coordinators, Doing(c), pc[c] \in Inside
  PROVE  LET p == me[c].payment
             k == me[c].ordinal
             s == me[c].stage
         IN /\ s \in {1, 2, 3} /\ s >= Outage /\ p \in Payments /\ k \in 1..3
            /\ \A q \in Payments : q \in me[c].left \/ q = p \/ Settled(q, s)
            /\ k >= 2 => Said("dispatch", p, 1)
            /\ k = 3 => Settled(p, s)
<1>1. pc[c] # "dispatching"
  BY Places DEF Inside
<1>2. me[c].stage \in {1, 2, 3} /\ me[c].payment \in Payments /\ me[c].ordinal \in 1..3
  BY Situation
<1>3. me[c].stage >= Outage
  BY <1>2 DEF Outage
<1> QED BY <1>1, <1>2, <1>3 DEF Doing

LEMMA DoingLeft ==
  ASSUME Ground, Tracked, NEW c \in Coordinators, Step(c), Doing(c),
         me'[c].known \subseteq DOMAIN steps', LeavePayment(c)
  PROVE  Doing(c)'
<1> DEFINE p == me[c].payment
           k == me[c].ordinal
<1>1. Move(c, "considering", "dispatching", {})
  BY ScheduleMoves DEF Ground, Base
<1>2. /\ pc[c] = "considering" /\ pc'[c] = "dispatching" /\ me'[c].stage = me[c].stage
      /\ me'[c].left = me[c].left /\ pc[c] \in Inside
  BY <1>1 DEF Move, Only, MeFields, Inside
<1>3. PICK s : s = me[c].stage /\ s = me'[c].stage
  BY <1>2
<1>4. /\ s >= Outage /\ p \in Payments /\ k \in 1..3
      /\ \A q \in Payments : q \in me[c].left \/ q = p \/ Settled(q, s)
      /\ k >= 2 => Said("dispatch", p, 1)
      /\ k = 3 => Settled(p, s)
  BY <1>2, <1>3, Considered
<1>5. Settled(p, s)
  <2>1. k = 3 \/ (k = 2 /\ attempts[p] = <<>>)
    BY <1>4 DEF LeavePayment, Exhausted
  <2>2. CASE k = 2 /\ attempts[p] = <<>>
    <3>1. Done(p, 1) /\ Said("dispatch", p, 1)
      <4>1. 1 \in 1..2 /\ Progress(p) /\ Said("dispatch", p, 1)
        BY <1>4, <2>2 DEF Tracked
      <4> QED BY <4>1 DEF Progress
    <3>2. ~(1 <= Len(Foreseen(p)))
      BY <2>2, <3>1 DEF Done
    <3>3. Foreseen(p) = <<>>
      <4>1. Len(Foreseen(p)) \in 0..2 /\ (Foreseen(p) = <<>> <=> Len(Foreseen(p)) = 0)
        BY <1>4, WorldIs, ForeseenIs DEF Foreseen
      <4>2. \A n \in 0..2 : ~(1 <= n) => n = 0
        OBVIOUS
      <4> QED BY <3>2, <4>1, <4>2, Zenon
    <3> QED BY <3>1, <3>3 DEF Settled
  <2> QED BY <1>4, <2>1, <2>2
<1>6. \A q \in Payments : q \in me'[c].left \/ Settled(q, s)'
  BY <1>2, <1>4, <1>5, SaidStays
<1> QED BY <1>2, <1>3, <1>4, <1>6, DoingDispatching

LEMMA DoingPast ==
  ASSUME Ground, Tracked, NEW c \in Coordinators, Step(c), Doing(c),
         me'[c].known \subseteq DOMAIN steps', PassOver(c)
  PROVE  Doing(c)'
<1> DEFINE k == me[c].ordinal
<1>1. /\ Move(c, "considering", "considering", {"ordinal"})
      /\ me'[c].ordinal = me[c].ordinal + 1
  BY ScheduleMoves DEF Ground, Base
<1>2. /\ pc[c] = "considering" /\ pc'[c] = "considering" /\ me'[c].stage = me[c].stage
      /\ me'[c].left = me[c].left /\ me'[c].payment = me[c].payment /\ pc[c] \in Inside
  BY <1>1 DEF Move, Only, MeFields, Inside
<1>3. PICK s : s = me[c].stage /\ s = me'[c].stage
  BY <1>2
<1>4. PICK p : p = me[c].payment /\ p = me'[c].payment
  BY <1>2
<1>5. /\ s \in {1, 2, 3} /\ s >= Outage /\ p \in Payments /\ k \in 1..3
      /\ \A q \in Payments : q \in me[c].left \/ q = p \/ Settled(q, s)
      /\ k >= 2 => Said("dispatch", p, 1)
  BY <1>2, <1>3, <1>4, Considered
<1>6. ~Exhausted(c) /\ OutOfTurn(c)
  BY DEF PassOver
<1>7. k \in 1..2 /\ (k = 2 => attempts[p] # <<>>)
  BY <1>4, <1>5, <1>6 DEF Exhausted
<1>8. /\ Due(p, 1) = DueAt(world[p], 1)
      /\ attempts[p] # <<>> => Due(p, 2) = DueAt(world[p], 2)
  BY <1>2, <1>4, <1>5, DueIs DEF Tracked
<1>9. /\ DueAt(world[p], 1) + 60 <= 3120
      /\ DueAt(world[p], 2) + 60 <= 4020
      /\ DueAt(world[p], 2) + 60 > 3120 => world[p].label = "issuer_unavailable"
      /\ DueAt(world[p], 1) \in Int /\ DueAt(world[p], 2) \in Int
  <2>1. Delay(world[p]) \in {0, 30, 480}
    BY <1>5, WorldIs, Foretold
  <2> QED BY <1>5, <2>1, WorldIs, Foretold, Times DEF DueAt
<1>10. /\ Cutoff(s) >= 3120 /\ (s > Outage => Cutoff(s) >= 4020) /\ ReconcileSeconds = 60
       /\ Cutoff(s) \in Int
  BY <1>5, Times DEF Outage
<1>11. <<"dispatch", p, k>> \in me[c].known => Said("dispatch", p, k)
  BY DEF Doing, Said
<1>12. AttemptKey("dispatch", c) = <<"dispatch", p, k>>
  BY <1>4 DEF AttemptKey
<1>13. Due(p, k) + ReconcileSeconds > Cutoff(s) \/ <<"dispatch", p, k>> \in me[c].known
  BY <1>3, <1>4, <1>6, <1>12 DEF OutOfTurn
<1>14. Said("dispatch", p, 1)
  <2>1. CASE k = 1
    <3>1. ~(Due(p, 1) + ReconcileSeconds > Cutoff(s))
      BY <1>8, <1>9, <1>10
    <3> QED BY <1>11, <1>13, <2>1, <3>1
  <2> QED BY <1>5, <1>7, <2>1
<1>15. k = 2 => Settled(p, s)
  <2>1. SUFFICES ASSUME k = 2 PROVE Settled(p, s)
    OBVIOUS
  <2>2. CASE Said("dispatch", p, 2)
    BY <1>14, <2>2 DEF Settled
  <2>3. CASE Due(p, 2) + ReconcileSeconds > Cutoff(s)
    <3>1. Due(p, 2) = DueAt(world[p], 2)
      BY <1>7, <1>8, <2>1
    <3>2. world[p].label = "issuer_unavailable" /\ ~(s > Outage)
      BY <1>9, <1>10, <2>3, <3>1
    <3> QED BY <1>14, <3>2 DEF Settled
  <2> QED BY <1>11, <1>13, <2>1, <2>2, <2>3
<1>16. PICK k1 : k1 = me'[c].ordinal
  OBVIOUS
<1>17. k1 >= 2 => Said("dispatch", p, 1)'
  BY <1>14, SaidStays
<1>18. k1 = 3 => Settled(p, s)'
  <2>1. k1 = 3 => k = 2
    BY <1>1, <1>7, <1>16
  <2> QED BY <1>15, <2>1, SaidStays
<1>19. \A q \in Payments : q \in me'[c].left \/ q = p \/ Settled(q, s)'
  BY <1>2, <1>5, SaidStays
<1> QED BY <1>2, <1>3, <1>4, <1>5, <1>16, <1>17, <1>18, <1>19, DoingConsidering

LEMMA DoingTaken ==
  ASSUME Ground, Tracked, NEW c \in Coordinators, Step(c), Doing(c),
         me'[c].known \subseteq DOMAIN steps', TakeUp(c)
  PROVE  Doing(c)'
<1> DEFINE p == me[c].payment
           k == me[c].ordinal
           s == me[c].stage
<1>1. /\ Move(c, "considering", "reserving", {"due"})
      /\ me'[c].due = Due(p, k)
  BY ScheduleMoves DEF Ground, Base
<1>2. /\ pc[c] = "considering" /\ pc'[c] = "reserving" /\ pc[c] \in Inside /\ pc'[c] \in Inside
      /\ me'[c].payment = p /\ me'[c].ordinal = k /\ me'[c].stage = s /\ me'[c].left = me[c].left
  BY <1>1 DEF Move, Only, MeFields, Inside
<1>3. s \in {1, 2, 3} /\ p \in Payments /\ k \in 1..3
  BY <1>2, Considered
<1>4. ~Exhausted(c) /\ ~OutOfTurn(c)
  BY DEF TakeUp
<1>5. k \in 1..2 /\ (k = 2 => attempts[p] # <<>>)
  BY <1>3, <1>4 DEF Exhausted
<1>6. Due(p, k) = DueAt(world[p], k)
  BY <1>2, <1>3, <1>5, DueIs DEF Tracked
<1>7. DueAt(world[p], k) + 60 <= Cutoff(s)
  <2>1. Delay(world[p]) \in {0, 30, 480}
    BY <1>3, WorldIs, Foretold
  <2>2. DueAt(world[p], k) \in Int /\ Cutoff(s) \in Int
    BY <1>3, <1>5, <2>1, Times DEF DueAt
  <2>3. ~(DueAt(world[p], k) + 60 > Cutoff(s))
    BY <1>4, <1>6, Times DEF OutOfTurn
  <2> QED BY <2>2, <2>3
<1> HIDE DEF p, k, s
<1>8. me'[c].due = DueAt(world[p], k) /\ me'[c].due + 60 <= Cutoff(s)
  BY <1>1, <1>6, <1>7
<1>9. p = me[c].payment /\ k = me[c].ordinal /\ s = me[c].stage
  BY DEF p, k, s
<1> QED BY <1>2, <1>8, <1>9, DoingOn

\* After reconciliation an attempt is as foreseen.
LEMMA ReconcileReveals ==
  ASSUME Ground, NEW c \in Coordinators, NEW p \in Payments, p = me[c].payment,
         NEW k \in DOMAIN attempts[p], k = me[c].ordinal,
         Progress(p), Reconcile(c), attempts[p][k].state # "reserved"
  PROVE  attempts'[p][k].state = Foreseen(p)[k].state
<1> DEFINE w == world[p]
           r == attempts[p][k]
           x == Foreseen(p)[k]
           revealed == IF w.reconcilable THEN r.truth ELSE "uncertain"
<1>1. /\ r \in AttemptRecord /\ x = ExpectedAttempt(w, DueAt(w, k)) /\ x.at = DueAt(w, k)
      /\ r.truth = Truth(w, x.at)
      /\ r.state = "uncertain" => w.lost
      /\ r.state \in {"failed", "succeeded"} => r.state = x.state
  BY CourseTells
<1>2. attempts \in [Payments -> Seq(AttemptRecord)]
  BY DEF Ground, Base, Inv, Attempted
<1>3. r.state \in {"uncertain", "failed", "succeeded"}
  BY <1>1 DEF AttemptRecord, AttemptStates
<1>4. CASE r.state # "uncertain"
  <2>1. attempts' = attempts
    BY <1>4, Zenon DEF Reconcile
  <2> QED BY <1>1, <1>3, <1>4, <2>1
<1>5. CASE r.state = "uncertain"
  <2>1. attempts' = [attempts EXCEPT ![p][k].state = revealed]
    BY <1>5 DEF Reconcile
  <2>2. revealed = x.state
    <3>1. x.state = IF w.reconcilable THEN Truth(w, x.at) ELSE "uncertain"
      <4>1. w.lost
        BY <1>1, <1>5
      <4> HIDE DEF w, x
      <4> QED BY <1>1, <4>1, ExpectedIs
    <3> QED BY <1>1, <3>1
  <2> HIDE DEF revealed
  <2>3. attempts'[p][k].state = revealed
    BY <1>1, <1>2, <2>1 DEF AttemptRecord
  <2> QED BY <2>2, <2>3
<1> QED BY <1>4, <1>5

\* In the turn of an attempt.
LEMMA DoingTurn ==
  ASSUME Ground, Tracked, NEW c \in Coordinators, Step(c), Doing(c), \A q \in Payments : Follows(q),
         me'[c].known \subseteq DOMAIN steps',
         \/ FindReserved(c) \/ Reserve(c) \/ Refuse(c) \/ RecordOutcome(c) \/ Suppress(c)
         \/ Reconcile(c),
         NEW p, p = me[c].payment, NEW k, k = me[c].ordinal, NEW s, s = me[c].stage
  PROVE  Doing(c)'
<1>1. /\ FindReserved(c) \/ Reserve(c) => Move(c, "reserving", "modelling", {})
      /\ Refuse(c) => Move(c, "reserving", "refused", {})
      /\ RecordOutcome(c) => Move(c, "modelling", "observed", {})
      /\ Suppress(c) => Move(c, "observed", "suppressed", {})
      /\ Reconcile(c) => Move(c, "suppressed", "reconciled", {})
  BY AttemptMoves DEF Ground, Base
<1>2. \A from, to : Move(c, from, to, {}) =>
        /\ pc[c] = from /\ pc'[c] = to
        /\ me'[c].payment = p /\ me'[c].ordinal = k /\ me'[c].stage = s /\ me'[c].left = me[c].left
  BY DEF Move, Only, MeFields
<1>3. Inside = {"considering", "reserving", "refused", "modelling", "observed", "suppressed",
                "reconciled"}
  BY DEF Inside
<1>4. pc[c] \in Inside
  BY <1>1, <1>2, <1>3
<1>5. p \in Payments /\ Follows(p) /\ Progress(p)
  BY <1>4, Situation DEF Tracked
<1>6. /\ \A kind, j : Said(kind, p, j) => Said(kind, p, j)'
      /\ Shaped /\ Attempted
  BY SaidStays DEF Ground, Base, Inv
<1>7. /\ pc[c] \in {"modelling", "observed", "suppressed", "reconciled"} => k \in DOMAIN attempts[p]
      /\ pc[c] \in {"observed", "suppressed", "reconciled"} => attempts[p][k].state # "reserved"
      /\ pc[c] \in {"suppressed", "reconciled"} => Said("suppressed", p, k)
  BY DEF Doing
<1>8. k \in DOMAIN attempts[p] =>
        /\ k \in DOMAIN attempts'[p]
        /\ attempts[p][k].state # "reserved" => attempts'[p][k].state # "reserved"
  BY <1>5 DEF Follows
<1>9. p = me[c].payment /\ k = me[c].ordinal /\ s = me[c].stage
  OBVIOUS
<1>10. CASE FindReserved(c)
  <2>1. k \in DOMAIN attempts[p]
    BY <1>10 DEF FindReserved, Reserved
  <2>2. k \in DOMAIN attempts'[p]
    BY <1>8, <2>1
  <2> QED BY <1>1, <1>2, <1>3, <1>9, <1>10, <2>2, DoingOn
<1>11. CASE Reserve(c)
  <2>1. /\ Added(p, me[c].due) /\ me[c].due \in Int /\ k = Len(attempts[p]) + 1
    BY <1>11, ReserveEffect DEF Ground, Base
  <2>2. DOMAIN attempts'[p] = 1..(Len(attempts[p]) + 1) /\ Len(attempts[p]) \in Nat
    <3> DEFINE due == me[c].due
    <3> HIDE DEF due
    <3>1. Added(p, due) /\ due \in Int
      BY <2>1 DEF due
    <3> QED BY <1>5, <1>6, <3>1, AddedTyped
  <2>3. k \in DOMAIN attempts'[p]
    BY <2>1, <2>2
  <2> QED BY <1>1, <1>2, <1>3, <1>9, <1>11, <2>3, DoingOn
<1>12. CASE Refuse(c)
  <2>1. Len(Foreseen(p)) < k /\ (k = 1 => Said("eligibility", p, 1)')
    BY <1>12, RefuseOnCourse DEF Said
  <2> QED BY <1>1, <1>2, <1>3, <1>9, <1>12, <2>1, DoingOn
<1>13. CASE RecordOutcome(c)
  <2>1. k \in DOMAIN attempts'[p]
    BY <1>1, <1>2, <1>7, <1>8, <1>13
  <2>2. attempts'[p][k].state # "reserved"
    <3>1. CASE attempts[p][k].state # "reserved"
      BY <1>1, <1>2, <1>7, <1>8, <1>13, <3>1
    <3>2. CASE attempts' # attempts
      <4>1. /\ attempts[p][k].state = "reserved"
            /\ Replaced(p, k, Observed(world[p], attempts[p][k].at), Truth(world[p], attempts[p][k].at))
        BY <1>13, <3>2, OutcomeEffect DEF Ground, Base
      <4>2. attempts'[p][k].state = Observed(world[p], attempts[p][k].at)
        BY <4>1 DEF Replaced
      <4> QED BY <4>2, ModelAnswers
    <3>3. CASE attempts' = attempts /\ attempts[p][k].state = "reserved"
      <4>1. attempts' = [attempts EXCEPT ![p][k] = Modelled(p, attempts[p][k].at)]
        BY <1>13, <3>3 DEF RecordOutcome
      <4>2. attempts'[p][k] = Modelled(p, attempts[p][k].at)
        BY <1>5, <1>6, <1>1, <1>2, <1>7, <1>13, <4>1 DEF Attempted
      <4> QED BY <4>2, ModelAnswers DEF Modelled
    <3> QED BY <3>1, <3>2, <3>3
  <2> QED BY <1>1, <1>2, <1>3, <1>9, <1>13, <2>1, <2>2, DoingOn
<1>14. CASE Suppress(c)
  <2>1. k \in DOMAIN attempts'[p] /\ attempts'[p][k].state # "reserved"
    BY <1>1, <1>2, <1>7, <1>8, <1>14
  <2>2. Said("suppressed", p, k)'
    <3>1. AppendStep(<<"suppressed", p, k>>, "suppressed")
      BY <1>14 DEF Suppress, Record, AttemptKey
    <3> QED BY <3>1, AppendKeeps DEF Said
  <2> QED BY <1>1, <1>2, <1>3, <1>9, <1>14, <2>1, <2>2, DoingOn
<1>15. CASE Reconcile(c)
  <2>1. /\ k \in DOMAIN attempts'[p] /\ attempts'[p][k].state # "reserved"
        /\ Said("suppressed", p, k)' /\ k \in DOMAIN attempts[p] /\ attempts[p][k].state # "reserved"
    BY <1>1, <1>2, <1>6, <1>7, <1>8, <1>15
  <2>2. attempts'[p][k].state = Foreseen(p)[k].state
    BY <1>5, <1>9, <1>15, <2>1, ReconcileReveals
  <2> QED BY <1>1, <1>2, <1>3, <1>9, <1>15, <2>1, <2>2, DoingOn
<1> QED BY <1>10, <1>11, <1>12, <1>13, <1>14, <1>15

\* At the end of a dispatch.
LEMMA DoingClosed ==
  ASSUME Ground, Tracked, NEW c \in Coordinators, Step(c), Doing(c),
         me'[c].known \subseteq DOMAIN steps',
         CloseRefused(c) \/ CloseDispatch(c)
  PROVE  Doing(c)'
<1>1. /\ CloseRefused(c) => Move(c, "refused", "dispatching", {})
      /\ CloseDispatch(c) => /\ Move(c, "reconciled", "considering", {"ordinal"})
                             /\ me'[c].ordinal = me[c].ordinal + 1
  BY AttemptMoves DEF Ground, Base
<1>2. /\ me'[c].stage = me[c].stage /\ me'[c].left = me[c].left /\ me'[c].payment = me[c].payment
      /\ pc[c] \in InTurn /\ pc[c] \in Inside
  BY <1>1 DEF Move, Only, MeFields, Inside, InTurn
<1>3. PICK s : s = me[c].stage /\ s = me'[c].stage
  BY <1>2
<1>4. PICK p : p = me[c].payment /\ p = me'[c].payment
  BY <1>2
<1>5. PICK k : k = me[c].ordinal
  OBVIOUS
<1>6. /\ s >= Outage /\ p \in Payments /\ k \in 1..2
      /\ \A q \in Payments : q \in me[c].left \/ q = p \/ Settled(q, s)
      /\ k >= 2 => Said("dispatch", p, 1)
  BY <1>2, <1>3, <1>4, <1>5, Considered DEF Ground, Base, Inv, Placed
<1>7. AppendStep(<<"dispatch", p, k>>, "checkpoint")
  BY <1>4, <1>5 DEF CloseRefused, CloseDispatch, Record, AttemptKey
<1>8. /\ Said("dispatch", p, k)'
      /\ \A kind, q, j : Said(kind, q, j) => Said(kind, q, j)'
      /\ \A q : Foreseen(q)' = Foreseen(q)
      /\ \A q, t : Settled(q, t) => Settled(q, t)'
      /\ world' = world
  BY <1>7, AppendKeeps, SaidStays, GroundStep DEF Said
<1>9. Said("dispatch", p, 1)'
  BY <1>6, <1>8
<1>10. CASE CloseRefused(c)
  <2>1. Len(Foreseen(p)) < k
    BY <1>4, <1>5, <1>10 DEF CloseRefused, Doing
  <2>2. Settled(p, s)'
    <3>1. CASE k = 2
      BY <1>8, <1>9, <3>1 DEF Settled
    <3>2. CASE k = 1
      <4>1. Len(Foreseen(p)) \in 0..2 /\ (Foreseen(p) = <<>> <=> Len(Foreseen(p)) = 0)
        BY <1>6, WorldIs, ForeseenIs DEF Foreseen
      <4>2. \A n \in 0..2 : n < 1 => n = 0
        OBVIOUS
      <4>3. Foreseen(p) = <<>>
        BY <2>1, <3>2, <4>1, <4>2, Zenon
      <4> QED BY <1>8, <1>9, <4>3 DEF Settled
    <3> QED BY <1>6, <3>1, <3>2
  <2>3. \A q \in Payments : q \in me'[c].left \/ Settled(q, s)'
    BY <1>2, <1>6, <1>8, <2>2
  <2>4. pc'[c] = "dispatching"
    BY <1>1, <1>10 DEF Move
  <2> QED BY <1>3, <1>6, <2>3, <2>4, DoingDispatching
<1>11. CASE CloseDispatch(c)
  <2>1. PICK k1 : k1 = me'[c].ordinal
    OBVIOUS
  <2>2. k1 = k + 1 /\ pc'[c] = "considering"
    BY <1>1, <1>5, <1>11, <2>1 DEF Move
  <2>3. k1 = 3 => Settled(p, s)'
    <3>1. k1 = 3 => k = 2
      BY <1>6, <2>2
    <3> QED BY <1>8, <1>9, <3>1 DEF Settled
  <2>4. \A q \in Payments : q \in me'[c].left \/ q = p \/ Settled(q, s)'
    BY <1>2, <1>6, <1>8
  <2> QED BY <1>3, <1>4, <1>6, <1>9, <2>1, <2>2, <2>3, <2>4, DoingConsidering
<1> QED BY <1>10, <1>11

\* Until the simulation of a stage nothing is left over.
LEMMA DoingReceiving ==
  ASSUME Ground, NEW c \in Coordinators, Step(c), Doing(c),
         me'[c].known \subseteq DOMAIN steps',
         Deliver(c) \/ Register(c) \/ RecordDelivery(c) \/ AllDelivered(c)
  PROVE  Doing(c)'
<1>1. \E from \in Receiving : \E to \in {"registering", "recording", "delivering", "dispatching",
                                         "scanning", "analysing"} :
        \E changed \in SUBSET {"delivery", "done"} :
          Move(c, from, to, changed) /\ (to \notin Receiving => AllDelivered(c))
  <2>1. Receiving = {"delivering", "registering", "recording"}
    BY Places
  <2>2. CASE Deliver(c)
    BY <2>1, <2>2, DeliveryMoves DEF Ground, Base
  <2>3. CASE Register(c) \/ RecordDelivery(c)
    BY <2>1, <2>3, DeliveryMoves DEF Ground, Base
  <2>4. CASE AllDelivered(c)
    BY <2>1, <2>4, DeliveryMoves DEF Ground, Base
  <2> QED BY <2>2, <2>3, <2>4
<1>2. PICK from \in Receiving,
           to \in {"registering", "recording", "delivering", "dispatching", "scanning", "analysing"},
           changed \in SUBSET {"delivery", "done"} :
        Move(c, from, to, changed) /\ (to \notin Receiving => AllDelivered(c))
  BY <1>1
<1>3. /\ pc[c] \in Receiving /\ pc'[c] = to /\ me'[c].left = me[c].left
      /\ me'[c].stage = me[c].stage
  BY <1>2 DEF Move, Only, MeFields
<1>4. me'[c].left = {}
  BY <1>3 DEF Doing
<1>5. CASE pc'[c] \in Receiving \cup {"scanning", "analysing"}
  BY <1>4, <1>5, DoingAway, Places DEF Inside
<1>6. CASE pc'[c] = "dispatching"
  <2>1. AllDelivered(c)
    BY <1>2, <1>3, <1>6, Places
  <2>2. me'[c].stage = -1
    BY <1>3, <1>6, <2>1 DEF AllDelivered, Local, Goto, Ground, Base, Inv, Shaped
  <2>3. ~(me'[c].stage >= Outage)
    BY <2>2 DEF Outage
  <2> QED BY <1>4, <1>6, <2>3, DoingDispatching
<1> QED BY <1>2, <1>3, <1>5, <1>6, Places

LEMMA DoingStep ==
  ASSUME Ground, Tracked, NEW c \in Coordinators, Step(c), Doing(c), \A p \in Payments : Follows(p)
  PROVE  Doing(c)'
<1>1. me'[c].known \subseteq DOMAIN steps'
  BY DoingKnown
<1>2. \A from, to, changed : Move(c, from, to, changed) => pc'[c] = to
  BY DEF Move
<1>3. \A to : pc'[c] = to /\ to \in Outside \cup Looking \cup Scanned => Doing(c)'
  BY <1>1, DoingAway, Places DEF Inside
<1>4. CASE LoseLock(c)
  BY <1>4, FirstMoves, DoingOthers DEF Ground, Base
<1>5. CASE \/ Acquire(c) \/ Start(c) \/ ReturnReport(c) \/ Finish(c) \/ Conflict(c) \/ Fail(c)
  BY <1>2, <1>3, <1>5, FirstMoves, Places DEF Ground, Base, Starts
<1>6. CASE Resume(c) \/ CloseStage(c)
  <2>1. \E s \in Int : \E done : EnterStage(c, s, done)
    BY <1>6 DEF Resume, CloseStage, Ground, Base, Inv, Placed
  <2>2. me'[c].left = {} /\ pc'[c] \in {"delivering", "reporting"}
    BY <2>1, EnteringMoves DEF Enters, Ground, Base
  <2> QED BY <1>1, <2>2, DoingAway, Places DEF Inside
<1>7. CASE Deliver(c) \/ Register(c) \/ RecordDelivery(c) \/ AllDelivered(c)
  BY <1>1, <1>7, DoingReceiving
<1>8. CASE \/ Analyse(c) \/ RecordEvaluation(c) \/ CloseAnalysis(c) \/ Scan(c)
           \/ Enumerate(c) \/ PlanRecovery(c) \/ AttachPlan(c) \/ ClosePlanning(c)
  BY <1>2, <1>3, <1>8, PlanningMoves, Places DEF Ground, Base
<1>9. CASE BeginSimulation(c) \/ NextPayment(c) \/ LeavePayment(c) \/ PassOver(c) \/ TakeUp(c)
  BY <1>1, <1>9, DoingBegun, DoingNext, DoingLeft, DoingPast, DoingTaken
<1>10. CASE \/ FindReserved(c) \/ Reserve(c) \/ Refuse(c) \/ RecordOutcome(c)
            \/ Suppress(c) \/ Reconcile(c)
  BY <1>1, <1>10, DoingTurn
<1>11. CASE CloseRefused(c) \/ CloseDispatch(c)
  BY <1>1, <1>11, DoingClosed
<1>12. CASE CountSteps(c) \/ CountPayment(c)
  BY <1>2, <1>3, <1>12, ReportMoves, Places DEF Ground, Base
<1> QED BY <1>4, <1>5, <1>6, <1>7, <1>8, <1>9, <1>10, <1>11, <1>12, OneStep

LEMMA TrackedInvStep ==
  ASSUME Ground, TrackedInv, NEW c \in Coordinators, Step(c)
  PROVE  TrackedInv'
<1>1. \A p \in Payments : Follows(p)
  BY FollowsStep DEF TrackedInv, Tracked
<1>2. Tracked' /\ Doing(c)'
  BY <1>1, TrackedStep, DoingStep DEF TrackedInv
<1>3. ASSUME NEW b \in Coordinators \ {c} PROVE Doing(b)'
  <2>1. pc'[b] = pc[b] /\ me'[b] = me[b]
    BY OthersStep DEF OthersStay, Ground, Base, Inv
  <2> QED BY <1>1, <2>1, DoingOthers DEF TrackedInv
<1> QED BY <1>2, <1>3 DEF TrackedInv

LEMMA TrackedStutters ==
  ASSUME TrackedInv, UNCHANGED vars
  PROVE  TrackedInv'
<1>1. UNCHANGED <<world, pc, me, steps, attempts>>
  BY DEF vars, db
<1>2. /\ \A p : Foreseen(p)' = Foreseen(p)
      /\ \A kind, p, k : Said(kind, p, k)' <=> Said(kind, p, k)
      /\ \A s : Closed(s)' <=> Closed(s)
  BY <1>1 DEF Foreseen, Said, Closed
<1>3. /\ \A p, s : Settled(p, s)' <=> Settled(p, s)
      /\ \A p, k : OnCourse(p, k)' <=> OnCourse(p, k)
      /\ \A p, k : Done(p, k)' <=> Done(p, k)
  BY <1>1, <1>2 DEF Settled, OnCourse, Done
<1>4. ASSUME NEW p \in Payments PROVE Progress(p)'
  <2>1. Progress(p)
    BY DEF TrackedInv, Tracked
  <2> QED BY <1>1, <1>2, <1>3, <2>1 DEF Progress
<1>5. Tracked'
  BY <1>1, <1>2, <1>3, <1>4 DEF TrackedInv, Tracked
<1>6. ASSUME NEW c \in Coordinators PROVE Doing(c)'
  <2>1. Doing(c)
    BY DEF TrackedInv
  <2>2. PICK m : m = me[c] /\ m = me'[c]
    BY <1>1
  <2>3. PICK p, k, s : /\ p = m.payment /\ k = m.ordinal /\ s = m.stage
    OBVIOUS
  <2>4. /\ p = me'[c].payment /\ k = me'[c].ordinal /\ s = me'[c].stage
        /\ p = me[c].payment /\ k = me[c].ordinal /\ s = me[c].stage
    BY <2>2, <2>3
  <2> QED BY <1>1, <1>2, <1>3, <2>1, <2>4 DEF Doing
<1> QED BY <1>5, <1>6 DEF TrackedInv

LEMMA TrackedInitially ==
  Init => TrackedInv
<1> SUFFICES ASSUME Init PROVE TrackedInv
  OBVIOUS
<1>1. steps = <<>> /\ DOMAIN steps = {} /\ \A p \in Payments : attempts[p] = <<>>
  BY DEF Init
<1>2. ASSUME NEW p \in Payments PROVE Progress(p)
  <2>1. world[p] \in World
    BY ScenariosAssumption DEF Init
  <2>2. Len(Foreseen(p)) \in 0..2
    BY <2>1, ForeseenIs DEF Foreseen
  <2>3. Len(attempts[p]) = 0 /\ DOMAIN attempts[p] = {}
    BY <1>1
  <2>4. 0 <= Len(Foreseen(p))
    BY <2>2
  <2> QED BY <1>1, <2>3, <2>4 DEF Progress, Said
<1>3. Tracked
  BY <1>1, <1>2 DEF Tracked, Closed
<1>4. \A c \in Coordinators : pc[c] = "idle" /\ me[c].known = {}
  BY DEF Init, NewMe
<1>5. \A c \in Coordinators : Doing(c)
  BY <1>4, Places DEF Doing, Inside
<1> QED BY <1>3, <1>5 DEF TrackedInv

\* Whatever fails and whoever takes over, a payment's attempts are a beginning of
\* those its scenario foretells, each of them as foreseen or on its way there;
\* a closed dispatch has brought its attempt to the foreseen end, and a closed
\* stage every payment's that fell due.
THEOREM Attempts ==
  Spec => []TrackedInv
<1>1. Inv /\ FrozenInv /\ ArrivedInv /\ PlannedInv /\ TrackedInv /\ [Next]_vars => TrackedInv'
  BY TrackedInvStep, TrackedStutters, Steps DEF Ground, Base
<1> QED BY Invariance, Freezing, Arrivals, Plannings, TrackedInitially, <1>1, PTL DEF Spec

-----------------------------------------------------------------------------
(* What the report counts                                                  *)

AllClosed == \A s \in Stages : Closed(s)

LEMMA PairIs ==
  ASSUME NEW S, NEW s \in Seq(S)
  PROVE  /\ Len(s) = 0 => s = <<>>
         /\ Len(s) = 1 => s = <<s[1]>>
         /\ Len(s) = 2 => s = <<s[1], s[2]>>
OBVIOUS

\* Once all stages are closed every payment has the foreseen attempts.
LEMMA AllSettled ==
  ASSUME Ground, Tracked, AllClosed, NEW p \in Payments
  PROVE  /\ attempts[p] = Foreseen(p)
         /\ \A k \in DOMAIN Foreseen(p) : Said("suppressed", p, k)
         /\ Said("eligibility", p, 1) /\ steps[<<"eligibility", p, 1>>] = ExpectedReason(world[p])
<1> DEFINE E == Foreseen(p)
           w == world[p]
<1>1. Settled(p, 3) /\ Progress(p) /\ 3 > Outage
  BY DEF Tracked, AllClosed, Stages, Outage
<1>2. 1 \in 1..2 /\ 2 \in 1..2
  OBVIOUS
<1>3. Done(p, 1) /\ (E # <<>> => Done(p, 2))
  BY <1>1, <1>2 DEF Settled, Progress
<1>4. w \in World /\ attempts[p] \in Seq(AttemptRecord)
  BY WorldIs DEF Ground, Base, Inv, Attempted
<1>5. Len(attempts[p]) <= Len(E)
  BY <1>1 DEF Progress
<1>6. Said("eligibility", p, 1) /\ steps[<<"eligibility", p, 1>>] = ExpectedReason(world[p])
  BY <1>1, <1>3 DEF Done, Progress
<1>7. \/ E = <<>>
      \/ E = <<ExpectedAttempt(w, DueAt(w, 1)), ExpectedAttempt(w, DueAt(w, 2))>>
      \/ E = <<ExpectedAttempt(w, DueAt(w, 1))>>
  BY <1>4, Foretold DEF Foreseen
<1>8. Len(attempts[p]) \in Nat /\ DOMAIN attempts[p] = 1..Len(attempts[p])
  BY <1>4
<1> DEFINE x == ExpectedAttempt(w, DueAt(w, 1))
           y == ExpectedAttempt(w, DueAt(w, 2))
<1> HIDE DEF x, y
<1>9. CASE E = <<>>
  <2>1. Len(E) = 0 /\ DOMAIN E = {}
    BY <1>9
  <2>2. Len(attempts[p]) = 0
    BY <1>5, <1>8, <2>1
  <2>3. attempts[p] = <<>>
    BY <1>4, <2>2, PairIs
  <2> QED BY <1>6, <1>9, <2>1, <2>3
<1>10. CASE E = <<x>>
  <2>1. Len(E) = 1 /\ DOMAIN E = {1} /\ E[1] = x /\ E # <<>>
    <3> HIDE DEF E
    <3> QED BY <1>10
  <2>2. 1 \in DOMAIN attempts[p] /\ attempts[p][1] = x /\ Said("suppressed", p, 1)
    <3>1. 1 <= Len(E)
      <4> HIDE DEF E
      <4> QED BY <2>1
    <3> QED BY <1>3, <2>1, <3>1, Zenon DEF Done
  <2>3. Len(attempts[p]) = 1
    <3>1. \A n \in Nat : n <= 1 /\ 1 \in 1..n => n = 1
      OBVIOUS
    <3> QED BY <1>5, <1>8, <2>1, <2>2, <3>1, Zenon
  <2>4. attempts[p] = <<x>>
    BY <1>4, <2>2, <2>3, PairIs
  <2> QED BY <1>6, <1>10, <2>1, <2>2, <2>4
<1>11. CASE E = <<x, y>>
  <2>1. Len(E) = 2 /\ DOMAIN E = {1, 2} /\ E[1] = x /\ E[2] = y /\ E # <<>>
    <3> HIDE DEF E
    <3> QED BY <1>11
  <2>2. /\ 1 \in DOMAIN attempts[p] /\ attempts[p][1] = x /\ Said("suppressed", p, 1)
        /\ 2 \in DOMAIN attempts[p] /\ attempts[p][2] = y /\ Said("suppressed", p, 2)
    <3>1. 1 <= Len(E) /\ 2 <= Len(E)
      <4> HIDE DEF E
      <4> QED BY <2>1
    <3> QED BY <1>3, <2>1, <3>1, Zenon DEF Done
  <2>3. Len(attempts[p]) = 2
    <3>1. \A n \in Nat : n <= 2 /\ 2 \in 1..n => n = 2
      OBVIOUS
    <3> QED BY <1>5, <1>8, <2>1, <2>2, <3>1, Zenon
  <2>4. attempts[p] = <<x, y>>
    BY <1>4, <2>2, <2>3, PairIs
  <2> QED BY <1>6, <1>11, <2>1, <2>2, <2>4
<1> QED BY <1>7, <1>9, <1>10, <1>11 DEF x, y

LEMMA AmountsIs ==
  ASSUME NEW S, NEW x
  PROVE  /\ S = {x} => Cardinality(S) = 1
         /\ (\E a, b \in S : a # b) => Cardinality(S) # 1 \/ ~IsFiniteSet(S)
<1>1. S = {x} => Cardinality(S) = 1
  BY FS_Singleton
<1>2. IsFiniteSet(S) /\ Cardinality(S) = 1 => \E y : S = {y}
  BY FS_Singleton
<1> QED BY <1>1, <1>2

\* A payment is accounted for by its scenario, whenever all has arrived.
LEMMA CategoryIs ==
  ASSUME Ground, Tracked, AllClosed, NEW p \in Enrolled
  PROVE  Classify(Cardinality({e.amount : e \in Own(p)}), \E e \in Own(p) : e.status = "success",
                  "succeeded" \in States(attempts[p])) = ExpectedCategory(world[p])
<1> DEFINE w == world[p]
           f == FailedEvent(p, w)
           h == HistoryEvent(p, w)
           l == LateSuccess(p)
           amounts == {e.amount : e \in Own(p)}
           success == \E e \in Own(p) : e.status = "success"
<1>1. p \in Payments /\ w \in World /\ w.extra \in {"none", "amount", "success"}
  BY WorldIs DEF Enrolled, World
<1>2. By(All, Outage) \subseteq events /\ By(All, Outage + 1) \subseteq events
  BY DEF AllClosed, Closed, Stages, Outage, Ground, Base, FrozenInv, Paths
<1>3. /\ \A e \in Own(p) : e = f \/ (w.extra # "none" /\ e = h) \/ (w.late /\ e = l)
      /\ f \in Own(p) /\ (w.extra # "none" => h \in Own(p)) /\ (w.late => l \in Own(p))
  BY <1>2, OwnEvents DEF Ground, Base
<1>4. /\ f.status = "failed" /\ f.amount = 1
      /\ l.status = "success" /\ l.amount = 1
      /\ w.extra = "amount" => h.status = "failed" /\ h.amount = 2
      /\ w.extra # "amount" => h.status = "success" /\ h.amount = 1
  BY EventFields DEF LateSuccess
<1>5. States(attempts[p]) = States(ExpectedAttempts(w))
  BY <1>1, AllSettled DEF Foreseen
<1> HIDE DEF w, f, h, l
<1>6. success <=> w.extra = "success" \/ w.late
  BY <1>1, <1>3, <1>4
<1>7. CASE w.extra = "amount"
  <2>1. amounts = {1, 2}
    BY <1>3, <1>4, <1>7
  <2>2. Cardinality({1, 2}) # 1
    <3>1. IsFiniteSet({1})
      BY FS_Singleton
    <3>a. {1} \cup {2} = {1, 2} /\ \E a, b \in {1, 2} : a # b
      OBVIOUS
    <3>2. IsFiniteSet({1, 2})
      BY <3>1, <3>a, FS_AddElement
    <3> QED BY <3>2, <3>a, AmountsIs
  <2> QED BY <1>7, <2>1, <2>2 DEF Classify, ExpectedCategory, w
<1>8. CASE w.extra # "amount"
  <2>1. amounts = {1}
    BY <1>3, <1>4, <1>8
  <2>2. Cardinality({1}) = 1
    BY FS_Singleton
  <2>3. Cardinality(amounts) = 1
    BY <2>1, <2>2
  <2> HIDE DEF amounts, success
  <2>4. Classify(Cardinality(amounts), success, "succeeded" \in States(attempts[p]))
          = IF success THEN "already_successful"
            ELSE IF "succeeded" \in States(attempts[p]) THEN "simulated_recovered" ELSE "unresolved"
    BY <2>3 DEF Classify
  <2>5. ExpectedCategory(w) =
          IF w.extra = "success" \/ w.late THEN "already_successful"
          ELSE IF "succeeded" \in States(ExpectedAttempts(w)) THEN "simulated_recovered"
          ELSE "unresolved"
    BY <1>8, Zenon DEF ExpectedCategory
  <2> QED BY <1>5, <1>6, <2>4, <2>5 DEF amounts, success, w
<1> QED BY <1>7, <1>8

\* The report once the payments in P have been accounted for.
Accounts(P) ==
  {Account(p, ExpectedCategory(world[p]), ExpectedAttempts(world[p])) : p \in P}

Partial(P) ==
  [deliveries |-> ExpectedReport.deliveries, evaluations |-> ExpectedReport.evaluations,
   decisions |-> ExpectedReport.decisions, suppressed |-> ExpectedReport.suppressed,
   accounts |-> Accounts(P)]

LEMMA PartialIs ==
  Partial(Payments) = ExpectedReport /\ ExpectedReport # NoReport
<1>1. ExpectedReport # NoReport
  <2>1. "accounts" \in DOMAIN ExpectedReport
    BY DEF ExpectedReport
  <2>2. "accounts" \notin DOMAIN NoReport
    BY DEF NoReport
  <2> QED BY <2>1, <2>2, Zenon
<1>2. Partial(Payments) = ExpectedReport
  <2>1. \A d, e, f, g, a :
          LET r == [deliveries |-> d, evaluations |-> e, decisions |-> f, suppressed |-> g, accounts |-> a]
          IN r.deliveries = d /\ r.evaluations = e /\ r.decisions = f /\ r.suppressed = g
    OBVIOUS
  <2> QED BY <2>1, Zenon DEF Partial, ExpectedReport, Accounts
<1> QED BY <1>1, <1>2

LEMMA CountedDeliveries ==
  ASSUME Ground, AllClosed
  PROVE  {k \in DOMAIN steps : k[1] \in {"event", "duplicate", "history", "late"}}
           = {d.key : d \in UNION {StageDeliveries(s) : s \in Stages}}
<1>1. DeliveryKinds = {"event", "duplicate", "history", "late"}
  BY DEF DeliveryKinds
<1>2. \A s \in Stages : All[s] = StageDeliveries(s)
  BY DEF All
<1>3. ASSUME NEW k \in DOMAIN steps, k[1] \in DeliveryKinds
      PROVE  k \in {d.key : d \in UNION {StageDeliveries(s) : s \in Stages}}
  <2>1. PICK s \in Stages : k \in Keys(s)
    BY <1>3 DEF Ground, Base, ArrivedInv, Arrived, Recorded
  <2> QED BY <1>2, <2>1 DEF Keys
<1>4. ASSUME NEW s \in Stages, NEW d \in StageDeliveries(s)
      PROVE  d.key \in DOMAIN steps /\ d.key[1] \in DeliveryKinds
  <2>1. d \in All[s] /\ d.key \in Keys(s)
    BY <1>2, <1>4 DEF Keys
  <2>2. d.key \in DOMAIN steps
    BY <2>1 DEF Ground, Base, ArrivedInv, Arrived, AllClosed
  <2>3. PICK p \in Payments : Delivers(d, p, s)
    BY <2>1, DeliveryIs
  <2> QED BY <1>1, <2>2, <2>3, DeliveryParts DEF Delivers
<1> QED BY <1>1, <1>3, <1>4

LEMMA CountedEvaluations ==
  ASSUME Ground, AllClosed
  PROVE  [s \in {t \in Stages : Checkpoint("evaluation", t) \in DOMAIN steps} |->
            steps[Checkpoint("evaluation", s)]]
           = [s \in Stages \ {-1} |-> DeliveredBy(s)]
<1>1. {t \in Stages : Checkpoint("evaluation", t) \in DOMAIN steps} = Stages \ {-1}
  BY DEF Ground, Base, ArrivedInv, Arrived, FrozenInv, Paths, AllClosed, Closed
<1>2. \A s \in Stages : Checkpoint("evaluation", s) \in DOMAIN steps
        => steps[Checkpoint("evaluation", s)] = DeliveredBy(s)
  BY FrozenIs DEF Ground, Base, StageFrozen
<1> QED BY <1>1, <1>2

LEMMA CountedDecisions ==
  ASSUME Ground, Tracked, AllClosed
  PROVE  [p \in {q \in Payments : <<"eligibility", q, 1>> \in DOMAIN steps} |->
            steps[<<"eligibility", p, 1>>]]
           = [p \in Payments |-> ExpectedReason(world[p])]
BY AllSettled DEF Said

LEMMA CountedSuppressed ==
  ASSUME Ground, Tracked, AllClosed
  PROVE  {k \in DOMAIN steps : k[1] = "suppressed"} =
           UNION {{<<"suppressed", p, k>> : k \in DOMAIN ExpectedAttempts(world[p])} : p \in Payments}
<1>1. ASSUME NEW key \in DOMAIN steps, key[1] = "suppressed"
      PROVE  \E p \in Payments : \E k \in DOMAIN ExpectedAttempts(world[p]) : key = <<"suppressed", p, k>>
  <2>1. PICK p \in Payments : \E k \in DOMAIN attempts[p] : key = <<"suppressed", p, k>>
    BY <1>1 DEF Tracked
  <2> QED BY <2>1, AllSettled DEF Foreseen
<1>2. ASSUME NEW p \in Payments, NEW k \in DOMAIN ExpectedAttempts(world[p])
      PROVE  <<"suppressed", p, k>> \in DOMAIN steps
  BY <1>2, AllSettled DEF Foreseen, Said
<1> QED BY <1>1, <1>2

-----------------------------------------------------------------------------
(* The report                                                              *)

\* A run has the expected report and is through all stages, or has none.
Kept ==
  \/ run = [status |-> "complete", report |-> ExpectedReport] /\ AllClosed
  \/ \E status \in {"absent", "running"} : run = [status |-> status, report |-> NoReport]

\* A coordinator that reports has accounted for all payments but those left.
Counting(c) == pc[c] = "accounting" => me[c].report = Partial(Payments \ me[c].left)

ReportInv ==
  /\ Kept /\ \A c \in Coordinators : Counting(c)
  /\ lock \in Coordinators \cup {None} /\ DOMAIN told = Coordinators

\* What a command that ends answers.
Answers(c) ==
  \/ told' = told
  \/ \E kind, report :
       /\ told' = [told EXCEPT ![c] = Told(kind, report)]
       /\ kind = "complete" =>
            (ReturnReport(c) /\ report = run.report) \/ (Finish(c) /\ report = me[c].report)

LEMMA EndAnswers ==
  ASSUME NEW c, NEW kind, NEW report, End(c, kind, report)
  PROVE  told' = [told EXCEPT ![c] = Told(kind, report)] /\ lock' \in {lock, None}
BY DEF End

LEMMA ReturnAnswers ==
  ASSUME NEW c, NEW report, Return(c, report)
  PROVE  /\ lock' \in {lock, None}
         /\ \E kind, answer : /\ told' = [told EXCEPT ![c] = Told(kind, answer)]
                              /\ kind = "complete" => answer = report
<1>1. CASE lock = c
  BY <1>1, EndAnswers DEF Return
<1>2. CASE lock # c
  <2>1. told' = [told EXCEPT ![c] = Told("interrupted", NoReport)] /\ lock' \in {lock, None}
    BY <1>2, EndAnswers DEF Return
  <2> QED BY <2>1, "interrupted" # "complete"
<1> QED BY <1>1, <1>2

LEMMA AnswersStep ==
  ASSUME NEW c \in Coordinators, Step(c)
  PROVE  Answers(c) /\ lock' \in {lock, None, c}
<1>1. CASE told' = told /\ lock' = lock
  BY <1>1 DEF Answers
<1>2. CASE ReturnReport(c)
  BY <1>2, ReturnAnswers DEF ReturnReport, Answers
<1>3. CASE Finish(c)
  BY <1>3, ReturnAnswers DEF Finish, Answers
<1>4. CASE Conflict(c)
  BY <1>4, EndAnswers DEF Conflict, Answers
<1>5. CASE Fail(c)
  BY <1>5, EndAnswers DEF Fail, Answers
<1>6. CASE Acquire(c)
  <2>1. told' = [told EXCEPT ![c] = Told("none", NoReport)] /\ lock' = c
    BY <1>6 DEF Acquire
  <2> QED BY <2>1, "none" # "complete" DEF Answers
<1>7. CASE LoseLock(c)
  BY <1>7 DEF LoseLock, Answers
<1>8. CASE \/ Start(c) \/ Resume(c)
           \/ Deliver(c) \/ Register(c) \/ RecordDelivery(c) \/ AllDelivered(c)
           \/ Analyse(c) \/ RecordEvaluation(c) \/ CloseAnalysis(c) \/ Scan(c)
           \/ Enumerate(c) \/ PlanRecovery(c) \/ AttachPlan(c) \/ ClosePlanning(c)
  BY <1>1, <1>8
     DEF Start, Resume, Deliver, Register, RecordDelivery, AllDelivered, Analyse, RecordEvaluation,
         CloseAnalysis, Scan, Enumerate, PlanRecovery, AttachPlan, ClosePlanning, Local, Record, Keep
<1>9. CASE \/ BeginSimulation(c) \/ NextPayment(c) \/ LeavePayment(c) \/ PassOver(c) \/ TakeUp(c)
           \/ CloseStage(c) \/ CountSteps(c) \/ CountPayment(c)
  BY <1>1, <1>9
     DEF BeginSimulation, NextPayment, LeavePayment, PassOver, TakeUp, CloseStage, CountSteps,
         CountPayment, Local, Keep
<1>10. CASE \/ FindReserved(c) \/ Reserve(c) \/ Refuse(c) \/ CloseRefused(c)
            \/ Suppress(c) \/ CloseDispatch(c)
  BY <1>1, <1>10
     DEF FindReserved, Reserve, Refuse, CloseRefused, Suppress, CloseDispatch, Local, Record, Keep
<1>11. CASE RecordOutcome(c)
  <2>1. Keep
    BY <1>11, Zenon DEF RecordOutcome
  <2> QED BY <1>1, <2>1 DEF Keep
<1>12. CASE Reconcile(c)
  <2>1. Keep
    BY <1>12, Zenon DEF Reconcile
  <2> QED BY <1>1, <2>1 DEF Keep
<1> QED BY <1>2, <1>3, <1>4, <1>5, <1>6, <1>7, <1>8, <1>9, <1>10, <1>11, <1>12, OneStep

LEMMA RunStep ==
  ASSUME NEW c \in Coordinators, Step(c)
  PROVE  run' = run \/ Start(c) \/ Finish(c)
<1>1. CASE \/ Acquire(c) \/ ReturnReport(c) \/ Resume(c) \/ Conflict(c) \/ Fail(c) \/ LoseLock(c)
           \/ Deliver(c) \/ Register(c) \/ RecordDelivery(c) \/ AllDelivered(c)
           \/ Analyse(c) \/ RecordEvaluation(c) \/ CloseAnalysis(c) \/ Scan(c)
           \/ Enumerate(c) \/ PlanRecovery(c) \/ AttachPlan(c) \/ ClosePlanning(c)
  BY <1>1
     DEF Acquire, ReturnReport, Resume, Conflict, Fail, LoseLock, Deliver, Register, RecordDelivery,
         AllDelivered, Analyse, RecordEvaluation, CloseAnalysis, Scan, Enumerate, PlanRecovery,
         AttachPlan, ClosePlanning, Local, Record, db
<1>2. CASE \/ BeginSimulation(c) \/ NextPayment(c) \/ LeavePayment(c) \/ PassOver(c) \/ TakeUp(c)
           \/ CloseStage(c) \/ CountSteps(c) \/ CountPayment(c)
  BY <1>2
     DEF BeginSimulation, NextPayment, LeavePayment, PassOver, TakeUp, CloseStage, CountSteps,
         CountPayment, Local, db
<1>3. CASE \/ FindReserved(c) \/ Reserve(c) \/ Refuse(c) \/ CloseRefused(c)
           \/ Suppress(c) \/ CloseDispatch(c)
  BY <1>3
     DEF FindReserved, Reserve, Refuse, CloseRefused, Suppress, CloseDispatch, Local, Record, db
<1>4. CASE RecordOutcome(c)
  BY <1>4, Zenon DEF RecordOutcome
<1>5. CASE Reconcile(c)
  BY <1>5, Zenon DEF Reconcile
<1> QED BY <1>1, <1>2, <1>3, <1>4, <1>5, OneStep

\* What is expected is a matter of the scenario alone.
LEMMA ExpectedStays ==
  ASSUME world' = world
  PROVE  ExpectedReport' = ExpectedReport /\ \A P : Partial(P)' = Partial(P)
<1>1. \A s : StageDeliveries(s)' = StageDeliveries(s)
  BY DEF StageDeliveries
<1>2. \A s : DeliveredBy(s)' = DeliveredBy(s)
  BY <1>1 DEF DeliveredBy
<1>3. \A P : Accounts(P)' = Accounts(P)
  BY DEF Accounts
<1>4. {d.key : d \in UNION {StageDeliveries(s) : s \in Stages}}'
        = {d.key : d \in UNION {StageDeliveries(s) : s \in Stages}}
  BY <1>1, Zenon
<1>5. [s \in Stages \ {-1} |-> DeliveredBy(s)]' = [s \in Stages \ {-1} |-> DeliveredBy(s)]
  BY <1>2, Zenon
<1>6. [p \in Payments |-> ExpectedReason(world[p])]' = [p \in Payments |-> ExpectedReason(world[p])]
  BY Zenon
<1>7. (UNION {{<<"suppressed", p, k>> : k \in DOMAIN ExpectedAttempts(world[p])} : p \in Payments})'
        = UNION {{<<"suppressed", p, k>> : k \in DOMAIN ExpectedAttempts(world[p])} : p \in Payments}
  <2> DEFINE names(v) ==
    UNION {{<<"suppressed", p, k>> : k \in DOMAIN ExpectedAttempts(v[p])} : p \in Payments}
  <2>1. names(world') = names(world)
    <3> HIDE DEF names
    <3> QED OBVIOUS
  <2> QED BY <2>1
<1>8. Accounts(Payments)' = Accounts(Payments)
  BY <1>3
<1>9. ExpectedReport' = ExpectedReport
  BY <1>4, <1>5, <1>6, <1>7, <1>8, Zenon DEF ExpectedReport, Accounts
<1> QED BY <1>3, <1>9 DEF Partial

LEMMA CountedSteps ==
  ASSUME Ground, Tracked, NEW c \in Coordinators, CountSteps(c)
  PROVE  me'[c].report = Partial({}) /\ me'[c].left = Payments
<1>1. pc[c] = "reporting" /\ Shaped /\ DOMAIN me[c] = MeFields
  BY DEF CountSteps, Ground, Base, Inv, Placed
<1>2. AllClosed
  BY <1>1 DEF Ground, Base, ArrivedInv, Arriving, AllClosed
<1>3. Enrolled = Payments
  <2>1. Closed(Outage) /\ Outage \in Stages
    BY <1>2 DEF AllClosed, Stages, Outage
  <2> QED BY <2>1, CandidatesAre DEF Ground, Base, ArrivedInv, Arrived
<1> DEFINE counted ==
  [deliveries |-> {k \in DOMAIN steps : k[1] \in {"event", "duplicate", "history", "late"}},
   evaluations |-> [s \in {t \in Stages : Checkpoint("evaluation", t) \in DOMAIN steps} |->
                      steps[Checkpoint("evaluation", s)]],
   decisions |-> [p \in {q \in Payments : <<"eligibility", q, 1>> \in DOMAIN steps} |->
                    steps[<<"eligibility", p, 1>>]],
   suppressed |-> {k \in DOMAIN steps : k[1] = "suppressed"},
   accounts |-> {}]
<1>4. me' = [me EXCEPT ![c].report = counted, ![c].left = Enrolled]
  BY Zenon DEF CountSteps, Enrolled
<1>5. counted = Partial({})
  <2>1. Accounts({}) = {}
    BY DEF Accounts
  <2>2. \A d, e, f, g, a :
          LET r == [deliveries |-> d, evaluations |-> e, decisions |-> f, suppressed |-> g, accounts |-> a]
          IN r.deliveries = d /\ r.evaluations = e /\ r.decisions = f /\ r.suppressed = g
    OBVIOUS
  <2>3. /\ ExpectedReport.deliveries = {d.key : d \in UNION {StageDeliveries(s) : s \in Stages}}
        /\ ExpectedReport.evaluations = [s \in Stages \ {-1} |-> DeliveredBy(s)]
        /\ ExpectedReport.decisions = [p \in Payments |-> ExpectedReason(world[p])]
        /\ ExpectedReport.suppressed =
             UNION {{<<"suppressed", p, k>> : k \in DOMAIN ExpectedAttempts(world[p])} : p \in Payments}
    BY <2>2, Zenon DEF ExpectedReport
  <2> QED BY <1>2, <2>1, <2>3, CountedDeliveries, CountedEvaluations, CountedDecisions,
             CountedSuppressed, Zenon DEF Partial
<1> HIDE DEF counted
<1>6. me'[c].report = counted /\ me'[c].left = Enrolled
  BY <1>1, <1>4 DEF Shaped, MeFields
<1> QED BY <1>3, <1>5, <1>6

LEMMA CountedOne ==
  ASSUME NEW d, NEW e, NEW f, NEW g, NEW a, NEW b, NEW r,
         r = [deliveries |-> d, evaluations |-> e, decisions |-> f, suppressed |-> g, accounts |-> a]
  PROVE  [r EXCEPT !.accounts = @ \cup b]
           = [deliveries |-> d, evaluations |-> e, decisions |-> f, suppressed |-> g,
              accounts |-> a \cup b]
<1>1. [r EXCEPT !.accounts = @ \cup b] = [r EXCEPT !.accounts = r.accounts \cup b]
  OBVIOUS
<1>2. r.accounts = a
  OBVIOUS
<1>3. PICK x : x = a \cup b
  OBVIOUS
<1>4. [r EXCEPT !.accounts = x]
        = [deliveries |-> d, evaluations |-> e, decisions |-> f, suppressed |-> g, accounts |-> x]
  OBVIOUS
<1> QED BY <1>1, <1>2, <1>3, <1>4

LEMMA CountedPayment ==
  ASSUME Ground, Tracked, NEW c \in Coordinators, Counting(c), CountPayment(c)
  PROVE  me'[c].report = Partial(Payments \ me'[c].left)
<1> DEFINE p == Least(me[c].left)
           own == {e \in events : SamePayment(e, enrolled[p])}
           category == Classify(Cardinality({e.amount : e \in own}),
                                \E e \in own : e.status = "success",
                                "succeeded" \in States(attempts[p]))
           account == Account(p, category, attempts[p])
           P == Payments \ me[c].left
<1>1. /\ pc[c] = "accounting" /\ Shaped /\ DOMAIN me[c] = MeFields
      /\ me[c].left # {} /\ me[c].left \subseteq Enrolled /\ Enrolled \subseteq Payments
  BY DEF CountPayment, Ground, Base, Inv, Placed, Enrolled
<1>2. p \in me[c].left /\ p \in Enrolled /\ p \in Payments
  BY <1>1, LeastPayment, PaymentsAssumption
<1>3. AllClosed
  BY <1>1 DEF Ground, Base, ArrivedInv, Arriving, AllClosed
<1>4. category = ExpectedCategory(world[p]) /\ attempts[p] = ExpectedAttempts(world[p])
  <2>1. own = Own(p)
    BY DEF Own
  <2> HIDE DEF p, own
  <2>2. category = ExpectedCategory(world[p])
    BY <1>2, <1>3, <2>1, CategoryIs
  <2>3. attempts[p] = ExpectedAttempts(world[p])
    BY <1>2, <1>3, AllSettled DEF Foreseen
  <2> QED BY <2>2, <2>3
<1>5. me' = [me EXCEPT ![c].report.accounts = @ \cup {account}, ![c].left = @ \ {p}]
  BY Zenon DEF CountPayment
<1> HIDE DEF p, category, own
<1>6. account = Account(p, ExpectedCategory(world[p]), ExpectedAttempts(world[p]))
  BY <1>4
<1> HIDE DEF account
<1>7. Accounts(P) \cup {account} = Accounts(P \cup {p})
  <2> HIDE DEF P
  <2> QED BY <1>6 DEF Accounts
<1>8. /\ me'[c].report = [me[c].report EXCEPT !.accounts = @ \cup {account}]
      /\ me'[c].left = me[c].left \ {p}
  BY <1>1, <1>5 DEF Shaped, MeFields
<1>9. me[c].report = Partial(P)
  BY <1>1 DEF Counting
<1>10. me'[c].report = Partial(P \cup {p})
  <2> HIDE DEF P
  <2>1. Partial(P) = [deliveries |-> ExpectedReport.deliveries,
                      evaluations |-> ExpectedReport.evaluations,
                      decisions |-> ExpectedReport.decisions,
                      suppressed |-> ExpectedReport.suppressed, accounts |-> Accounts(P)]
    BY DEF Partial
  <2> QED BY <1>7, <1>8, <1>9, <2>1, CountedOne DEF Partial
<1>11. P \cup {p} = Payments \ me'[c].left
  BY <1>2, <1>8
<1> QED BY <1>10, <1>11

\* Where a coordinator comes to be counting.
LEMMA CountingComes ==
  ASSUME Inv, NEW c \in Coordinators, Step(c), pc'[c] = "accounting"
  PROVE  CountSteps(c) \/ CountPayment(c) \/ (pc[c] = "accounting" /\ me'[c] = me[c])
<1>1. \A from, to, changed : Move(c, from, to, changed) => pc'[c] = to
  BY DEF Move
<1>2. CASE \/ Acquire(c) \/ Start(c) \/ ReturnReport(c) \/ Finish(c) \/ Conflict(c) \/ Fail(c)
           \/ LoseLock(c)
  BY <1>1, <1>2, FirstMoves DEF Starts
<1>3. CASE Resume(c) \/ CloseStage(c)
  <2>1. \E s \in Int : \E done : EnterStage(c, s, done)
    BY <1>3 DEF Resume, CloseStage, Inv, Placed
  <2> QED BY <2>1, EnteringMoves DEF Enters
<1>4. CASE Deliver(c) \/ Register(c) \/ RecordDelivery(c) \/ AllDelivered(c)
  BY <1>1, <1>4, DeliveryMoves
<1>5. CASE \/ Analyse(c) \/ RecordEvaluation(c) \/ CloseAnalysis(c) \/ Scan(c)
           \/ Enumerate(c) \/ PlanRecovery(c) \/ AttachPlan(c) \/ ClosePlanning(c)
  BY <1>1, <1>5, PlanningMoves
<1>6. CASE BeginSimulation(c) \/ NextPayment(c) \/ LeavePayment(c) \/ PassOver(c) \/ TakeUp(c)
  BY <1>1, <1>6, ScheduleMoves
<1>7. CASE \/ FindReserved(c) \/ Reserve(c) \/ Refuse(c) \/ CloseRefused(c) \/ RecordOutcome(c)
           \/ Suppress(c) \/ Reconcile(c) \/ CloseDispatch(c)
  BY <1>1, <1>7, AttemptMoves
<1> QED BY <1>2, <1>3, <1>4, <1>5, <1>6, <1>7, OneStep

\* A coordinator that finishes has counted what is expected.
LEMMA FinishWrites ==
  ASSUME Ground, NEW c \in Coordinators, Counting(c), Finish(c)
  PROVE  AllClosed /\ me[c].report = ExpectedReport
         /\ run' = [status |-> "complete", report |-> ExpectedReport]
<1>1. pc[c] = "accounting" /\ me[c].left = {} /\ run' = [status |-> "complete", report |-> me[c].report]
  BY DEF Finish
<1>2. AllClosed
  BY <1>1 DEF Ground, Base, ArrivedInv, Arriving, AllClosed
<1>3. me[c].report = Partial(Payments)
  BY <1>1 DEF Counting
<1> QED BY <1>1, <1>2, <1>3, PartialIs

LEMMA ReportInvStep ==
  ASSUME Ground, TrackedInv, ReportInv, NEW c \in Coordinators, Step(c)
  PROVE  ReportInv'
<1>1. /\ world' = world /\ (AllClosed => AllClosed')
      /\ ExpectedReport' = ExpectedReport /\ \A P : Partial(P)' = Partial(P)
  BY GroundStep, SaidStays, ExpectedStays DEF AllClosed
<1>2. Kept'
  <2>1. CASE run' = run
    BY <1>1, <2>1 DEF ReportInv, Kept
  <2>2. CASE Start(c)
    BY <2>2 DEF Start, Kept
  <2>3. CASE Finish(c)
    BY <1>1, <2>3, FinishWrites DEF ReportInv, Kept
  <2> QED BY <2>1, <2>2, <2>3, RunStep
<1>3. ASSUME NEW b \in Coordinators, pc'[b] = pc[b], me'[b] = me[b] PROVE Counting(b)'
  <2>1. Counting(b)
    BY DEF ReportInv
  <2>2. PICK P : P = Payments \ me[b].left /\ P = Payments \ me'[b].left
    BY <1>3
  <2> QED BY <1>1, <1>3, <2>1, <2>2 DEF Counting
<1>4. ASSUME NEW b \in Coordinators \ {c} PROVE Counting(b)'
  <2>1. pc'[b] = pc[b] /\ me'[b] = me[b]
    BY OthersStep DEF OthersStay, Ground, Base, Inv
  <2> QED BY <1>3, <2>1
<1>5. Counting(c)'
  <2>1. SUFFICES ASSUME pc'[c] = "accounting" PROVE Counting(c)'
    BY DEF Counting
  <2>2. PICK P : P = Payments \ me'[c].left
    OBVIOUS
  <2>3. CASE CountSteps(c)
    <3>1. me'[c].report = Partial({}) /\ P = {}
      BY <2>2, <2>3, CountedSteps DEF TrackedInv
    <3> QED BY <1>1, <2>2, <3>1 DEF Counting
  <2>4. CASE CountPayment(c)
    <3>1. me'[c].report = Partial(P)
      BY <2>2, <2>4, CountedPayment DEF TrackedInv, ReportInv
    <3> QED BY <1>1, <2>2, <3>1 DEF Counting
  <2> QED BY <1>3, <2>1, <2>3, <2>4, CountingComes DEF Ground, Base
<1>6. lock' \in Coordinators \cup {None} /\ DOMAIN told' = Coordinators
  BY AnswersStep DEF Answers, ReportInv
<1> QED BY <1>2, <1>4, <1>5, <1>6 DEF ReportInv

LEMMA ReportStutters ==
  ASSUME ReportInv, UNCHANGED vars
  PROVE  ReportInv'
<1>1. UNCHANGED <<world, lock, pc, me, told, run, steps>>
  BY DEF vars, db
<1>2. /\ AllClosed' <=> AllClosed
      /\ ExpectedReport' = ExpectedReport /\ \A P : Partial(P)' = Partial(P)
  BY <1>1, ExpectedStays DEF AllClosed, Closed
<1>3. ASSUME NEW c \in Coordinators PROVE Counting(c)'
  <2>1. Counting(c)
    BY DEF ReportInv
  <2>2. PICK P : P = Payments \ me[c].left /\ P = Payments \ me'[c].left
    BY <1>1
  <2> QED BY <1>1, <1>2, <2>1, <2>2 DEF Counting
<1> QED BY <1>1, <1>2, <1>3 DEF ReportInv, Kept

LEMMA ReportInitially ==
  Init => ReportInv
BY DEF Init, ReportInv, Kept, Counting

\* A run's report is the expected one from the moment it has one, and what a
\* coordinator has counted of it is what is expected of the payments it counted.
THEOREM Reports ==
  Spec => []ReportInv
<1>1. Inv /\ FrozenInv /\ ArrivedInv /\ PlannedInv /\ TrackedInv /\ ReportInv /\ [Next]_vars
        => ReportInv'
  BY ReportInvStep, ReportStutters, Steps DEF Ground, Base
<1> QED BY Invariance, Freezing, Arrivals, Plannings, Attempts, ReportInitially, <1>1, PTL DEF Spec

\* A complete run has the attempts and the report that its scenario determines,
\* whatever failed on the way and whoever took over (run and simulate).
THEOREM RunReproduced ==
  Spec => []ReportReproduced
<1>1. Inv /\ FrozenInv /\ ArrivedInv /\ PlannedInv /\ TrackedInv /\ ReportInv => ReportReproduced
  <2> SUFFICES ASSUME Ground, TrackedInv, ReportInv, run.status = "complete"
               PROVE  /\ run.report = ExpectedReport
                      /\ \A p \in Payments : attempts[p] = ExpectedAttempts(world[p])
    BY DEF Ground, Base, ReportReproduced
  <2>1. run.report = ExpectedReport /\ AllClosed
    BY DEF ReportInv, Kept
  <2> QED BY <2>1, AllSettled DEF TrackedInv, Foreseen
<1> QED BY Invariance, Freezing, Arrivals, Plannings, Attempts, Reports, <1>1, PTL

\* A complete run keeps its report, whoever finishes it once more, and a command
\* answers with that report or with none (start, finish).
THEOREM ReportsKept ==
  Spec => ReportsFinal
<1>1. ASSUME Ground, TrackedInv, ReportInv, NEW c \in Coordinators, Step(c)
      PROVE  /\ run.status = "complete" => run' = run
             /\ \A b \in Coordinators :
                  told'[b] # told[b] /\ told'[b].kind = "complete" => told'[b].report = run'.report
  <2>1. run.status = "complete" => run' = run
    <3>1. CASE Start(c)
      BY <3>1 DEF Start
    <3>2. CASE Finish(c)
      BY <1>1, <3>2, FinishWrites DEF ReportInv, Kept
    <3> QED BY <1>1, <3>1, <3>2, RunStep
  <2>2. ASSUME NEW b \in Coordinators, told'[b] # told[b], told'[b].kind = "complete"
        PROVE  told'[b].report = run'.report
    <3>1. PICK kind, report :
            /\ told' = [told EXCEPT ![c] = Told(kind, report)]
            /\ kind = "complete" =>
                 (ReturnReport(c) /\ report = run.report) \/ (Finish(c) /\ report = me[c].report)
      BY <1>1, <2>2, AnswersStep DEF Answers
    <3>2. b = c /\ told'[b] = Told(kind, report)
      BY <1>1, <2>2, <3>1 DEF ReportInv
    <3>3. told'[b].report = report /\ kind = "complete"
      BY <2>2, <3>2 DEF Told
    <3>4. CASE ReturnReport(c) /\ report = run.report
      BY <3>3, <3>4 DEF ReturnReport, db
    <3>5. CASE Finish(c) /\ report = me[c].report
      BY <3>3, <3>5 DEF Finish
    <3> QED BY <3>1, <3>3, <3>4, <3>5
  <2> QED BY <2>1, <2>2
<1>2. Inv /\ FrozenInv /\ ArrivedInv /\ PlannedInv /\ TrackedInv /\ ReportInv /\ [Next]_vars
        => [ /\ run.status = "complete" => run' = run
             /\ \A c \in Coordinators :
                  told'[c] # told[c] /\ told'[c].kind = "complete" => told'[c].report = run'.report
           ]_<<run, told>>
  BY <1>1, Steps DEF Ground, Base, vars, db
<1> QED BY Invariance, Freezing, Arrivals, Plannings, Attempts, Reports, <1>2, PTL
        DEF Spec, ReportsFinal

LEMMA AtMostOne ==
  ASSUME NEW S, NEW x, S \subseteq {x}
  PROVE  Cardinality(S) <= 1
<1>1. S = {} \/ S = {x}
  OBVIOUS
<1>2. Cardinality(S) = 0 \/ Cardinality(S) = 1
  BY <1>1, FS_EmptySet, FS_Singleton, Zenon
<1> QED BY <1>2

\* Every row stays within the constraints of the tables, the partial unique
\* indexes on attempts among them.
THEOREM Types ==
  Spec => []TypeOK
<1>1. Inv /\ FrozenInv /\ ArrivedInv /\ PlannedInv /\ TrackedInv /\ ReportInv => TypeOK
  <2> SUFFICES ASSUME Ground, TrackedInv, ReportInv PROVE TypeOK
    BY DEF Ground, Base
  <2>1. /\ run.status \in {"absent", "running", "complete"}
        /\ run.status = "complete" <=> run.report # NoReport
    <3>1. CASE run = [status |-> "complete", report |-> ExpectedReport]
      BY <3>1, PartialIs
    <3>2. CASE \E status \in {"absent", "running"} : run = [status |-> status, report |-> NoReport]
      BY <3>2
    <3> QED BY <3>1, <3>2 DEF ReportInv, Kept
  <2>2. /\ \A k \in DOMAIN steps : k[1] \in Kinds
        /\ DOMAIN scanned \subseteq Stages \ {-1}
        /\ \A c \in Coordinators : me[c].stage \in Stages \cup {4} /\ me[c].ordinal \in 1..3
    BY DEF Ground, Base, ArrivedInv, Arrived, Recorded, Arriving
  <2>3. ASSUME NEW p \in Payments
        PROVE  /\ enrolled[p] # None => enrolled[p] \in events /\ enrolled[p].status = "failed"
               /\ attached[p] \in {None, plans[p]}
               /\ Len(attempts[p]) <= 2
               /\ States(attempts[p]) \subseteq AttemptStates
               /\ \A S \in {Outstanding, {"succeeded"}} :
                    Cardinality({k \in DOMAIN attempts[p] : attempts[p][k].state \in S}) <= 1
    <3>1. enrolled[p] # None => enrolled[p] \in events /\ enrolled[p].status = "failed"
      BY DEF Ground, Base, ArrivedInv, Arrived, Enrolled, Entry
    <3>2. attached[p] \in {None, plans[p]} /\ Len(attempts[p]) <= 2 /\ attempts[p] \in Seq(AttemptRecord)
      BY DEF Ground, Base, Inv, Timed, Attempted
    <3>3. States(attempts[p]) \subseteq AttemptStates
      <4>1. \A k \in DOMAIN attempts[p] : attempts[p][k] \in AttemptRecord
        BY <3>2
      <4>2. \A k \in DOMAIN attempts[p] : attempts[p][k].state \in AttemptStates
        BY <4>1 DEF AttemptRecord
      <4> QED BY <4>2 DEF States
    <3>4. ASSUME NEW S \in {Outstanding, {"succeeded"}}
          PROVE  Cardinality({k \in DOMAIN attempts[p] : attempts[p][k].state \in S}) <= 1
      <4> DEFINE C == {k \in DOMAIN attempts[p] : attempts[p][k].state \in S}
      <4>1. Len(attempts[p]) \in Nat /\ DOMAIN attempts[p] = 1..Len(attempts[p])
        BY <3>2
      <4>2. CASE Len(attempts[p]) = 2
        <5>1. attempts[p][1].state = "failed" /\ DOMAIN attempts[p] = {1, 2}
          <6>1. attempts[p][1].state = "failed"
            BY <4>2 DEF TrackedInv, Tracked, Progress
          <6>2. 1..2 = {1, 2}
            OBVIOUS
          <6> QED BY <4>1, <4>2, <6>1, <6>2, Zenon
        <5>2. "failed" \notin S
          BY DEF Outstanding
        <5>3. C \subseteq {2}
          BY <5>1, <5>2
        <5> QED BY <5>3, AtMostOne
      <4>3. CASE Len(attempts[p]) # 2
        <5>1. \A n \in Nat : n <= 2 /\ n # 2 => 1..n \subseteq {1}
          OBVIOUS
        <5>2. DOMAIN attempts[p] \subseteq {1}
          BY <3>2, <4>1, <4>3, <5>1, Zenon
        <5>3. C \subseteq {1}
          BY <5>2
        <5> QED BY <5>3, AtMostOne
      <4> QED BY <4>2, <4>3
    <3> QED BY <3>1, <3>2, <3>3, <3>4
  <2> QED BY <2>1, <2>2, <2>3 DEF TypeOK, ReportInv
<1> QED BY Invariance, Freezing, Arrivals, Plannings, Attempts, Reports, <1>1, PTL

=============================================================================
