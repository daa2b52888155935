------------------------------ MODULE PlanBook ------------------------------
(***************************************************************************)
(* What diagnosis and planning promise of one merchant, without processes, *)
(* locks, transactions or failures: an observation is diagnosed once, a    *)
(* payment is planned once, from the history some prefix of the ingested   *)
(* events gives, never before its observation is diagnosed, and each of    *)
(* these steps leaves its audit records with it.                           *)
(***************************************************************************)
EXTENDS PlanningRules, Sequences

CONSTANTS
  Events,          \* events that may be ingested
  Observations     \* observations the scanner may record

VARIABLES
  events,          \* ingested events in commit order
  observations,    \* recorded observations
  diagnoses,
  plans,
  trail            \* audit records

book == <<events, observations, diagnoses, plans, trail>>

-----------------------------------------------------------------------------
Prefix(n) == {events[k] : k \in 1..n}

Planned(e) == \E q \in plans : q.source = e.source /\ q.payment = e.payment

BookInit ==
  events = <<>> /\ observations = {} /\ diagnoses = {} /\ plans = {} /\ trail = <<>>

Ingested(e) ==
  /\ events' = Append(events, e)
  /\ UNCHANGED <<observations, diagnoses, plans, trail>>

Observed(o) ==
  /\ observations' = observations \cup {o}
  /\ UNCHANGED <<events, diagnoses, plans, trail>>

\* The records of what is new about a diagnosis.
NewRecords(d) == IF d \in diagnoses THEN <<>> ELSE <<DiagnosisRecord(d)>>

Diagnosed(o) ==
  /\ o \in observations
  /\ Diagnosis(o) \notin diagnoses
  /\ diagnoses' = diagnoses \cup {Diagnosis(o)}
  /\ trail' = Append(trail, DiagnosisRecord(Diagnosis(o)))
  /\ UNCHANGED <<events, observations, plans>>

PlanMade(o, e, n) ==
  LET q == Plan(o, e, History(Prefix(n), e))
  IN /\ o \in observations
     /\ e \in Prefix(n)
     /\ Associated(e, o)
     /\ ~Planned(e)
     /\ plans' = plans \cup {q}
     /\ diagnoses' = diagnoses \cup {Diagnosis(o)}
     /\ trail' = trail \o Append(NewRecords(Diagnosis(o)), PlanRecord(q))
     /\ UNCHANGED <<events, observations>>

BookNext ==
  \/ \E e \in Events : Ingested(e)
  \/ \E o \in Observations :
       \/ Observed(o)
       \/ Diagnosed(o)
       \/ \E e \in Events, n \in 1..Len(events) : PlanMade(o, e, n)

BookSpec == BookInit /\ [][BookNext]_book
=============================================================================
