----------------------------- MODULE MCPlanning -----------------------------
EXTENDS Planning, TLC

Event(name, payment, status, error, amount, w) ==
  [id |-> name, source |-> "normalized_api", payment |-> payment, status |-> status,
   error |-> error, cohort |-> "c1", amount |-> amount, window |-> w]

\* A payment fails in two windows and succeeds late.
Failure1 == Event("e1", "p1", "failed", "network_timeout", 1, 1)
Failure2 == Event("e2", "p1", "failed", "network_timeout", 1, 2)
LateSuccess == Event("e3", "p1", "success", "none", 1, 1)

\* The same payment is reported with another amount.
OtherAmount == Event("e4", "p1", "failed", "network_timeout", 2, 1)

EventsOnePayment == {Failure1, Failure2, LateSuccess}
EventsAmounts == {Failure1, LateSuccess, OtherAmount}

Observation(name, w, outcome, errors, failed) ==
  [id |-> name, cohort |-> "c1", window |-> w, outcome |-> outcome,
   errors |-> errors, failed |-> failed]

Majority ==
  Observation("o1", 1, "degraded", <<[code |-> "network_timeout", count |-> 3]>>, 5)
Tie ==
  Observation("o2", 2, "degraded", <<[code |-> "network_timeout", count |-> 2],
                                     [code |-> "incorrect_pin", count |-> 2]>>, 4)

TwoObservations == {Majority, Tie}
OneObservation == {Majority}

PlannerSymmetry == Permutations(Planners)
=============================================================================
