------------------------------ MODULE AttemptBook ------------------------------
(***************************************************************************)
(* What the simulation promises about recovery attempts, whoever runs it   *)
(* and however often it is interrupted: a payment is attempted at most     *)
(* twice and never while an earlier attempt is open or succeeded; what     *)
(* really happened is decided once; what was observed becomes at most more *)
(* certain, and then it is the truth.                                      *)
(***************************************************************************)
EXTENDS Naturals, Sequences

CONSTANTS Payments, None

VARIABLE attempts      \* each payment's attempts

Truths == {"succeeded", "failed"}

Init == attempts = [p \in Payments |-> <<>>]

Settled(records) == \A k \in DOMAIN records : records[k].state = "failed"

\* The next one is at least the reconciliation interval later.
Reserve(p, at) ==
  LET own == attempts[p]
  IN /\ Len(own) < 2
     /\ Settled(own)
     /\ own # <<>> => at >= own[Len(own)].at + 60
     /\ attempts' = [attempts EXCEPT ![p] =
                       Append(own, [at |-> at, state |-> "reserved", truth |-> None])]

Observe(p, k, truth) ==
  /\ attempts[p][k].state = "reserved"
  /\ \E seen \in {truth, "uncertain"} :
       attempts' = [attempts EXCEPT ![p][k] = [at |-> @.at, state |-> seen, truth |-> truth]]

Reconcile(p, k) ==
  /\ attempts[p][k].state = "uncertain"
  /\ attempts' = [attempts EXCEPT ![p][k].state = attempts[p][k].truth]

Next ==
  \E p \in Payments :
    \/ Len(attempts'[p]) = Len(attempts[p]) + 1 /\ Reserve(p, attempts'[p][Len(attempts'[p])].at)
    \/ \E k \in DOMAIN attempts[p] :
         (\E truth \in Truths : Observe(p, k, truth)) \/ Reconcile(p, k)

Spec == Init /\ [][Next]_attempts
=============================================================================
