---------------------------- MODULE MCSimulation ----------------------------
EXTENDS Simulation, TLC

\* A timeout that the first attempt recovers.
Plain ==
  [label |-> "network_timeout", seen |-> TRUE, extra |-> "none", late |-> FALSE,
   duplicate |-> FALSE, consent |-> TRUE, flow |-> TRUE, status |-> "failed",
   restored |-> 2230, persistent |-> FALSE, lost |-> FALSE, reconcilable |-> TRUE]

\* Before the first attempt, between the two of a timeout, after both.
Restorations == {2230, 2300, 2339}

\* Every course an advised retry can take.
Retryable ==
  {[Plain EXCEPT !.label = label, !.late = late, !.restored = at, !.persistent = persistent,
                 !.lost = lost, !.reconcilable = reconcilable] :
     label \in {"network_timeout", "issuer_unavailable"}, at \in Restorations,
     late, persistent, lost, reconcilable \in BOOLEAN}

\* Every reason not to retry, alone and with a late success.
Blocked ==
  UNION {{[Plain EXCEPT !.late = late, !.duplicate = late, !.label = "insufficient_funds"],
          [Plain EXCEPT !.late = late, !.label = "UNMAPPED"],
          [Plain EXCEPT !.late = late, !.seen = FALSE],
          [Plain EXCEPT !.late = late, !.extra = "amount", !.duplicate = TRUE],
          [Plain EXCEPT !.late = late, !.extra = "success"],
          [Plain EXCEPT !.late = late, !.consent = FALSE],
          [Plain EXCEPT !.late = late, !.flow = FALSE],
          [Plain EXCEPT !.late = late, !.status = "unknown"]} : late \in BOOLEAN}

AllWorlds == Retryable \cup Blocked

\* A second attempt that a late success overtakes, after an outcome that was
\* unknown for a while; a decision that a late success would change.
Contested ==
  {[Plain EXCEPT !.label = "issuer_unavailable", !.late = TRUE, !.persistent = TRUE,
                 !.lost = TRUE],
   [Plain EXCEPT !.consent = FALSE, !.late = TRUE]}

ContestedAlone == {<<w>> : w \in Contested}

\* Every world beside one whose second attempt recovers it, and beside an
\* outcome that is never known.
Recovering == [Plain EXCEPT !.restored = 2300]
Unknown == [Plain EXCEPT !.lost = TRUE, !.reconcilable = FALSE]

AllInPairs == {<<w, Recovering>> : w \in AllWorlds} \cup {<<Unknown, w>> : w \in Blocked}

CoordinatorSymmetry == Permutations(Coordinators)
=============================================================================
