---------------------------- MODULE PageContract ----------------------------
(***************************************************************************)
(* What the paged reads promise, without cursors, captured bounds or       *)
(* statements.  A traversal hands out rows in ascending order, skips none  *)
(* that was there when it was opened, and ends only when it has handed out *)
(* all of those; a traversal of a frozen resource hands out nothing else.  *)
(***************************************************************************)
EXTENDS Naturals

CONSTANTS
  Readers,     \* those who page
  Resources,   \* what can be paged through
  Frozen       \* the resources whose membership a traversal freezes

VARIABLES
  tables,      \* the ids of each resource's rows
  traversal    \* each reader's traversal

Traversal(s, goal) == [resource |-> s, goal |-> goal, sent |-> {}, done |-> FALSE]

ContractInit ==
  /\ tables = [s \in Resources |-> {}]
  /\ \A r \in Readers : \E s \in Resources : traversal[r] = Traversal(s, {})

\* Rows are added and never taken away.
Grow ==
  /\ \A s \in Resources : tables[s] \subseteq tables'[s]
  /\ UNCHANGED traversal

Open(r) ==
  /\ \E s \in Resources : traversal' = [traversal EXCEPT ![r] = Traversal(s, tables[s])]
  /\ UNCHANGED tables

Page(r) ==
  LET t == traversal[r] IN
  /\ \E P \in SUBSET (IF t.resource \in Frozen THEN t.goal ELSE tables[t.resource]),
        done \in BOOLEAN :
       /\ \A x \in P, y \in t.sent : y < x
       /\ \A x \in t.goal \ (t.sent \cup P), y \in P : y < x
       /\ done => t.goal \subseteq t.sent \cup P
       /\ traversal' = [traversal EXCEPT ![r].sent = t.sent \cup P, ![r].done = done]
  /\ UNCHANGED tables

ContractNext == Grow \/ \E r \in Readers : Open(r) \/ Page(r)

ContractSpec == ContractInit /\ [][ContractNext]_<<tables, traversal>>
=============================================================================
