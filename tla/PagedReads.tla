----------------------------- MODULE PagedReads -----------------------------
(***************************************************************************)
(* Clients page through the incidents of a merchant, the observations of   *)
(* an incident, and live listings, while scans write.  A request runs one  *)
(* READ COMMITTED statement after the other, so each sees what had         *)
(* committed at that moment.  Incidents and observations take their ids    *)
(* from sequences shared by all merchants when they are inserted, before   *)
(* they commit, and a sequence does not go back when a scan fails; scans   *)
(* of one merchant hold its advisory lock.  The first page of a history    *)
(* captures the highest committed id, and later pages stay below it.       *)
(*                                                                         *)
(* The feed stands for the listings without a bound (the dashboard's runs, *)
(* payments and steps, the planner's candidates): their keys (random ids,  *)
(* names, times) arrive in any order.                                      *)
(***************************************************************************)
EXTENDS Naturals, FiniteSets

CONSTANTS
  Merchants,
  Scanners,         \* processes that scan, one merchant at a time
  Readers,          \* clients that page
  Limits,           \* page sizes a client may ask for
  FeedKeys,         \* bound: keys of live rows
  MaxIncidents,     \* bound: incident ids the sequence gives out
  MaxObservations,  \* bound: observation ids the sequence gives out
  None              \* no lock holder, merchant or cursor

ASSUME LimitAssumption == Limits \subseteq Nat \ {0}
ASSUME KeyAssumption == FeedKeys \subseteq Nat \ {0}
ASSUME BoundAssumption == MaxIncidents \in Nat /\ MaxObservations \in Nat
ASSUME NoneAssumption == None \notin Scanners \cup Merchants \cup Nat

VARIABLES
  incidents,        \* committed rows: id, merchant, latest observation
  observations,     \* committed rows: id, incident
  lastIncident, lastObservation,   \* the sequences
  lock,             \* holder of each merchant's lock
  tx,               \* what each scan has written
  feed,             \* committed keys of a live listing
  pc,               \* where each reader's request is
  request,          \* what it asks for
  reply,            \* what its statements returned so far
  cursor,           \* the continuation its client holds
  traversal         \* history: what its client has been sent, and should be

db == <<incidents, observations, feed>>
writers == <<lastIncident, lastObservation, lock, tx>>
readers == <<pc, request, reply, cursor, traversal>>
vars == <<incidents, observations, lastIncident, lastObservation, lock, tx, feed,
          pc, request, reply, cursor, traversal>>

-----------------------------------------------------------------------------
Incident(id, m, latest) == [id |-> id, merchant |-> m, latest |-> latest]
Observation(id, i) == [id |-> id, incident |-> i]
NoTx == [merchant |-> None, incidents |-> {}, observations |-> {}]

List(m) == <<"incidents", m, 0>>
Detail(m, i) == <<"incident", m, i>>
Feed == <<"feed", None, 0>>

Lists == {List(m) : m \in Merchants}
Details == {Detail(m, i) : m \in Merchants, i \in 1..MaxIncidents}
Histories == Lists \cup Details
Resources == Histories \cup {Feed}

\* The rows a merchant's incident has: get_incident and the joins of
\* observations both compare id and merchant.
Found(m, i) == {row \in incidents : row.id = i /\ row.merchant = m}

ListIds(m) == {row.id : row \in {x \in incidents : x.merchant = m}}
DetailIds(m, i) == {o.id : o \in {x \in observations : x.incident = i /\ Found(m, i) # {}}}

Ids(s) ==
  IF s = Feed THEN feed ELSE IF s \in Lists THEN ListIds(s[2]) ELSE DetailIds(s[2], s[3])

IsMax(x, S) == x \in S /\ \A y \in S : y <= x
IsMin(x, S) == x \in S /\ \A y \in S : x <= y

\* The n lowest of a set of ids (ORDER BY id LIMIT n).
Lowest(S, n) == {x \in S : Cardinality({y \in S : y < x}) < n}

Request(s, limit, after, upper, first) ==
  [resource |-> s, limit |-> limit, after |-> after, upper |-> upper, first |-> first]
NoRequest == Request(Feed, 0, 0, None, FALSE)
NoReply == [latest |-> 0, items |-> {}, more |-> FALSE, opening |-> 0]
Traversal(s, goal) == [resource |-> s, goal |-> goal, sent |-> {}, done |-> FALSE]

Init ==
  /\ incidents = {} /\ observations = {} /\ feed = {}
  /\ lastIncident = 0 /\ lastObservation = 0
  /\ lock = [m \in Merchants |-> None]
  /\ tx = [p \in Scanners |-> NoTx]
  /\ pc = [r \in Readers |-> "idle"]
  /\ request = [r \in Readers |-> NoRequest]
  /\ reply = [r \in Readers |-> NoReply]
  /\ cursor = [r \in Readers |-> None]
  /\ traversal = [r \in Readers |-> Traversal(Feed, {})]

-----------------------------------------------------------------------------
(***************************************************************************)
(* Scans                                                                   *)
(***************************************************************************)
\* Mutant: a scan does not wait for another of its merchant.
LockWithoutWaiting(p) ==
  /\ tx[p] = NoTx
  /\ \E m \in Merchants :
       /\ lock' = [lock EXCEPT ![m] = p]
       /\ tx' = [tx EXCEPT ![p].merchant = m]
  /\ UNCHANGED <<lastIncident, lastObservation, db, readers>>

\* pg_advisory_xact_lock
LockMerchant(p) ==
  /\ tx[p] = NoTx
  /\ \E m \in Merchants :
       /\ lock[m] = None
       /\ lock' = [lock EXCEPT ![m] = p]
       /\ tx' = [tx EXCEPT ![p].merchant = m]
  /\ UNCHANGED <<lastIncident, lastObservation, db, readers>>

\* A cohort without an open incident: a new row and its opening observation.
CreateIncident(p) ==
  /\ tx[p].merchant # None
  /\ lastIncident < MaxIncidents /\ lastObservation < MaxObservations
  /\ lastIncident' = lastIncident + 1
  /\ lastObservation' = lastObservation + 1
  /\ tx' = [tx EXCEPT
       ![p].incidents = @ \cup {Incident(lastIncident', tx[p].merchant, lastObservation')},
       ![p].observations = @ \cup {Observation(lastObservation', lastIncident')}]
  /\ UNCHANGED <<lock, db, readers>>

\* A cohort with an open incident: the row is updated, once in a scan, and an
\* observation appended.
UpdateIncident(p) ==
  /\ tx[p].merchant # None
  /\ lastObservation < MaxObservations
  /\ lastObservation' = lastObservation + 1
  /\ \E row \in incidents :
       /\ row.merchant = tx[p].merchant
       /\ \A written \in tx[p].incidents : written.id # row.id
       /\ tx' = [tx EXCEPT
            ![p].incidents = @ \cup {Incident(row.id, row.merchant, lastObservation')},
            ![p].observations = @ \cup {Observation(lastObservation', row.id)}]
  /\ UNCHANGED <<lastIncident, lock, db, readers>>

Unlock(p) == lock' = [m \in Merchants |-> IF lock[m] = p THEN None ELSE lock[m]]

Commit(p) ==
  /\ tx[p].merchant # None
  /\ incidents' = {row \in incidents : \A written \in tx[p].incidents : written.id # row.id}
                    \cup tx[p].incidents
  /\ observations' = observations \cup tx[p].observations
  /\ tx' = [tx EXCEPT ![p] = NoTx]
  /\ Unlock(p)
  /\ UNCHANGED <<lastIncident, lastObservation, feed, readers>>

\* A scan that fails or dies: its rows are gone, the ids it used are not
\* given out again.
Rollback(p) ==
  /\ tx[p].merchant # None
  /\ tx' = [tx EXCEPT ![p] = NoTx]
  /\ Unlock(p)
  /\ UNCHANGED <<lastIncident, lastObservation, db, readers>>

\* A run, a payment, a step or a failed event commits somewhere in the order.
AppendLive ==
  /\ \E k \in FeedKeys \ feed : feed' = feed \cup {k}
  /\ UNCHANGED <<incidents, observations, writers, readers>>

-----------------------------------------------------------------------------
(***************************************************************************)
(* Requests                                                                *)
(***************************************************************************)
Goto(r, label) == pc' = [pc EXCEPT ![r] = label]

\* The end of a request, with whatever answer.
Finish(r) ==
  /\ Goto(r, "idle")
  /\ request' = [request EXCEPT ![r] = NoRequest]
  /\ reply' = [reply EXCEPT ![r] = NoReply]

\* The first statement of a request: detail reads the incident row, a
\* history without a bound captures one.
FirstStep(s, upper) ==
  IF s \in Details THEN "row" ELSE IF s \in Lists /\ upper = None THEN "upper" ELSE "page"

\* A request without cursor begins a traversal; the client forgets the old.
Begin(r) ==
  /\ pc[r] = "idle"
  /\ \E s \in Resources, n \in Limits :
       /\ request' = [request EXCEPT ![r] = Request(s, n, 0, None, TRUE)]
       /\ Goto(r, FirstStep(s, None))
  /\ cursor' = [cursor EXCEPT ![r] = None]
  /\ UNCHANGED <<db, writers, reply, traversal>>

\* decode_cursor and position: the cursor must have been made for the same
\* merchant and subject; with any other the request is refused (422) and
\* nothing is read.
CursorValid(c, s) == c # None /\ c.resource = s

\* A request with the cursor the client holds, for what it likes.
Continue(r) ==
  /\ pc[r] = "idle"
  /\ \E s \in Resources, n \in Limits :
       /\ CursorValid(cursor[r], s)
       /\ request' = [request EXCEPT ![r] =
            Request(s, n, cursor[r].after, cursor[r].upper, FALSE)]
       /\ Goto(r, FirstStep(s, cursor[r].upper))
  /\ UNCHANGED <<db, writers, reply, cursor, traversal>>

\* get_incident; a client that asks for what is not there gets 404.
ReadRow(r) ==
  LET s == request[r].resource IN
  /\ pc[r] = "row"
  /\ \/ /\ Found(s[2], s[3]) = {}
        /\ Finish(r)
     \/ \E row \in Found(s[2], s[3]) :
          /\ reply' = [reply EXCEPT ![r].latest = row.latest]
          /\ Goto(r, IF request[r].upper = None THEN "upper" ELSE "page")
          /\ UNCHANGED request
  /\ UNCHANGED <<db, writers, cursor, traversal>>

\* max(id), or 0
ReadUpper(r) ==
  LET s == request[r].resource IN
  /\ pc[r] = "upper"
  /\ \E upper \in Ids(s) \cup {0} :
       /\ IsMax(upper, Ids(s) \cup {0})
       /\ request' = [request EXCEPT ![r].upper = upper]
  /\ traversal' = [traversal EXCEPT ![r] = Traversal(s, Ids(s))]
  /\ Goto(r, "page")
  /\ UNCHANGED <<db, writers, reply, cursor>>

\* The rows beyond the cursor's position and up to its bound.
InRange(r) ==
  LET q == request[r] IN
  {x \in Ids(q.resource) : x > q.after /\ (q.resource = Feed \/ x <= q.upper)}

\* SELECT ... ORDER BY id LIMIT limit + 1: one more row than the page shows
\* whether there is another page.  A live listing has no statement before
\* this one, so its traversal begins here.
ReadPage(r) ==
  LET n == request[r].limit IN
  /\ pc[r] = "page"
  /\ reply' = [reply EXCEPT
       ![r].items = Lowest(InRange(r), n),
       ![r].more = Cardinality(Lowest(InRange(r), n + 1)) > n]
  /\ traversal' =
       IF request[r].resource = Feed /\ request[r].first
       THEN [traversal EXCEPT ![r] = Traversal(Feed, feed)] ELSE traversal
  /\ Goto(r, IF request[r].resource \in Details THEN "opening" ELSE "reply")
  /\ UNCHANGED <<db, writers, request, cursor>>

\* Mutant: the opening is taken from the page.
ReadOpeningFromPage(r) ==
  /\ pc[r] = "opening"
  /\ \E x \in reply[r].items :
       /\ IsMin(x, reply[r].items)
       /\ reply' = [reply EXCEPT ![r].opening = x]
  /\ Goto(r, "reply")
  /\ UNCHANGED <<db, writers, request, cursor, traversal>>

\* observations(merchant, incident, 0, None, 1): the bound captured for it is
\* at least the lowest id.
ReadOpening(r) ==
  /\ pc[r] = "opening"
  /\ \E x \in Ids(request[r].resource) :
       /\ IsMin(x, Ids(request[r].resource))
       /\ reply' = [reply EXCEPT ![r].opening = x]
  /\ Goto(r, "reply")
  /\ UNCHANGED <<db, writers, request, cursor, traversal>>

\* The cursor of the next page stands at the last item of this one.
NextCursor(r) ==
  IF reply[r].more
  THEN [resource |-> request[r].resource, upper |-> request[r].upper,
        after |-> CHOOSE x \in reply[r].items : IsMax(x, reply[r].items)]
  ELSE None

Respond(r) ==
  /\ pc[r] = "reply"
  /\ cursor' = [cursor EXCEPT ![r] = NextCursor(r)]
  /\ traversal' = [traversal EXCEPT
       ![r].sent = @ \cup reply[r].items, ![r].done = ~reply[r].more]
  /\ Finish(r)
  /\ UNCHANGED <<db, writers>>

\* The answer is lost, or the database fails (503): the client keeps the
\* cursor it has and may ask again.
Lose(r) ==
  /\ pc[r] # "idle"
  /\ Finish(r)
  /\ UNCHANGED <<db, writers, cursor, traversal>>

-----------------------------------------------------------------------------
Scan(p) ==
  LockMerchant(p) \/ CreateIncident(p) \/ UpdateIncident(p) \/ Commit(p) \/ Rollback(p)

Read(r) ==
  \/ Begin(r) \/ Continue(r) \/ ReadRow(r) \/ ReadUpper(r)
  \/ ReadPage(r) \/ ReadOpening(r) \/ Respond(r) \/ Lose(r)

Next == AppendLive \/ (\E p \in Scanners : Scan(p)) \/ (\E r \in Readers : Read(r))

Spec == Init /\ [][Next]_vars

-----------------------------------------------------------------------------
(***************************************************************************)
(* Properties                                                              *)
(***************************************************************************)
\* The pages of a traversal are in order, repeat no row, skip none that was
\* there when its first page was read and end only after the last of them;
\* those of a history hold nothing that committed later (docs/incidents.md:
\* ids and the captured bound make the traversal complete).
Contract == INSTANCE PageContract WITH
  Frozen <- Histories, tables <- [s \in Resources |-> Ids(s)]
ImplementsContract == Contract!ContractSpec

\* The first answer about an incident is coherent although it is read by four
\* statements between which scans commit: the observation that the row calls
\* its latest is in the history the answer begins, and the opening
\* observation is that history's first.  Later answers show the same opening.
DetailCoherent ==
  \A r \in Readers :
    pc[r] = "reply" /\ request[r].resource \in Details =>
      LET history == {x \in Ids(request[r].resource) : x <= request[r].upper} IN
      /\ IsMin(reply[r].opening, history)
      /\ request[r].first => reply[r].latest \in history
=============================================================================
