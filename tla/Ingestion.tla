------------------------------ MODULE Ingestion ------------------------------
(***************************************************************************)
(* Payment-event ingestion: any number of request handlers, of the         *)
(* normalized API and of the provider webhook, over one PostgreSQL         *)
(* database and one connection pool.  A sender may deliver a message as    *)
(* often as it likes, also while an earlier delivery is still handled.     *)
(*                                                                         *)
(* A handler's transaction is insert-if-absent, look up what was there,    *)
(* append the audit record, commit.  A webhook whose payload differs from  *)
(* the stored one commits a conflict record in a second transaction before *)
(* it is acknowledged.  A row inserted and not yet committed is seen by    *)
(* nobody, but an insert that collides with it waits.                      *)
(*                                                                         *)
(* A delivery that is refused before the database is used (signature,      *)
(* headers, schema, unsupported type) has no step here.                    *)
(***************************************************************************)
EXTENDS EventIdentity, Integers, FiniteSets, Sequences

CONSTANTS
  Handlers,     \* request handlers that run at the same time
  Messages,     \* the events senders deliver, named by a key or by NoKey
  NoKey,        \* an API request without Idempotency-Key
  PoolSize,     \* connections in the pool
  MaxFaults,    \* bound: failures and lost replies
  MaxFresh,     \* bound: keys generated for requests without one
  MaxTrail,     \* bound: audit records after which a known conflict is not sent again
  None

ASSUME BoundAssumption ==
  PoolSize \in Nat \ {0} /\ MaxFaults \in Nat /\ MaxFresh \in Nat /\ MaxTrail \in Nat
ASSUME MessageAssumption ==
  \A m \in Messages : DOMAIN m = {"source", "merchant", "key", "digest"}
ASSUME KeyAssumption ==
  \A m \in Messages :
    m.source \in {API, WEBHOOK} /\ (m.key = NoKey => m.source = API) /\ m.key \notin Nat

VARIABLES
  pc,           \* where each handler is
  message,      \* the message it was given
  event,        \* the event it ingests: the message under its key
  found,        \* the stored event its insert collided with
  reply,        \* the response it is about to send
  rows,         \* committed payment events
  audit,        \* committed audit records
  answer,       \* the last response each message's sender has seen
  fresh,        \* generated keys so far
  faults        \* failures so far

db == <<rows, audit>>
local == <<message, event, found, reply>>
vars == <<pc, message, event, found, reply, rows, audit, answer, fresh, faults>>

-----------------------------------------------------------------------------
\* The handlers that hold a connection.
Connected == {"inserting", "lookup", "created", "ready", "auditing"}
ConnectionFree == Cardinality({h \in Handlers : pc[h] \in Connected}) < PoolSize

\* The handlers whose transaction has an uncommitted row.
Inserted(h) == pc[h] = "created" \/ (pc[h] = "ready" /\ found[h] = None)

Refused(h) == IF event[h].source = API THEN "409" ELSE "conflict"

\* Mutant: whoever finds the event stored is told it was the first.
AcceptedAlways(h) == IF event[h].source = API THEN "202" ELSE "accepted"

Accepted(h) ==
  IF event[h].source = API THEN "202" ELSE IF found[h] = None THEN "accepted" ELSE "duplicate"

Init ==
  /\ pc = [h \in Handlers |-> "idle"]
  /\ message = [h \in Handlers |-> None]
  /\ event = [h \in Handlers |-> None]
  /\ found = [h \in Handlers |-> None]
  /\ reply = [h \in Handlers |-> None]
  /\ rows = {}
  /\ audit = <<>>
  /\ answer = [m \in Messages |-> None]
  /\ fresh = 0
  /\ faults = 0

Goto(h, to) == pc' = [pc EXCEPT ![h] = to]

-----------------------------------------------------------------------------
\* Mutant: no key is generated.
EventUnnamed(m, n) == m

\* A request without a key gets a new one.
EventOf(m, n) == IF m.key = NoKey THEN [m EXCEPT !.key = n] ELSE m

\* A delivery reaches a handler.
Receive(h, m) ==
  /\ pc[h] = "idle"
  /\ answer[m] = "conflict" => Len(audit) < MaxTrail
  /\ message' = [message EXCEPT ![h] = m]
  /\ m.key = NoKey => fresh < MaxFresh
  /\ fresh' = IF m.key = NoKey THEN fresh + 1 ELSE fresh
  /\ event' = [event EXCEPT ![h] = EventOf(m, fresh')]
  /\ found' = [found EXCEPT ![h] = None]
  /\ reply' = [reply EXCEPT ![h] = None]
  /\ Goto(h, "arrived")
  /\ UNCHANGED <<db, answer, faults>>

\* The first statement of a unit of work checks a connection out.
Connect(h) ==
  /\ pc[h] = "arrived"
  /\ ConnectionFree
  /\ Goto(h, "inserting")
  /\ UNCHANGED <<local, db, answer, fresh, faults>>

\* INSERT ... ON CONFLICT DO NOTHING waits for a colliding row that is not
\* committed yet, and inserts nothing if a committed one collides.
InsertWaits(h) == \E g \in Handlers \ {h} : Inserted(g) /\ Collide(event[h], event[g])

Insert(h) ==
  /\ pc[h] = "inserting"
  /\ ~InsertWaits(h)
  /\ Goto(h, IF \E r \in rows : Collide(event[h], r) THEN "lookup" ELSE "created")
  /\ UNCHANGED <<local, db, answer, fresh, faults>>

\* The select that must find exactly one row; another payload is a conflict:
\* the transaction is rolled back, and only a webhook's conflict is audited.
Matching(h) == {r \in rows : Names(event[h], r)}

LookUp(h) ==
  /\ pc[h] = "lookup"
  /\ Cardinality(Matching(h)) = 1
  /\ \E r \in Matching(h) :
       /\ found' = [found EXCEPT ![h] = r]
       /\ \/ r.digest = event[h].digest /\ Goto(h, "ready") /\ UNCHANGED reply
          \/ /\ r.digest # event[h].digest
             /\ event[h].source = WEBHOOK
             /\ Goto(h, "conflict")
             /\ UNCHANGED reply
          \/ /\ r.digest # event[h].digest
             /\ event[h].source = API
             /\ Goto(h, "replying")
             /\ reply' = [reply EXCEPT ![h] = Refused(h)]
  /\ UNCHANGED <<message, event, db, answer, fresh, faults>>

\* The audit record of a new event joins its transaction.
AppendAudit(h) ==
  /\ pc[h] = "created"
  /\ Goto(h, "ready")
  /\ UNCHANGED <<local, db, answer, fresh, faults>>

Report(h, r) == reply' = [reply EXCEPT ![h] = r] /\ Goto(h, "replying")

\* Commit; the database may have committed although the handler is told it
\* has not, and then reports the event as unavailable.
CommitEvent(h) ==
  /\ pc[h] = "ready"
  /\ IF found[h] = None
     THEN /\ rows' = rows \cup {event[h]}
          /\ audit' = Append(audit, Ingested(event[h]))
     ELSE UNCHANGED db
  /\ \/ Report(h, Accepted(h)) /\ UNCHANGED faults
     \/ Report(h, "503") /\ faults < MaxFaults /\ faults' = faults + 1
  /\ UNCHANGED <<message, event, found, answer, fresh>>

\* The second unit of work takes a connection of its own once the first has
\* returned its.
ConnectForConflict(h) ==
  /\ pc[h] = "conflict"
  /\ ConnectionFree
  /\ Goto(h, "auditing")
  /\ UNCHANGED <<local, db, answer, fresh, faults>>

\* Mutants: the second unit of work always fails; the stored event is replaced.
CommitConflictFails(h) ==
  /\ pc[h] = "auditing"
  /\ Report(h, "503")
  /\ UNCHANGED <<message, event, found, db, answer, fresh, faults>>

CommitConflictOverwrites(h) ==
  /\ pc[h] = "auditing"
  /\ rows' = (rows \ {found[h]}) \cup {event[h]}
  /\ audit' = Append(audit, ConflictAudit(found[h], event[h].digest))
  /\ Report(h, Refused(h))
  /\ UNCHANGED <<message, event, found, answer, fresh, faults>>

CommitConflict(h) ==
  /\ pc[h] = "auditing"
  /\ audit' = Append(audit, ConflictAudit(found[h], event[h].digest))
  /\ \/ Report(h, Refused(h)) /\ UNCHANGED faults
     \/ Report(h, "503") /\ faults < MaxFaults /\ faults' = faults + 1
  /\ UNCHANGED <<message, event, found, rows, answer, fresh>>

\* Mutant: a conflict is acknowledged although its audit failed.
FailAcknowledges(h) ==
  /\ pc[h] \in Connected \cup {"arrived", "conflict"}
  /\ faults < MaxFaults
  /\ faults' = faults + 1
  /\ Report(h, IF pc[h] \in {"conflict", "auditing"} THEN "conflict" ELSE "503")
  /\ UNCHANGED <<message, event, found, db, answer, fresh>>

\* Any statement, commit or wait for a connection may fail: rollback, 503.
Fail(h) ==
  /\ pc[h] \in Connected \cup {"arrived", "conflict"}
  /\ faults < MaxFaults
  /\ faults' = faults + 1
  /\ Report(h, "503")
  /\ UNCHANGED <<message, event, found, db, answer, fresh>>

Respond(h) ==
  /\ pc[h] = "replying"
  /\ answer' = [answer EXCEPT ![message[h]] = reply[h]]
  /\ Goto(h, "idle")
  /\ UNCHANGED <<local, db, fresh, faults>>

\* The process dies, or its response is lost: the sender sees nothing.
Vanish(h) ==
  /\ pc[h] # "idle"
  /\ faults < MaxFaults
  /\ faults' = faults + 1
  /\ Goto(h, "idle")
  /\ UNCHANGED <<local, db, answer, fresh>>

-----------------------------------------------------------------------------
Handle(h) ==
  \/ Connect(h) \/ Insert(h) \/ LookUp(h) \/ AppendAudit(h) \/ CommitEvent(h)
  \/ ConnectForConflict(h) \/ CommitConflict(h) \/ Respond(h)

Next ==
  \E h \in Handlers :
    \/ \E m \in Messages : Receive(h, m)
    \/ Handle(h) \/ Fail(h) \/ Vanish(h)

Spec == Init /\ [][Next]_vars

\* Handlers run on and waiting for a connection is first come, first served;
\* a sender repeats what it has no answer to until it gets one.  Failures
\* are finitely many (MaxFaults).
Definitive == {"202", "409", "accepted", "duplicate", "conflict"}

Retry(m) == answer[m] \notin Definitive /\ \E h \in Handlers : Receive(h, m)

Fairness ==
  /\ \A h \in Handlers :
       WF_vars(Handle(h)) /\ SF_vars(Connect(h) \/ ConnectForConflict(h))
  /\ \A m \in Messages : SF_vars(Retry(m))

FairSpec == Spec /\ Fairness

-----------------------------------------------------------------------------
(***************************************************************************)
(* Properties                                                              *)
(***************************************************************************)
Rows == {m \in Messages : m.key # NoKey}
          \cup {[m EXCEPT !.key = n] : m \in Messages, n \in 1..MaxFresh}
Digests == {m.digest : m \in Messages}
AuditRecords ==
  [type : {"payment_event.ingested", "payment_event.idempotency_conflict"},
   event : Rows, incoming : Digests]
Replies == Definitive \cup {"503"}

ASSUME NoneAssumption == None \notin Rows /\ None \notin Replies

\* Every variable has its type.
TypeOK ==
  /\ pc \in [Handlers -> Connected \cup {"idle", "arrived", "conflict", "replying"}]
  /\ message \in [Handlers -> Messages \cup {None}]
  /\ event \in [Handlers -> Rows \cup {None}]
  /\ found \in [Handlers -> Rows \cup {None}]
  /\ reply \in [Handlers -> Replies \cup {None}]
  /\ rows \subseteq Rows
  /\ audit \in Seq(AuditRecords)
  /\ answer \in [Messages -> Replies \cup {None}]
  /\ fresh \in 0..MaxFresh
  /\ faults \in 0..MaxFaults

\* The select after an insert that did nothing finds exactly one row: the
\* scope it searches is the scope of the constraint that was hit.
LookupFindsOne == \A h \in Handlers : pc[h] = "lookup" => Cardinality(Matching(h)) = 1

Times(a) == Cardinality({k \in DOMAIN audit : audit[k] = a})

Stored(m) == {r \in rows : r.digest = m.digest /\ (m.key = NoKey \/ Collide(m, r))}

\* Of all the deliveries of an event, one is told that it stored the event: the
\* handlers about to say so and the messages last told so are about different
\* events.
Accepting(h) == pc[h] = "replying" /\ reply[h] = "accepted"

AcceptedOnce ==
  /\ \A g, h \in Handlers :
       Accepting(g) /\ Accepting(h) /\ Collide(event[g], event[h]) => g = h
  /\ \A m, n \in Messages :
       answer[m] = "accepted" /\ answer[n] = "accepted" /\ Collide(m, n) => m = n
  /\ \A h \in Handlers, m \in Messages :
       Accepting(h) /\ answer[m] = "accepted" => ~Collide(event[h], m)

\* What a sender was told is true for good: an accepted or duplicate event is
\* stored with the payload it sent and audited, only one delivery of it is told
\* accepted, a conflict has another stored payload under its name, and a
\* webhook's conflict was audited before it was acknowledged (README: webhook
\* conflicts).
AnswersBacked ==
  /\ AcceptedOnce
  /\ \A m \in Messages :
      /\ answer[m] \in {"202", "accepted", "duplicate"} =>
           \E r \in Stored(m) : Times(Ingested(r)) = 1
      /\ answer[m] \in {"409", "conflict"} =>
           \E r \in rows : Collide(m, r) /\ r.digest # m.digest
      /\ answer[m] = "conflict" =>
           \E r \in rows : Collide(m, r) /\ Times(ConflictAudit(r, m.digest)) > 0

\* Every stored event has exactly one ingestion record, and a conflict record
\* comes after it, about a payload that is not the stored one.
AuditExplains ==
  /\ \A r \in rows : Times(Ingested(r)) = 1
  /\ \A k \in DOMAIN audit : audit[k].event \in rows
  /\ \A k \in DOMAIN audit :
       audit[k].type = "payment_event.idempotency_conflict" =>
         /\ audit[k].incoming # audit[k].event.digest
         /\ \E i \in 1..(k - 1) : audit[i] = Ingested(audit[k].event)

\* The handlers together behave like the store that takes an event and its
\* audit record at once, never changes one and only notes conflicts.
Store == INSTANCE EventStore WITH Events <- Rows, events <- rows, trail <- audit
ImplementsStore == Store!StoreSpec

\* A sender that keeps repeating its message gets an answer other than 503:
\* handlers never wait for each other's rows or connections for ever.
EveryoneAnswered == \A m \in Messages : m.key # NoKey => <>(answer[m] \in Definitive)
=============================================================================
