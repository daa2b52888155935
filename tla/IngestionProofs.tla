--------------------------- MODULE IngestionProofs ---------------------------
(***************************************************************************)
(* Theorems about Ingestion, for every set of handlers and messages and    *)
(* every size of the pool.                                                 *)
(***************************************************************************)
EXTENDS Ingestion, FiniteSetTheorems, TLAPS

-----------------------------------------------------------------------------
(* Names and records                                                       *)

\* A row is a message with a key or a message under a generated key.
LEMMA RowFields ==
  ASSUME NEW r \in Rows
  PROVE  r.source \in {API, WEBHOOK} /\ r.digest \in Digests /\ r # None
<1>1. CASE r \in Messages
  BY <1>1, KeyAssumption, NoneAssumption DEF Digests
<1>2. CASE r \notin Messages
  <2>1. PICK m \in Messages, n \in 1..MaxFresh : r = [m EXCEPT !.key = n]
    BY <1>2 DEF Rows
  <2>2. "source" \in DOMAIN m /\ "digest" \in DOMAIN m
    BY MessageAssumption
  <2>3. r.source = m.source /\ r.digest = m.digest
    BY <2>1, <2>2
  <2> QED BY <2>3, KeyAssumption, NoneAssumption DEF Digests
<1> QED BY <1>1, <1>2

\* The event a handler ingests for a message.
LEMMA EventFields ==
  ASSUME NEW m \in Messages, NEW n \in Nat, m.key = NoKey => n \in 1..MaxFresh
  PROVE  /\ EventOf(m, n) \in Rows
         /\ EventOf(m, n).source = m.source
         /\ EventOf(m, n).digest = m.digest
         /\ m.key # NoKey => EventOf(m, n) = m
         /\ m.key = NoKey => EventOf(m, n).key = n
<1>1. CASE m.key = NoKey
  <2>1. EventOf(m, n) = [m EXCEPT !.key = n]
    BY <1>1 DEF EventOf
  <2>2. "source" \in DOMAIN m /\ "digest" \in DOMAIN m /\ "key" \in DOMAIN m
    BY MessageAssumption
  <2> QED BY <1>1, <2>1, <2>2 DEF Rows
<1>2. CASE m.key # NoKey
  BY <1>2 DEF EventOf, Rows
<1> QED BY <1>1, <1>2

\* Colliding is having the same name.
LEMMA CollideSelf == \A e : Collide(e, e)
BY DEF Collide

LEMMA CollideSymmetric == \A e, f : Collide(e, f) => Collide(f, e)
BY DEF Collide

LEMMA CollideTransitive == \A e, f, g : Collide(e, f) /\ Collide(f, g) => Collide(e, g)
BY DEF Collide

\* The scope an entry point searches is the scope of the constraint its
\* insert is checked against.
LEMMA ScopeIsConstraint ==
  ASSUME NEW e, e.source \in {API, WEBHOOK}, NEW r
  PROVE  Names(e, r) <=> Collide(e, r)
BY DEF Names, Collide, Scope, API, WEBHOOK

\* The records of an event.
LEMMA RecordFields ==
  \A e, d : /\ Ingested(e).event = e
            /\ ConflictAudit(e, d).event = e
            /\ ConflictAudit(e, d).incoming = d
            /\ Ingested(e).type # "payment_event.idempotency_conflict"
            /\ Ingested(e).type # ConflictAudit(e, d).type
BY DEF Ingested, ConflictAudit

LEMMA RecordTypes ==
  ASSUME NEW e \in Rows, NEW d \in Digests
  PROVE  Ingested(e) \in AuditRecords /\ ConflictAudit(e, d) \in AuditRecords
BY RowFields DEF Ingested, ConflictAudit, AuditRecords

-----------------------------------------------------------------------------
(* The inductive invariant                                                 *)

\* A handler ingests its message under its key or under a generated one.
Named ==
  \A h \in Handlers : pc[h] # "idle" =>
    /\ message[h] \in Messages
    /\ event[h] \in Rows
    /\ event[h].source = message[h].source
    /\ event[h].digest = message[h].digest
    /\ message[h].key # NoKey => event[h] = message[h]
    /\ message[h].key = NoKey => event[h].key \in 1..fresh

\* A generated key was generated once: nobody else's event has it, and no
\* stored one until its handler commits, so its insert never collides.
KeysGenerated == \A r \in rows : r.key \in Nat => r.key <= fresh

Alone ==
  \A h \in Handlers : pc[h] # "idle" /\ message[h].key = NoKey =>
    /\ pc[h] \notin {"lookup", "conflict", "auditing"}
    /\ \A g \in Handlers \ {h} : pc[g] # "idle" => event[g].key # event[h].key
    /\ pc[h] # "replying" => \A r \in rows : r.key # event[h].key

\* Committed rows collide neither with each other nor with uncommitted ones,
\* nor these with each other.
Apart ==
  /\ \A r, s \in rows : Collide(r, s) => r = s
  /\ \A h \in Handlers : Inserted(h) =>
       /\ \A r \in rows : ~Collide(event[h], r)
       /\ \A g \in Handlers \ {h} : Inserted(g) => ~Collide(event[h], event[g])

\* What a handler knows of the row that was there before it.
Matched ==
  \A h \in Handlers :
    /\ pc[h] \in {"arrived", "inserting", "created", "lookup"} => found[h] = None
    /\ pc[h] = "lookup" => \E r \in rows : Collide(event[h], r)
    /\ pc[h] = "ready" /\ found[h] # None =>
         /\ found[h] \in rows
         /\ Collide(event[h], found[h])
         /\ found[h].digest = event[h].digest
    /\ pc[h] \in {"conflict", "auditing"} =>
         /\ found[h] \in rows
         /\ Collide(event[h], found[h])
         /\ found[h].digest # event[h].digest
         /\ event[h].source = WEBHOOK

\* Every row has its one ingestion record; conflict records come after it.
Recorded ==
  /\ \A r \in rows : \E k \in DOMAIN audit :
       audit[k] = Ingested(r) /\ \A j \in DOMAIN audit : audit[j] = Ingested(r) => j = k
  /\ \A k \in DOMAIN audit : audit[k].event \in rows
  /\ \A k \in DOMAIN audit :
       audit[k].type = "payment_event.idempotency_conflict" =>
         /\ audit[k].incoming # audit[k].event.digest
         /\ \E i \in 1..(k - 1) : audit[i] = Ingested(audit[k].event)

\* What the database holds for an answer to an event.
BackedOk(e) == \E r \in rows : r.digest = e.digest /\ Collide(e, r)
BackedConflict(e) == \E r \in rows : r.digest # e.digest /\ Collide(e, r)
BackedAudit(e) ==
  \E r \in rows : Collide(e, r) /\ \E k \in DOMAIN audit : audit[k] = ConflictAudit(r, e.digest)

Backed(e, a) ==
  /\ a \in {"202", "accepted", "duplicate"} => BackedOk(e)
  /\ a \in {"409", "conflict"} => BackedConflict(e)
  /\ a = "conflict" => BackedAudit(e)

\* A response says what the database holds, before and after it is sent.
Truthful ==
  /\ \A h \in Handlers : pc[h] = "replying" =>
       /\ Backed(event[h], reply[h])
       /\ message[h].key = NoKey => reply[h] \notin {"409", "conflict"}
  /\ \A m \in Messages :
       /\ m.key # NoKey => Backed(m, answer[m])
       /\ m.key = NoKey =>
            /\ answer[m] \in {"202", "accepted", "duplicate"} =>
                 \E r \in rows : r.digest = m.digest
            /\ answer[m] \notin {"409", "conflict"}

\* Only webhooks are told accepted, and so by name.
Sourced ==
  /\ \A h \in Handlers : Accepting(h) => event[h].source = WEBHOOK
  /\ \A m \in Messages : answer[m] = "accepted" => m.source = WEBHOOK

Inv ==
  /\ TypeOK /\ Named /\ KeysGenerated /\ Alone
  /\ Apart /\ Matched /\ Recorded /\ Truthful
  /\ Sourced /\ AcceptedOnce

Step(h) == (\E m \in Messages : Receive(h, m)) \/ Handle(h) \/ Fail(h) \/ Vanish(h)

-----------------------------------------------------------------------------
(* What every step leaves alone                                            *)

\* The database only grows, and a step moves one handler.
Grows ==
  /\ rows \subseteq rows'
  /\ DOMAIN audit \subseteq DOMAIN audit'
  /\ \A k \in DOMAIN audit : audit'[k] = audit[k]
  /\ fresh <= fresh'

OthersStay(h) ==
  \A g \in Handlers \ {h} :
    /\ pc'[g] = pc[g] /\ message'[g] = message[g] /\ event'[g] = event[g]
    /\ found'[g] = found[g] /\ reply'[g] = reply[g]

LEMMA AppendGrows ==
  ASSUME NEW x, audit \in Seq(AuditRecords), x \in AuditRecords, audit' = Append(audit, x)
  PROVE  /\ DOMAIN audit = 1..Len(audit) /\ DOMAIN audit' = 1..(Len(audit) + 1)
         /\ Len(audit) \in Nat
         /\ \A k \in DOMAIN audit : audit'[k] = audit[k]
         /\ audit'[Len(audit) + 1] = x
BY SMT

LEMMA StringsDiffer ==
  /\ {"idle", "arrived", "inserting", "lookup", "created", "ready", "conflict", "auditing",
      "replying"} = Connected \cup {"idle", "arrived", "conflict", "replying"}
  /\ API # WEBHOOK
BY DEF Connected, API, WEBHOOK

LEMMA RepliesTyped ==
  ASSUME NEW h \in Handlers
  PROVE  Refused(h) \in Replies /\ Accepted(h) \in Replies /\ "503" \in Replies
BY DEF Refused, Accepted, Replies, Definitive

\* The response of a handler, by the source of its event.
LEMMA ReplyWords ==
  ASSUME NEW h \in Handlers
  PROVE  /\ Accepted(h) \in {"202", "accepted", "duplicate"}
         /\ Refused(h) \in {"409", "conflict"}
         /\ event[h].source = API => Refused(h) = "409"
BY DEF Refused, Accepted

LEMMA TypesStep ==
  ASSUME TypeOK, Named, Matched, NEW h \in Handlers, Step(h)
  PROVE  TypeOK'
<1> USE DEF TypeOK, local, db, Goto
<1>c. Connected \subseteq {"inserting", "lookup", "created", "ready", "auditing"}
  BY DEF Connected
<1>b. MaxFaults \in Nat /\ MaxFresh \in Nat
  BY BoundAssumption
<1>1. ASSUME NEW m \in Messages, Receive(h, m) PROVE TypeOK'
  <2>1. fresh' \in 0..MaxFresh /\ (m.key = NoKey => fresh' \in 1..MaxFresh)
    BY <1>1, <1>b DEF Receive
  <2>2. EventOf(m, fresh') \in Rows
    BY <2>1, EventFields
  <2>3. UNCHANGED <<rows, audit, answer, faults>>
    BY <1>1 DEF Receive
  <2>4. /\ pc' = [pc EXCEPT ![h] = "arrived"]
        /\ message' = [message EXCEPT ![h] = m]
        /\ event' = [event EXCEPT ![h] = EventOf(m, fresh')]
        /\ found' = [found EXCEPT ![h] = None]
        /\ reply' = [reply EXCEPT ![h] = None]
    BY <1>1 DEF Receive
  <2> QED BY <2>1, <2>2, <2>3, <2>4
<1>2. CASE Connect(h)
  BY <1>2 DEF Connect, Connected
<1>3. CASE Insert(h)
  BY <1>3 DEF Insert, Connected
<1>4. CASE LookUp(h)
  <2>1. PICK r \in Matching(h) : found' = [found EXCEPT ![h] = r]
    BY <1>4 DEF LookUp
  <2>2. r \in Rows
    BY <2>1 DEF Matching
  <2>3. /\ UNCHANGED <<message, event, rows, audit, answer, fresh, faults>>
        /\ \E to \in {"ready", "conflict", "replying"} : pc' = [pc EXCEPT ![h] = to]
        /\ reply' = reply \/ reply' = [reply EXCEPT ![h] = Refused(h)]
    BY <1>4 DEF LookUp
  <2>4. reply' \in [Handlers -> Replies \cup {None}]
    BY <2>3, RepliesTyped
  <2>5. pc' \in [Handlers -> Connected \cup {"idle", "arrived", "conflict", "replying"}]
    BY <2>3 DEF Connected
  <2> QED BY <2>1, <2>2, <2>3, <2>4, <2>5
<1>5. CASE AppendAudit(h)
  BY <1>5 DEF AppendAudit, Connected
<1>6. CASE CommitEvent(h)
  <2>1. event[h] \in Rows /\ event[h].digest \in Digests
    BY <1>6, RowFields DEF CommitEvent, Named
  <2>2. rows' \subseteq Rows
    BY <1>6, <2>1 DEF CommitEvent
  <2>5. Ingested(event[h]) \in AuditRecords
    BY <2>1, RecordTypes
  <2>6. audit' = audit \/ audit' = Append(audit, Ingested(event[h]))
    BY <1>6 DEF CommitEvent
  <2>7. audit' \in Seq(AuditRecords)
    BY <2>5, <2>6
  <2>3. UNCHANGED <<message, event, found, answer, fresh>> /\ faults' \in 0..MaxFaults
    BY <1>6, <1>b DEF CommitEvent
  <2>4. pc' = [pc EXCEPT ![h] = "replying"]
        /\ \E r \in Replies : reply' = [reply EXCEPT ![h] = r]
    BY <1>6, RepliesTyped DEF CommitEvent, Report
  <2> QED BY <2>2, <2>3, <2>4, <2>7
<1>7. CASE ConnectForConflict(h)
  BY <1>7 DEF ConnectForConflict, Connected
<1>8. CASE CommitConflict(h)
  <2>1. event[h].digest \in Digests /\ found[h] \in Rows
    BY <1>8, RowFields DEF CommitConflict, Named, Matched
  <2>2. audit' \in Seq(AuditRecords)
    BY <1>8, <2>1, RecordTypes DEF CommitConflict
  <2>3. UNCHANGED <<message, event, found, rows, answer, fresh>> /\ faults' \in 0..MaxFaults
    BY <1>8, <1>b DEF CommitConflict
  <2>4. pc' = [pc EXCEPT ![h] = "replying"]
        /\ \E r \in Replies : reply' = [reply EXCEPT ![h] = r]
    BY <1>8, RepliesTyped DEF CommitConflict, Report
  <2> QED BY <2>2, <2>3, <2>4
<1>9. CASE Respond(h)
  BY <1>9 DEF Respond, Named
<1>10. CASE Fail(h)
  BY <1>10, <1>b, RepliesTyped DEF Fail, Report
<1>11. CASE Vanish(h)
  BY <1>11, <1>b DEF Vanish
<1> QED
  BY <1>1, <1>2, <1>3, <1>4, <1>5, <1>6, <1>7, <1>8, <1>9, <1>10, <1>11 DEF Step, Handle

LEMMA GrowsStep ==
  ASSUME TypeOK, Named, Matched, NEW h \in Handlers, Step(h)
  PROVE  Grows /\ OthersStay(h)
<1> USE DEF local, db, Goto
<1>t. /\ fresh \in Nat /\ audit \in Seq(AuditRecords)
      /\ pc \in [Handlers -> Connected \cup {"idle", "arrived", "conflict", "replying"}]
      /\ message \in [Handlers -> Messages \cup {None}]
      /\ event \in [Handlers -> Rows \cup {None}]
      /\ found \in [Handlers -> Rows \cup {None}]
      /\ reply \in [Handlers -> Replies \cup {None}]
  BY BoundAssumption DEF TypeOK
<1>1. Grows
  <2>1. CASE audit' = audit
    <3>1. rows \subseteq rows' /\ fresh <= fresh'
      BY <1>t, <2>1 DEF Step, Handle, Receive, Connect, Insert, LookUp, AppendAudit, CommitEvent,
           ConnectForConflict, CommitConflict, Respond, Fail, Vanish
    <3> QED BY <2>1, <3>1 DEF Grows
  <2>2. CASE CommitEvent(h)
    <3>1. rows \subseteq rows' /\ fresh' = fresh
      BY <2>2 DEF CommitEvent
    <3>2. Ingested(event[h]) \in AuditRecords
      BY <2>2, RecordTypes, RowFields DEF CommitEvent, Named
    <3>3. audit' = audit \/ audit' = Append(audit, Ingested(event[h]))
      BY <2>2 DEF CommitEvent
    <3> QED BY <1>t, <3>1, <3>2, <3>3, AppendGrows DEF Grows
  <2>3. CASE CommitConflict(h)
    <3>1. rows \subseteq rows' /\ fresh' = fresh
      BY <2>3 DEF CommitConflict
    <3>2. ConflictAudit(found[h], event[h].digest) \in AuditRecords
      BY <2>3, RecordTypes, RowFields DEF CommitConflict, Named, Matched, TypeOK
    <3>3. audit' = Append(audit, ConflictAudit(found[h], event[h].digest))
      BY <2>3 DEF CommitConflict
    <3> QED BY <1>t, <3>1, <3>2, <3>3, AppendGrows DEF Grows
  <2>4. audit' = audit \/ CommitEvent(h) \/ CommitConflict(h)
    BY DEF Step, Handle, Receive, Connect, Insert, LookUp, AppendAudit,
         ConnectForConflict, Respond, Fail, Vanish
  <2> QED BY <2>1, <2>2, <2>3, <2>4
<1>2. OthersStay(h)
  <2>1. /\ pc' = pc \/ \E x : pc' = [pc EXCEPT ![h] = x]
        /\ message' = message \/ \E x : message' = [message EXCEPT ![h] = x]
        /\ event' = event \/ \E x : event' = [event EXCEPT ![h] = x]
        /\ found' = found \/ \E x : found' = [found EXCEPT ![h] = x]
        /\ reply' = reply \/ \E x : reply' = [reply EXCEPT ![h] = x]
    BY DEF Step, Handle, Receive, Connect, Insert, LookUp, AppendAudit, CommitEvent, Report,
         ConnectForConflict, CommitConflict, Respond, Fail, Vanish
  <2> QED BY <1>t, <2>1 DEF OthersStay
<1> QED BY <1>1, <1>2

-----------------------------------------------------------------------------
(* What a step does to its handler                                         *)

Keeps(h) ==
  message'[h] = message[h] /\ event'[h] = event[h] /\ rows \subseteq rows' /\ fresh' = fresh

StoreStays == rows' = rows /\ audit' = audit

Received(h, m) ==
  /\ pc'[h] = "arrived" /\ message'[h] = m
  /\ event'[h] = EventOf(m, fresh') /\ found'[h] = None
  /\ fresh' = (IF m.key = NoKey THEN fresh + 1 ELSE fresh)
  /\ StoreStays /\ answer' = answer

\* Every step but a delivery and a look-up, as a move of the handler's place.
Moved(h, from, to) ==
  Keeps(h) /\ pc[h] = from /\ pc'[h] = to /\ found'[h] = found[h] /\ answer' = answer

Replied(h) == pc'[h] = "replying" /\ Keeps(h) /\ answer' = answer

LEMMA Effects ==
  ASSUME TypeOK, NEW h \in Handlers, Step(h)
  PROVE  \/ \E m \in Messages : Received(h, m)
         \/ Moved(h, "arrived", "inserting") /\ StoreStays
         \/ /\ Moved(h, "inserting", "lookup") /\ StoreStays
            /\ \E r \in rows : Collide(event[h], r)
         \/ /\ Moved(h, "inserting", "created") /\ StoreStays
            /\ ~InsertWaits(h) /\ ~\E r \in rows : Collide(event[h], r)
         \/ /\ pc[h] = "lookup" /\ Keeps(h) /\ StoreStays /\ answer' = answer
            /\ \E r \in Matching(h) :
                 /\ found'[h] = r
                 /\ \/ r.digest = event[h].digest /\ pc'[h] = "ready"
                    \/ /\ r.digest # event[h].digest /\ event[h].source = WEBHOOK
                       /\ pc'[h] = "conflict"
                    \/ /\ r.digest # event[h].digest /\ event[h].source = API
                       /\ pc'[h] = "replying" /\ reply'[h] = Refused(h)
         \/ Moved(h, "created", "ready") /\ StoreStays
         \/ /\ Replied(h) /\ pc[h] = "ready" /\ reply'[h] \in {Accepted(h), "503"}
            /\ IF found[h] = None
               THEN rows' = rows \cup {event[h]} /\ audit' = Append(audit, Ingested(event[h]))
               ELSE StoreStays
         \/ Moved(h, "conflict", "auditing") /\ StoreStays
         \/ /\ Replied(h) /\ pc[h] = "auditing" /\ reply'[h] \in {Refused(h), "503"}
            /\ rows' = rows /\ audit' = Append(audit, ConflictAudit(found[h], event[h].digest))
         \/ /\ pc[h] = "replying" /\ pc'[h] = "idle" /\ Keeps(h) /\ StoreStays
            /\ answer' = [answer EXCEPT ![message[h]] = reply[h]]
         \/ Replied(h) /\ StoreStays /\ reply'[h] = "503" /\ pc[h] \notin {"idle", "replying"}
         \/ pc'[h] = "idle" /\ Keeps(h) /\ StoreStays /\ answer' = answer
<1> USE DEF local, db, Goto, Report, Keeps, StoreStays, Moved, Replied
<1>t. /\ pc \in [Handlers -> Connected \cup {"idle", "arrived", "conflict", "replying"}]
      /\ message \in [Handlers -> Messages \cup {None}]
      /\ event \in [Handlers -> Rows \cup {None}]
      /\ found \in [Handlers -> Rows \cup {None}]
      /\ reply \in [Handlers -> Replies \cup {None}]
  BY DEF TypeOK
<1>1. ASSUME NEW m \in Messages, Receive(h, m) PROVE Received(h, m)
  BY <1>t, <1>1 DEF Receive, Received
<1>2. ASSUME Connect(h) PROVE Moved(h, "arrived", "inserting") /\ StoreStays
  BY <1>t, <1>2 DEF Connect
<1>3. ASSUME Insert(h)
      PROVE  /\ \/ Moved(h, "inserting", "lookup") /\ \E r \in rows : Collide(event[h], r)
                \/ Moved(h, "inserting", "created") /\ ~\E r \in rows : Collide(event[h], r)
             /\ StoreStays /\ ~InsertWaits(h)
  BY <1>t, <1>3 DEF Insert
<1>4. ASSUME LookUp(h)
      PROVE  /\ pc[h] = "lookup" /\ Keeps(h) /\ StoreStays /\ answer' = answer
             /\ \E r \in Matching(h) :
                 /\ found'[h] = r
                 /\ \/ r.digest = event[h].digest /\ pc'[h] = "ready"
                    \/ /\ r.digest # event[h].digest /\ event[h].source = WEBHOOK
                       /\ pc'[h] = "conflict"
                    \/ /\ r.digest # event[h].digest /\ event[h].source = API
                       /\ pc'[h] = "replying" /\ reply'[h] = Refused(h)
  BY <1>t, <1>4 DEF LookUp
<1>5. ASSUME AppendAudit(h) PROVE Moved(h, "created", "ready") /\ StoreStays
  BY <1>t, <1>5 DEF AppendAudit
<1>6. ASSUME CommitEvent(h)
      PROVE  /\ Replied(h) /\ pc[h] = "ready" /\ reply'[h] \in {Accepted(h), "503"}
             /\ IF found[h] = None
                THEN rows' = rows \cup {event[h]} /\ audit' = Append(audit, Ingested(event[h]))
                ELSE StoreStays
  BY <1>t, <1>6 DEF CommitEvent
<1>7. ASSUME ConnectForConflict(h) PROVE Moved(h, "conflict", "auditing") /\ StoreStays
  BY <1>t, <1>7 DEF ConnectForConflict
<1>8. ASSUME CommitConflict(h)
      PROVE  /\ Replied(h) /\ pc[h] = "auditing" /\ reply'[h] \in {Refused(h), "503"}
             /\ rows' = rows /\ audit' = Append(audit, ConflictAudit(found[h], event[h].digest))
  BY <1>t, <1>8 DEF CommitConflict
<1>9. ASSUME Respond(h)
      PROVE  /\ pc[h] = "replying" /\ pc'[h] = "idle" /\ Keeps(h) /\ StoreStays
             /\ answer' = [answer EXCEPT ![message[h]] = reply[h]]
  BY <1>t, <1>9 DEF Respond
<1>10. ASSUME Fail(h)
       PROVE  Replied(h) /\ StoreStays /\ reply'[h] = "503" /\ pc[h] \notin {"idle", "replying"}
  BY <1>t, <1>10 DEF Fail, Connected
<1>11. ASSUME Vanish(h)
       PROVE  pc'[h] = "idle" /\ Keeps(h) /\ StoreStays /\ answer' = answer
  BY <1>t, <1>11 DEF Vanish
<1> HIDE DEF Keeps, StoreStays, Moved, Replied
<1> QED
  BY <1>1, <1>2, <1>3, <1>4, <1>5, <1>6, <1>7, <1>8, <1>9, <1>10, <1>11 DEF Step, Handle

-----------------------------------------------------------------------------
(* Every part of the invariant is kept                                     *)

LEMMA NamedStep ==
  ASSUME Inv, NEW h \in Handlers, Step(h)
  PROVE  Named'
<1>1. TypeOK /\ Named /\ Grows /\ OthersStay(h) /\ TypeOK'
  BY GrowsStep, TypesStep DEF Inv
<1>2. fresh \in Nat /\ fresh' \in Nat
  BY <1>1, BoundAssumption DEF TypeOK
<1>3. ASSUME NEW g \in Handlers \ {h}, pc'[g] # "idle"
      PROVE  /\ message'[g] \in Messages /\ event'[g] \in Rows
             /\ event'[g].source = message'[g].source /\ event'[g].digest = message'[g].digest
             /\ message'[g].key # NoKey => event'[g] = message'[g]
             /\ message'[g].key = NoKey => event'[g].key \in 1..fresh'
  BY <1>1, <1>2, <1>3 DEF Named, OthersStay, Grows
<1>4. ASSUME pc'[h] # "idle"
      PROVE  /\ message'[h] \in Messages /\ event'[h] \in Rows
             /\ event'[h].source = message'[h].source /\ event'[h].digest = message'[h].digest
             /\ message'[h].key # NoKey => event'[h] = message'[h]
             /\ message'[h].key = NoKey => event'[h].key \in 1..fresh'
  <2>1. CASE \E m \in Messages : Received(h, m)
    <3>1. PICK m \in Messages : Received(h, m)
      BY <2>1
    <3>2. m.key = NoKey => fresh' \in 1..MaxFresh /\ fresh' \in 1..fresh'
      BY <1>1, <1>2, <3>1, BoundAssumption DEF TypeOK, Received
    <3>3. message'[h] = m /\ event'[h] = EventOf(m, fresh')
      BY <3>1 DEF Received
    <3> QED BY <1>2, <3>2, <3>3, EventFields
  <2>2. CASE Keeps(h) /\ pc[h] # "idle"
    BY <1>1, <2>2 DEF Keeps, Named
  <2> QED BY <1>1, <1>4, <2>1, <2>2, Effects DEF Moved, Replied
<1> QED BY <1>3, <1>4 DEF Named

\* A handler goes on with its event until it has answered.
LEMMA Continues ==
  ASSUME TypeOK, NEW h \in Handlers, Step(h), pc'[h] # "idle"
  PROVE  \/ \E m \in Messages : Received(h, m)
         \/ Keeps(h) /\ pc[h] \notin {"idle", "replying"}
BY Effects DEF Moved, Replied

\* Rows are added by the commits of handlers that found none.
Commits(h) ==
  /\ pc[h] = "ready" /\ found[h] = None /\ pc'[h] = "replying" /\ Keeps(h)
  /\ rows' = rows \cup {event[h]} /\ audit' = Append(audit, Ingested(event[h]))

LEMMA RowsAfter ==
  ASSUME TypeOK, NEW h \in Handlers, Step(h)
  PROVE  rows' = rows \/ Commits(h)
BY Effects DEF Received, Moved, Replied, StoreStays, Commits

\* The numbers among the keys of handled events have been generated.
LEMMA EventKeys ==
  ASSUME Named, NEW h \in Handlers, pc[h] # "idle", fresh \in Nat
  PROVE  event[h].key \in Nat => event[h].key <= fresh
BY KeyAssumption DEF Named

LEMMA KeysGeneratedStep ==
  ASSUME Inv, NEW h \in Handlers, Step(h)
  PROVE  KeysGenerated'
<1>1. TypeOK /\ Named /\ KeysGenerated /\ fresh <= fresh' /\ TypeOK'
  BY GrowsStep, TypesStep DEF Inv, Grows
<1>2. fresh \in Nat /\ fresh' \in Nat
  BY <1>1, BoundAssumption DEF TypeOK
<1>3. CASE rows' = rows
  BY <1>1, <1>2, <1>3 DEF KeysGenerated
<1>4. CASE Commits(h)
  <2>1. rows' = rows \cup {event[h]} /\ (event[h].key \in Nat => event[h].key <= fresh)
    BY <1>1, <1>2, <1>4, EventKeys DEF Commits
  <2> QED BY <1>1, <1>2, <2>1 DEF KeysGenerated
<1> QED BY <1>1, <1>3, <1>4, RowsAfter

LEMMA AloneStep ==
  ASSUME Inv, NEW h \in Handlers, Step(h)
  PROVE  Alone'
<1>1. /\ TypeOK /\ Named /\ KeysGenerated /\ Alone /\ Matched
      /\ OthersStay(h) /\ fresh <= fresh' /\ TypeOK' /\ Named'
  BY GrowsStep, TypesStep, NamedStep DEF Inv, Grows
<1>2. fresh \in Nat /\ fresh' \in Nat
  BY <1>1, BoundAssumption DEF TypeOK
<1>3. ASSUME pc'[h] # "idle", message'[h].key = NoKey
      PROVE  /\ pc'[h] \notin {"lookup", "conflict", "auditing"}
             /\ \A g \in Handlers \ {h} : pc'[g] # "idle" => event'[g].key # event'[h].key
             /\ pc'[h] # "replying" => \A r \in rows' : r.key # event'[h].key
  <2>1. ASSUME NEW m \in Messages, Received(h, m)
        PROVE  /\ pc'[h] = "arrived" /\ rows' = rows
               /\ event'[h].key = fresh + 1 /\ fresh + 1 \in Nat
    <3>1. message'[h] = m /\ event'[h] = EventOf(m, fresh') /\ fresh' = fresh + 1
      BY <1>3, <2>1 DEF Received
    <3>2. fresh' \in 1..MaxFresh
      BY <1>1, <1>2, <3>1, BoundAssumption DEF TypeOK
    <3>3. EventOf(m, fresh').key = fresh'
      BY <1>2, <1>3, <3>1, <3>2, EventFields
    <3> QED BY <1>2, <2>1, <3>1, <3>3 DEF Received, StoreStays
  <2>2. CASE \E m \in Messages : Received(h, m)
    <3>1. /\ pc'[h] = "arrived" /\ rows' = rows
          /\ event'[h].key = fresh + 1 /\ fresh + 1 \in Nat
      BY <2>1, <2>2
    <3>2. \A r \in rows : r.key # fresh + 1
      BY <1>1, <1>2 DEF KeysGenerated
    <3>3. ASSUME NEW g \in Handlers \ {h}, pc'[g] # "idle" PROVE event'[g].key # fresh + 1
      BY <1>1, <1>2, <3>3, EventKeys DEF OthersStay
    <3> QED BY <3>1, <3>2, <3>3
  <2>3. CASE Keeps(h) /\ pc[h] \notin {"idle", "replying"}
    <3>1. /\ message[h].key = NoKey /\ event'[h] = event[h]
          /\ pc[h] \notin {"lookup", "conflict", "auditing"}
          /\ \A g \in Handlers \ {h} : pc[g] # "idle" => event[g].key # event[h].key
          /\ \A r \in rows : r.key # event[h].key
      BY <1>1, <1>3, <2>3 DEF Keeps, Alone
    <3>2. ~\E r \in rows : Collide(event[h], r)
      BY <3>1 DEF Collide
    <3>3. /\ pc'[h] \notin {"lookup", "conflict", "auditing"}
          /\ pc'[h] # "replying" => rows' = rows
      BY <1>1, <1>3, <3>1, <3>2, Effects DEF Received, Moved, Replied, StoreStays
    <3> QED BY <1>1, <3>1, <3>3 DEF OthersStay
  <2> QED BY <1>1, <1>3, <2>2, <2>3, Continues
<1>4. ASSUME NEW g \in Handlers \ {h}, pc'[g] # "idle", message'[g].key = NoKey
      PROVE  /\ pc'[g] \notin {"lookup", "conflict", "auditing"}
             /\ \A i \in Handlers \ {g} : pc'[i] # "idle" => event'[i].key # event'[g].key
             /\ pc'[g] # "replying" => \A r \in rows' : r.key # event'[g].key
  <2>1. /\ pc[g] = pc'[g] /\ event[g] = event'[g] /\ message[g] = message'[g]
        /\ event[g].key \in 1..fresh
        /\ pc[g] \notin {"lookup", "conflict", "auditing"}
        /\ \A i \in Handlers \ {g} : pc[i] # "idle" => event[i].key # event[g].key
        /\ pc[g] # "replying" => \A r \in rows : r.key # event[g].key
    BY <1>1, <1>4 DEF OthersStay, Alone, Named
  <2>2. ASSUME pc'[h] # "idle" PROVE event'[h].key # event[g].key
    <3>1. CASE \E m \in Messages : Received(h, m)
      <4>1. PICK m \in Messages : Received(h, m)
        BY <3>1
      <4>2. message'[h] = m /\ (m.key = NoKey => fresh' = fresh + 1)
        BY <4>1 DEF Received
      <4>3. CASE m.key = NoKey
        <5>1. event'[h].key = fresh + 1
          BY <1>1, <1>2, <2>2, <4>1, <4>2, <4>3, EventFields, BoundAssumption
             DEF Received, TypeOK
        <5> QED BY <1>2, <2>1, <5>1
      <4>4. CASE m.key # NoKey
        BY <1>1, <1>2, <2>1, <2>2, <4>2, <4>4, KeyAssumption DEF Named
      <4> QED BY <4>3, <4>4
    <3>2. CASE Keeps(h) /\ pc[h] \notin {"idle", "replying"}
      BY <2>1, <3>2 DEF Keeps
    <3> QED BY <1>1, <2>2, <3>1, <3>2, Continues
  <2>3. ASSUME NEW i \in Handlers \ {g}, pc'[i] # "idle" PROVE event'[i].key # event'[g].key
    BY <1>1, <2>1, <2>2, <2>3 DEF OthersStay
  <2>4. ASSUME pc'[g] # "replying", NEW r \in rows' PROVE r.key # event'[g].key
    <3>1. CASE r \in rows
      BY <2>1, <2>4, <3>1
    <3>2. CASE r \notin rows
      BY <1>1, <2>1, <2>4, <3>2, RowsAfter DEF Commits
    <3> QED BY <3>1, <3>2
  <2> QED BY <2>1, <2>3, <2>4
<1> QED BY <1>3, <1>4 DEF Alone

LEMMA MatchedStep ==
  ASSUME Inv, NEW h \in Handlers, Step(h)
  PROVE  Matched'
<1> DEFINE Knows(g) ==
      /\ pc[g] \in {"arrived", "inserting", "created", "lookup"} => found[g] = None
      /\ pc[g] = "lookup" => \E r \in rows : Collide(event[g], r)
      /\ pc[g] = "ready" /\ found[g] # None =>
           /\ found[g] \in rows
           /\ Collide(event[g], found[g])
           /\ found[g].digest = event[g].digest
      /\ pc[g] \in {"conflict", "auditing"} =>
           /\ found[g] \in rows
           /\ Collide(event[g], found[g])
           /\ found[g].digest # event[g].digest
           /\ event[g].source = WEBHOOK
<1>1. TypeOK /\ Named /\ rows \subseteq rows' /\ OthersStay(h)
  BY GrowsStep DEF Inv, Grows
<1>2. \A g \in Handlers : Knows(g)
  BY DEF Inv, Matched
<1>3. ASSUME NEW g \in Handlers \ {h} PROVE Knows(g)'
  BY <1>1, <1>2 DEF OthersStay
<1>4. Knows(h)'
  <2>1. CASE \E m \in Messages : Received(h, m)
    BY <2>1 DEF Received
  <2>2. CASE \E from, to : Moved(h, from, to) /\ StoreStays /\ to \in {"inserting", "auditing", "ready"}
                 /\ (to = "ready" => from = "created") /\ (to = "auditing" => from = "conflict")
                 /\ (to = "inserting" => from = "arrived")
    BY <1>2, <2>2 DEF Moved, Keeps, StoreStays
  <2>3. CASE /\ \/ Moved(h, "inserting", "lookup") /\ \E r \in rows : Collide(event[h], r)
                \/ Moved(h, "inserting", "created")
             /\ StoreStays
    BY <1>2, <2>3 DEF Moved, Keeps, StoreStays
  <2>4. CASE /\ pc[h] = "lookup" /\ Keeps(h) /\ StoreStays
             /\ \E r \in Matching(h) :
                 /\ found'[h] = r
                 /\ \/ r.digest = event[h].digest /\ pc'[h] = "ready"
                    \/ /\ r.digest # event[h].digest /\ event[h].source = WEBHOOK
                       /\ pc'[h] = "conflict"
                    \/ pc'[h] = "replying"
    <3>1. event[h].source \in {API, WEBHOOK} /\ event'[h] = event[h] /\ rows' = rows
      BY <1>1, <2>4, RowFields DEF Named, Keeps, StoreStays
    <3>2. PICK r \in Matching(h) :
                 /\ found'[h] = r
                 /\ \/ r.digest = event[h].digest /\ pc'[h] = "ready"
                    \/ /\ r.digest # event[h].digest /\ event[h].source = WEBHOOK
                       /\ pc'[h] = "conflict"
                    \/ pc'[h] = "replying"
      BY <2>4
    <3>3. r \in rows /\ Collide(event[h], r)
      BY <3>1, ScopeIsConstraint DEF Matching
    <3> QED BY <3>1, <3>2, <3>3
  <2>5. CASE pc'[h] \in {"idle", "replying"}
    BY <2>5
  <2> HIDE DEF Knows
  <2> QED BY <1>1, <2>1, <2>2, <2>3, <2>4, <2>5, Effects DEF Replied
<1> QED BY <1>3, <1>4 DEF Matched

\* An uncommitted row was inserted when nothing collided with it.
LEMMA InsertedStep ==
  ASSUME TypeOK, Named, NEW h \in Handlers, Step(h), Inserted(h)'
  PROVE  /\ Keeps(h) /\ rows' = rows
         /\ Inserted(h) \/ (~InsertWaits(h) /\ ~\E r \in rows : Collide(event[h], r))
<1>1. \A r \in Matching(h) : r # None
  BY NoneAssumption DEF Matching, TypeOK
<1> QED BY <1>1, Effects DEF Inserted, Received, Moved, Replied, StoreStays

LEMMA ApartStep ==
  ASSUME Inv, NEW h \in Handlers, Step(h)
  PROVE  Apart'
<1>1. TypeOK /\ Named /\ Apart /\ OthersStay(h)
  BY GrowsStep DEF Inv
<1>2. Commits(h) => Inserted(h)
  BY DEF Commits, Inserted
<1>3. ASSUME NEW r \in rows', NEW s \in rows', Collide(r, s) PROVE r = s
  <2>1. CASE rows' = rows
    BY <1>1, <1>3, <2>1 DEF Apart
  <2>2. CASE Commits(h)
    <3>1. rows' = rows \cup {event[h]} /\ \A x \in rows : ~Collide(event[h], x)
      BY <1>1, <1>2, <2>2 DEF Commits, Apart
    <3> QED BY <1>1, <1>3, <3>1, CollideSymmetric DEF Apart
  <2> QED BY <1>1, <2>1, <2>2, RowsAfter
<1>4. ASSUME Inserted(h)'
      PROVE  /\ \A r \in rows' : ~Collide(event'[h], r)
             /\ \A g \in Handlers \ {h} : Inserted(g)' => ~Collide(event'[h], event'[g])
  <2>1. /\ event'[h] = event[h] /\ rows' = rows
        /\ Inserted(h) \/ (~InsertWaits(h) /\ ~\E r \in rows : Collide(event[h], r))
    BY <1>1, <1>4, InsertedStep DEF Keeps
  <2>2. \A g \in Handlers \ {h} : (Inserted(g)' <=> Inserted(g)) /\ event'[g] = event[g]
    BY <1>1 DEF OthersStay, Inserted
  <2>3. CASE Inserted(h)
    BY <1>1, <2>1, <2>2, <2>3 DEF Apart
  <2>4. CASE ~Inserted(h)
    BY <2>1, <2>2, <2>4 DEF InsertWaits
  <2> QED BY <2>3, <2>4
<1>5. ASSUME NEW g \in Handlers \ {h}, Inserted(g)'
      PROVE  /\ \A r \in rows' : ~Collide(event'[g], r)
             /\ \A i \in Handlers \ {g} : Inserted(i)' => ~Collide(event'[g], event'[i])
  <2>1. \A i \in Handlers \ {h} : (Inserted(i)' <=> Inserted(i)) /\ event'[i] = event[i]
    BY <1>1 DEF OthersStay, Inserted
  <2>2. Inserted(g) /\ event'[g] = event[g]
    BY <1>5, <2>1
  <2>3. /\ \A r \in rows : ~Collide(event[g], r)
        /\ \A i \in Handlers \ {g} : Inserted(i) => ~Collide(event[g], event[i])
    BY <1>1, <2>2 DEF Apart
  <2>4. \A r \in rows' : ~Collide(event[g], r)
    BY <1>1, <1>2, <2>3, RowsAfter DEF Commits
  <2>5. ASSUME NEW i \in Handlers \ {g}, Inserted(i)' PROVE ~Collide(event'[g], event'[i])
    <3>1. CASE i # h
      BY <2>1, <2>2, <2>3, <2>5, <3>1
    <3>2. CASE i = h
      BY <1>4, <1>5, <2>5, <3>2, CollideSymmetric
    <3> QED BY <3>1, <3>2
  <2> QED BY <2>2, <2>4, <2>5
<1> QED BY <1>3, <1>4, <1>5 DEF Apart

\* The database after a step: as before, or with one commit more.
Notes(h) ==
  /\ pc[h] = "auditing" /\ pc'[h] = "replying" /\ rows' = rows
  /\ audit' = Append(audit, ConflictAudit(found[h], event[h].digest))

LEMMA StoreAfter ==
  ASSUME TypeOK, NEW h \in Handlers, Step(h)
  PROVE  StoreStays \/ Commits(h) \/ Notes(h)
BY Effects DEF Received, Moved, Replied, Commits, Notes

LEMMA RecordedStep ==
  ASSUME Inv, NEW h \in Handlers, Step(h)
  PROVE  Recorded'
<1> DEFINE Once(r) == \E k \in DOMAIN audit :
             audit[k] = Ingested(r) /\ \A j \in DOMAIN audit : audit[j] = Ingested(r) => j = k
           Justified(k) == audit[k].type = "payment_event.idempotency_conflict" =>
             /\ audit[k].incoming # audit[k].event.digest
             /\ \E i \in 1..(k - 1) : audit[i] = Ingested(audit[k].event)
<1>1. TypeOK /\ Named /\ Matched /\ Apart /\ Recorded /\ audit \in Seq(AuditRecords)
  BY DEF Inv, TypeOK
<1>2. /\ \A r \in rows : Once(r)
      /\ \A k \in DOMAIN audit : audit[k].event \in rows
      /\ \A k \in DOMAIN audit : Justified(k)
  BY <1>1 DEF Recorded
<1>3. CASE StoreStays
  BY <1>2, <1>3 DEF Recorded, StoreStays
<1>4. ASSUME NEW x \in AuditRecords, audit' = Append(audit, x), x.event \in rows',
             rows \subseteq rows', rows' \subseteq rows \cup {x.event},
             x.event \notin rows => x = Ingested(x.event),
             x.event \in rows =>
               /\ x.type = "payment_event.idempotency_conflict"
               /\ x.incoming # x.event.digest
      PROVE  Recorded'
  <2> DEFINE n == Len(audit)
  <2>1. /\ n \in Nat /\ DOMAIN audit = 1..n /\ DOMAIN audit' = 1..(n + 1)
        /\ \A k \in DOMAIN audit : audit'[k] = audit[k]
        /\ audit'[n + 1] = x
    BY <1>1, <1>4, AppendGrows
  <2> HIDE DEF n
  <2>2. ASSUME NEW r \in rows'
        PROVE  \E k \in DOMAIN audit' :
                 /\ audit'[k] = Ingested(r)
                 /\ \A j \in DOMAIN audit' : audit'[j] = Ingested(r) => j = k
    <3>1. CASE r \in rows
      <4>1. x # Ingested(r)
        BY <1>4, <3>1, RecordFields
      <4>2. PICK k \in DOMAIN audit :
              audit[k] = Ingested(r) /\ \A j \in DOMAIN audit : audit[j] = Ingested(r) => j = k
        BY <1>2, <3>1
      <4>3. k \in DOMAIN audit' /\ audit'[k] = Ingested(r)
        BY <2>1, <4>2
      <4>4. ASSUME NEW j \in DOMAIN audit', audit'[j] = Ingested(r) PROVE j = k
        <5>1. j # n + 1
          BY <2>1, <4>1, <4>4
        <5>2. j \in DOMAIN audit
          BY <2>1, <5>1
        <5> QED BY <2>1, <4>2, <4>4, <5>2
      <4> QED BY <4>3, <4>4
    <3>2. CASE r \notin rows
      <4>1. r = x.event /\ x = Ingested(r)
        BY <1>4, <2>2, <3>2
      <4>2. \A j \in DOMAIN audit : audit[j] # Ingested(r)
        BY <1>2, <3>2, RecordFields
      <4>3. n + 1 \in DOMAIN audit' /\ audit'[n + 1] = Ingested(r)
        BY <2>1, <4>1
      <4>4. ASSUME NEW j \in DOMAIN audit', audit'[j] = Ingested(r) PROVE j = n + 1
        BY <2>1, <4>2, <4>4
      <4> QED BY <4>3, <4>4
    <3> QED BY <3>1, <3>2
  <2>3. ASSUME NEW k \in DOMAIN audit' PROVE audit'[k].event \in rows'
    BY <1>2, <1>4, <2>1, <2>3
  <2>4. ASSUME NEW k \in DOMAIN audit',
               audit'[k].type = "payment_event.idempotency_conflict"
        PROVE  /\ audit'[k].incoming # audit'[k].event.digest
               /\ \E i \in 1..(k - 1) : audit'[i] = Ingested(audit'[k].event)
    <3>1. CASE k \in DOMAIN audit
      <4>1. Justified(k) /\ audit'[k] = audit[k]
        BY <1>2, <2>1, <3>1
      <4>2. PICK i \in 1..(k - 1) : audit[i] = Ingested(audit[k].event)
        BY <2>4, <4>1
      <4>3. i \in DOMAIN audit
        BY <2>1, <3>1
      <4>4. audit'[i] = Ingested(audit'[k].event)
        BY <2>1, <4>1, <4>2, <4>3
      <4> QED BY <2>4, <4>1, <4>4
    <3>2. CASE k \notin DOMAIN audit
      <4>1. k = n + 1 /\ audit'[k] = x
        BY <2>1, <3>2
      <4>2. x.event \in rows
        BY <1>4, <2>4, <4>1, RecordFields
      <4>3. PICK i \in DOMAIN audit : audit[i] = Ingested(x.event)
        BY <1>2, <4>2
      <4>4. i \in 1..(k - 1) /\ audit'[i] = Ingested(x.event)
        BY <2>1, <4>1, <4>3
      <4> QED BY <1>4, <4>1, <4>2, <4>4
    <3> QED BY <3>1, <3>2
  <2> QED BY <2>2, <2>3, <2>4 DEF Recorded
<1>5. CASE Commits(h)
  <2>1. event[h] \in Rows /\ event[h].digest \in Digests
    BY <1>1, <1>5, RowFields DEF Commits, Named
  <2>2. event[h] \notin rows
    BY <1>1, <1>5, CollideSelf DEF Commits, Apart, Inserted
  <2>3. Ingested(event[h]) \in AuditRecords /\ Ingested(event[h]).event = event[h]
    BY <2>1, RecordTypes, RecordFields
  <2>4. rows' = rows \cup {event[h]} /\ audit' = Append(audit, Ingested(event[h]))
    BY <1>5 DEF Commits
  <2> QED BY <1>4, <2>2, <2>3, <2>4
<1>6. CASE Notes(h)
  <2>1. /\ found[h] \in rows /\ found[h] \in Rows /\ event[h].digest \in Digests
        /\ found[h].digest # event[h].digest
    BY <1>1, <1>6, RowFields DEF Notes, Named, Matched, TypeOK
  <2>2. ConflictAudit(found[h], event[h].digest) \in AuditRecords
    BY <2>1, RecordTypes
  <2>3. /\ ConflictAudit(found[h], event[h].digest).event = found[h]
        /\ ConflictAudit(found[h], event[h].digest).incoming = event[h].digest
        /\ ConflictAudit(found[h], event[h].digest).type = "payment_event.idempotency_conflict"
    BY DEF ConflictAudit
  <2>4. rows' = rows /\ audit' = Append(audit, ConflictAudit(found[h], event[h].digest))
    BY <1>6 DEF Notes
  <2> QED BY <1>4, <2>1, <2>2, <2>3, <2>4
<1> QED BY <1>1, <1>3, <1>5, <1>6, StoreAfter

\* What backs an answer stays.
LEMMA BackedStays ==
  ASSUME Grows, NEW e, NEW a, Backed(e, a)
  PROVE  /\ a \in {"202", "accepted", "duplicate"} =>
              \E r \in rows' : r.digest = e.digest /\ Collide(e, r)
         /\ a \in {"409", "conflict"} => \E r \in rows' : r.digest # e.digest /\ Collide(e, r)
         /\ a = "conflict" =>
              \E r \in rows' : Collide(e, r)
                /\ \E k \in DOMAIN audit' : audit'[k] = ConflictAudit(r, e.digest)
<1>1. a \in {"202", "accepted", "duplicate"} =>
        \E r \in rows' : r.digest = e.digest /\ Collide(e, r)
  BY DEF Grows, Backed, BackedOk
<1>2. a \in {"409", "conflict"} => \E r \in rows' : r.digest # e.digest /\ Collide(e, r)
  BY DEF Grows, Backed, BackedConflict
<1>3. ASSUME a = "conflict"
      PROVE  \E r \in rows' : Collide(e, r)
               /\ \E k \in DOMAIN audit' : audit'[k] = ConflictAudit(r, e.digest)
  <2>1. PICK r \in rows : Collide(e, r)
          /\ \E k \in DOMAIN audit : audit[k] = ConflictAudit(r, e.digest)
    BY <1>3 DEF Backed, BackedAudit
  <2>2. PICK k \in DOMAIN audit : audit[k] = ConflictAudit(r, e.digest)
    BY <2>1
  <2>3. r \in rows' /\ k \in DOMAIN audit' /\ audit'[k] = ConflictAudit(r, e.digest)
    BY <2>2 DEF Grows
  <2> QED BY <2>1, <2>3
<1> QED BY <1>1, <1>2, <1>3

LEMMA TruthfulStep ==
  ASSUME Inv, NEW h \in Handlers, Step(h)
  PROVE  Truthful'
<1> DEFINE Ok(e) == \E r \in rows' : r.digest = e.digest /\ Collide(e, r)
           Conflicting(e) == \E r \in rows' : r.digest # e.digest /\ Collide(e, r)
           Audited(e) == \E r \in rows' : Collide(e, r)
                           /\ \E k \in DOMAIN audit' : audit'[k] = ConflictAudit(r, e.digest)
           Now(e, a) == /\ a \in {"202", "accepted", "duplicate"} => Ok(e)
                        /\ a \in {"409", "conflict"} => Conflicting(e)
                        /\ a = "conflict" => Audited(e)
<1>1. /\ TypeOK /\ Named /\ Alone /\ Matched /\ Truthful /\ Grows /\ OthersStay(h)
      /\ answer \in [Messages -> Replies \cup {None}]
  BY GrowsStep DEF Inv, TypeOK
<1>2. \A e, a : Backed(e, a) => Now(e, a)
  BY <1>1, BackedStays
<1>3. ASSUME NEW g \in Handlers \ {h}, pc'[g] = "replying"
      PROVE  /\ Now(event'[g], reply'[g])
             /\ message'[g].key = NoKey => reply'[g] \notin {"409", "conflict"}
  <2>1. /\ event'[g] = event[g] /\ reply'[g] = reply[g] /\ message'[g] = message[g]
        /\ pc[g] = "replying"
    BY <1>1, <1>3 DEF OthersStay
  <2>2. /\ Backed(event[g], reply[g])
        /\ message[g].key = NoKey => reply[g] \notin {"409", "conflict"}
    BY <1>1, <2>1 DEF Truthful
  <2> HIDE DEF Now
  <2> QED BY <1>2, <2>1, <2>2
<1>4. ASSUME pc'[h] = "replying"
      PROVE  /\ Now(event'[h], reply'[h])
             /\ message'[h].key = NoKey => reply'[h] \notin {"409", "conflict"}
  <2>1. CASE reply'[h] = "503"
    BY <2>1
  <2>2. CASE /\ pc[h] = "lookup" /\ Keeps(h) /\ StoreStays
             /\ \E r \in Matching(h) : r.digest # event[h].digest
             /\ event[h].source = API /\ reply'[h] = Refused(h)
    <3>1. event'[h] = event[h] /\ message'[h] = message[h] /\ rows' = rows /\ reply'[h] = "409"
      BY <2>2, ReplyWords DEF Keeps, StoreStays
    <3>2. PICK r \in Matching(h) : r.digest # event[h].digest
      BY <2>2
    <3>3. r \in rows /\ Collide(event[h], r)
      BY <2>2, ScopeIsConstraint DEF Matching
    <3>4. message[h].key # NoKey
      BY <1>1, <2>2 DEF Alone
    <3> QED BY <3>1, <3>2, <3>3, <3>4
  <2>3. CASE /\ Replied(h) /\ pc[h] = "ready" /\ reply'[h] = Accepted(h)
             /\ IF found[h] = None
                THEN rows' = rows \cup {event[h]} /\ audit' = Append(audit, Ingested(event[h]))
                ELSE StoreStays
    <3>1. event'[h] = event[h] /\ reply'[h] \in {"202", "accepted", "duplicate"}
      BY <2>3, ReplyWords DEF Replied, Keeps
    <3>2. Ok(event[h])
      BY <1>1, <2>3, CollideSelf DEF Matched, StoreStays
    <3> QED BY <3>1, <3>2
  <2>4. CASE /\ Replied(h) /\ pc[h] = "auditing" /\ reply'[h] = Refused(h)
             /\ rows' = rows /\ audit' = Append(audit, ConflictAudit(found[h], event[h].digest))
    <3>1. /\ event'[h] = event[h] /\ message'[h] = message[h]
          /\ reply'[h] \in {"409", "conflict"}
      BY <2>4, ReplyWords DEF Replied, Keeps
    <3>2. /\ found[h] \in rows /\ found[h] \in Rows /\ Collide(event[h], found[h])
          /\ found[h].digest # event[h].digest /\ event[h].digest \in Digests
          /\ message[h].key # NoKey
      BY <1>1, <2>4, RowFields DEF Named, Alone, Matched, TypeOK
    <3>3. ConflictAudit(found[h], event[h].digest) \in AuditRecords
      BY <3>2, RecordTypes
    <3>4. audit \in Seq(AuditRecords)
      BY <1>1 DEF TypeOK
    <3>5. \E k \in DOMAIN audit' : audit'[k] = ConflictAudit(found[h], event[h].digest)
      BY <2>4, <3>3, <3>4, AppendGrows
    <3> QED BY <2>4, <3>1, <3>2, <3>5
  <2> HIDE DEF Now
  <2> QED
    BY <1>1, <1>4, <2>1, <2>2, <2>3, <2>4, Effects DEF Received, Moved
<1>5. ASSUME NEW m \in Messages
      PROVE  /\ m.key # NoKey => Now(m, answer'[m])
             /\ m.key = NoKey =>
                  /\ answer'[m] \in {"202", "accepted", "duplicate"} =>
                       \E r \in rows' : r.digest = m.digest
                  /\ answer'[m] \notin {"409", "conflict"}
  <2>1. CASE answer'[m] = answer[m]
    <3>1. rows \subseteq rows'
      BY <1>1 DEF Grows
    <3>2. /\ m.key # NoKey => Backed(m, answer[m])
          /\ m.key = NoKey =>
               /\ answer[m] \in {"202", "accepted", "duplicate"} =>
                    \E r \in rows : r.digest = m.digest
               /\ answer[m] \notin {"409", "conflict"}
      BY <1>1 DEF Truthful
    <3> HIDE DEF Now
    <3> QED BY <1>2, <2>1, <3>1, <3>2
  <2>2. CASE answer'[m] # answer[m]
    <3>1. m = message[h] /\ answer'[m] = reply[h] /\ pc[h] = "replying"
      BY <1>1, <2>2, Effects DEF Received, Moved, Replied
    <3>2. /\ Backed(event[h], reply[h])
          /\ m.key = NoKey => reply[h] \notin {"409", "conflict"}
          /\ m.key # NoKey => event[h] = m
          /\ event[h].digest = m.digest
      BY <1>1, <3>1 DEF Truthful, Named
    <3>3. Now(event[h], reply[h])
      BY <1>2, <3>2
    <3>4. CASE m.key # NoKey
      BY <3>1, <3>2, <3>3, <3>4
    <3>5. CASE m.key = NoKey
      BY <3>1, <3>2, <3>3, <3>5
    <3> QED BY <3>4, <3>5
  <2> QED BY <2>1, <2>2
<1> QED BY <1>3, <1>4, <1>5 DEF Truthful, Backed, BackedOk, BackedConflict, BackedAudit

\* Only the commit of a webhook's own row makes its handler say accepted.
LEMMA Tells ==
  ASSUME TypeOK, NEW h \in Handlers, Step(h)
  PROVE  \/ /\ Inserted(h) /\ event[h].source # API /\ pc[h] # "idle"
            /\ event'[h] = event[h] /\ answer' = answer
         \/ ~Accepting(h)' /\ answer' = answer
         \/ /\ ~Accepting(h)' /\ pc[h] = "replying"
            /\ answer' = [answer EXCEPT ![message[h]] = reply[h]]
<1>1. Refused(h) # "accepted"
  BY ReplyWords
<1>2. CASE Replied(h) /\ pc[h] = "ready" /\ reply'[h] \in {Accepted(h), "503"}
  <2>1. event'[h] = event[h] /\ answer' = answer
    BY <1>2 DEF Replied, Keeps
  <2>2. reply'[h] = "accepted" => event[h].source # API /\ found[h] = None
    BY <1>2 DEF Accepted
  <2>3. ~(reply'[h] = "accepted") => ~Accepting(h)'
    BY DEF Accepting
  <2> QED BY <1>2, <2>1, <2>2, <2>3 DEF Inserted
<1>3. CASE /\ pc[h] = "replying" /\ pc'[h] = "idle"
           /\ answer' = [answer EXCEPT ![message[h]] = reply[h]]
  BY <1>3 DEF Accepting
<1>4. CASE answer' = answer /\ (pc'[h] # "replying" \/ reply'[h] \in {Refused(h), "503"})
  BY <1>1, <1>4 DEF Accepting
<1> QED BY <1>2, <1>3, <1>4, Effects DEF Received, Moved, Replied

\* An event that is to be committed has been accepted of nobody, as its name
\* is not stored yet.
LEMMA NobodyTold ==
  ASSUME Inv, NEW h \in Handlers, Inserted(h)
  PROVE  /\ \A g \in Handlers : Accepting(g) => ~Collide(event[h], event[g])
         /\ \A m \in Messages : answer[m] = "accepted" => ~Collide(event[h], m)
<1>1. \A r \in rows : ~Collide(event[h], r)
  BY DEF Inv, Apart
<1>2. \A e : Backed(e, "accepted") => ~Collide(event[h], e)
  BY <1>1, CollideTransitive DEF Backed, BackedOk
<1>3. \A g \in Handlers : Accepting(g) => Backed(event[g], "accepted")
  BY DEF Inv, Truthful, Accepting
<1>4. \A m \in Messages : answer[m] = "accepted" => Backed(m, "accepted")
  BY KeyAssumption DEF Inv, Truthful, Sourced, API, WEBHOOK
<1> QED BY <1>2, <1>3, <1>4

LEMMA AcceptedStep ==
  ASSUME Inv, NEW h \in Handlers, Step(h)
  PROVE  Sourced' /\ AcceptedOnce'
<1>1. TypeOK /\ Named /\ Sourced /\ AcceptedOnce /\ OthersStay(h)
      /\ answer \in [Messages -> Replies \cup {None}]
  BY GrowsStep DEF Inv, TypeOK
<1>2. \A g \in Handlers \ {h} :
        (Accepting(g)' <=> Accepting(g)) /\ event'[g] = event[g]
  BY <1>1 DEF OthersStay, Accepting
<1>3. CASE /\ Inserted(h) /\ event[h].source # API /\ pc[h] # "idle"
           /\ event'[h] = event[h] /\ answer' = answer
  <2>1. event[h].source = WEBHOOK
    BY <1>1, <1>3, RowFields DEF Named
  <2>2. /\ \A g \in Handlers : Accepting(g) => ~Collide(event[h], event[g])
        /\ \A m \in Messages : answer[m] = "accepted" => ~Collide(event[h], m)
    BY <1>3, NobodyTold
  <2>3. Sourced'
    BY <1>1, <1>2, <1>3, <2>1 DEF Sourced
  <2>4. ASSUME NEW f \in Handlers, NEW g \in Handlers, Accepting(f)', Accepting(g)',
               Collide(event'[f], event'[g])
        PROVE  f = g
    BY <1>1, <1>2, <1>3, <2>2, <2>4, CollideSymmetric DEF AcceptedOnce
  <2>5. ASSUME NEW g \in Handlers, NEW m \in Messages, Accepting(g)', answer'[m] = "accepted"
        PROVE  ~Collide(event'[g], m)
    BY <1>1, <1>2, <1>3, <2>2, <2>5 DEF AcceptedOnce
  <2>6. \A m, n \in Messages :
          answer'[m] = "accepted" /\ answer'[n] = "accepted" /\ Collide(m, n) => m = n
    BY <1>1, <1>3 DEF AcceptedOnce
  <2>7. AcceptedOnce' <=>
          /\ \A f, g \in Handlers :
               Accepting(f)' /\ Accepting(g)' /\ Collide(event'[f], event'[g]) => f = g
          /\ \A m, n \in Messages :
               answer'[m] = "accepted" /\ answer'[n] = "accepted" /\ Collide(m, n) => m = n
          /\ \A g \in Handlers, m \in Messages :
               Accepting(g)' /\ answer'[m] = "accepted" => ~Collide(event'[g], m)
    BY DEF AcceptedOnce, Collide
  <2> QED BY <2>3, <2>4, <2>5, <2>6, <2>7
<1>4. CASE ~Accepting(h)' /\ answer' = answer
  <2>1. Sourced'
    BY <1>1, <1>2, <1>4 DEF Sourced
  <2>2. AcceptedOnce'
    BY <1>1, <1>2, <1>4 DEF AcceptedOnce, Collide
  <2> QED BY <2>1, <2>2
<1>5. CASE /\ ~Accepting(h)' /\ pc[h] = "replying"
           /\ answer' = [answer EXCEPT ![message[h]] = reply[h]]
  <2>1. /\ message[h] \in Messages /\ event[h].source = message[h].source
        /\ message[h].key # NoKey => event[h] = message[h]
    BY <1>1, <1>5 DEF Named
  <2>2. ASSUME reply[h] = "accepted"
        PROVE  Accepting(h) /\ event[h] = message[h] /\ message[h].source = WEBHOOK
    <3>1. Accepting(h) /\ event[h].source = WEBHOOK
      BY <1>1, <1>5, <2>2 DEF Accepting, Sourced
    <3> QED BY <2>1, <3>1, KeyAssumption DEF API, WEBHOOK
  <2>3. \A m \in Messages :
          answer'[m] = "accepted" =>
            answer[m] = "accepted" \/ (m = message[h] /\ reply[h] = "accepted")
    BY <1>1, <1>5
  <2>4. Sourced'
    BY <1>1, <1>2, <1>5, <2>2, <2>3 DEF Sourced
  <2>5. AcceptedOnce'
    BY <1>1, <1>2, <1>5, <2>2, <2>3 DEF AcceptedOnce, Collide
  <2> QED BY <2>4, <2>5
<1> QED BY <1>1, <1>3, <1>4, <1>5, Tells

LEMMA Initially == Init => Inv
<1> SUFFICES ASSUME Init PROVE Inv
  OBVIOUS
<1>1. TypeOK
  <2>1. 0 \in 0..MaxFresh /\ 0 \in 0..MaxFaults /\ audit \in Seq(AuditRecords)
    BY BoundAssumption DEF Init
  <2> QED BY <2>1 DEF Init, TypeOK
<1>2. Named /\ KeysGenerated /\ Alone /\ Apart /\ Matched
  BY DEF Init, Named, KeysGenerated, Alone, Apart, Matched, Inserted
<1>3. Recorded
  BY DEF Init, Recorded
<1>4. \A m \in Messages : answer[m] \notin {"202", "accepted", "duplicate", "409", "conflict"}
  BY NoneAssumption DEF Init, Replies, Definitive
<1>5. Truthful
  BY <1>4 DEF Init, Truthful, Backed
<1>6. Sourced /\ AcceptedOnce
  BY <1>4 DEF Init, Sourced, AcceptedOnce, Accepting
<1> QED BY <1>1, <1>2, <1>3, <1>5, <1>6 DEF Inv

LEMMA Stutters == Inv /\ UNCHANGED vars => Inv'
BY DEF Inv, vars, TypeOK, Named, KeysGenerated, Alone, Apart, Inserted, Matched, Recorded,
   Truthful, Backed, BackedOk, BackedConflict, BackedAudit, Sourced, AcceptedOnce, Accepting

LEMMA Steps == Next <=> \E h \in Handlers : Step(h)
BY DEF Next, Step

-----------------------------------------------------------------------------
(***************************************************************************)
(* Theorems                                                                *)
(***************************************************************************)
\* The inductive invariant: uncommitted rows collide neither with each other
\* nor with committed ones (add_if_absent and the unique constraints), what a
\* handler found is stored for good, generated keys are nobody else's, and
\* every response to come or seen has its grounds in the database.
THEOREM Invariance == Spec => []Inv
<1>1. Inv /\ [Next]_vars => Inv'
  <2> SUFFICES ASSUME Inv, [Next]_vars PROVE Inv'
    OBVIOUS
  <2>1. ASSUME NEW h \in Handlers, Step(h) PROVE Inv'
    <3>1. TypeOK'
      BY <2>1, TypesStep DEF Inv
    <3>2. Named' /\ KeysGenerated' /\ Alone' /\ Apart' /\ Matched' /\ Recorded' /\ Truthful'
      BY <2>1, NamedStep, KeysGeneratedStep, AloneStep, ApartStep, MatchedStep, RecordedStep,
         TruthfulStep
    <3> QED BY <2>1, <3>1, <3>2, AcceptedStep DEF Inv
  <2> QED BY <2>1, Stutters, Steps
<1> QED BY Initially, <1>1, PTL DEF Spec

\* Every variable has its type.
THEOREM TypeCorrect == Spec => []TypeOK
<1>1. Inv => TypeOK
  BY DEF Inv
<1> QED BY <1>1, Invariance, PTL

\* The select of add_if_absent finds exactly one row, whatever races it: the
\* row its insert collided with is stored for good, and no other has its name.
THEOREM LookupFinds == Spec => []LookupFindsOne
<1>1. Inv => LookupFindsOne
  <2> SUFFICES ASSUME Inv, NEW h \in Handlers, pc[h] = "lookup"
               PROVE  Cardinality(Matching(h)) = 1
    BY DEF LookupFindsOne
  <2>1. event[h].source \in {API, WEBHOOK}
    BY RowFields DEF Inv, Named
  <2>2. PICK r \in rows : Collide(event[h], r)
    BY DEF Inv, Matched
  <2>3. \A s \in rows : Collide(event[h], s) => s = r
    BY <2>2, CollideSymmetric, CollideTransitive DEF Inv, Apart
  <2>4. Matching(h) = {r}
    BY <2>1, <2>2, <2>3, ScopeIsConstraint DEF Matching
  <2> QED BY <2>4, FS_Singleton
<1> QED BY <1>1, Invariance, PTL

\* The number of a record's occurrences.
LEMMA OnceIsOne ==
  ASSUME NEW a, NEW k \in DOMAIN audit, audit[k] = a,
         \A j \in DOMAIN audit : audit[j] = a => j = k
  PROVE  Times(a) = 1
<1>1. {i \in DOMAIN audit : audit[i] = a} = {k}
  OBVIOUS
<1> QED BY <1>1, FS_Singleton DEF Times

LEMMA SomeIsPositive ==
  ASSUME audit \in Seq(AuditRecords), NEW a, NEW k \in DOMAIN audit, audit[k] = a
  PROVE  Times(a) > 0
<1> DEFINE places == {i \in DOMAIN audit : audit[i] = a}
<1>1. Len(audit) \in Nat /\ places \in SUBSET (1..Len(audit)) /\ k \in places
  OBVIOUS
<1>2. IsFiniteSet(1..Len(audit))
  BY <1>1, FS_Interval
<1>3. IsFiniteSet(places)
  BY <1>1, <1>2, FS_Subset
<1>4. Cardinality(places) \in Nat /\ Cardinality(places) # 0
  BY <1>1, <1>3, FS_CardinalityType, FS_EmptySet
<1>5. Times(a) = Cardinality(places)
  BY DEF Times
<1> QED BY <1>4, <1>5

\* Every stored event has exactly one ingestion record, written with it, and
\* conflict records come after it and are about another payload.
THEOREM RecordsExplain == Spec => []AuditExplains
<1>1. Inv => AuditExplains
  <2> SUFFICES ASSUME Inv PROVE AuditExplains
    OBVIOUS
  <2>1. ASSUME NEW r \in rows PROVE Times(Ingested(r)) = 1
    BY OnceIsOne DEF Inv, Recorded
  <2> QED BY <2>1 DEF Inv, Recorded, AuditExplains
<1> QED BY <1>1, Invariance, PTL

\* What a sender was told is true for good, although commits may be ambiguous
\* and responses get lost; one delivery of a webhook's event is told accepted,
\* and a conflict is audited before it is acknowledged.
THEOREM AnswersTrue == Spec => []AnswersBacked
<1>1. Inv => AnswersBacked
  <2> SUFFICES ASSUME Inv, NEW m \in Messages
               PROVE  /\ answer[m] \in {"202", "accepted", "duplicate"} =>
                           \E r \in Stored(m) : Times(Ingested(r)) = 1
                      /\ answer[m] \in {"409", "conflict"} =>
                           \E r \in rows : Collide(m, r) /\ r.digest # m.digest
                      /\ answer[m] = "conflict" =>
                           \E r \in rows : Collide(m, r) /\ Times(ConflictAudit(r, m.digest)) > 0
    BY DEF AnswersBacked, Inv
  <2>1. \A r \in rows : Times(Ingested(r)) = 1
    BY OnceIsOne DEF Inv, Recorded
  <2>2. /\ m.key # NoKey => Backed(m, answer[m])
        /\ m.key = NoKey =>
             /\ answer[m] \in {"202", "accepted", "duplicate"} =>
                  \E r \in rows : r.digest = m.digest
             /\ answer[m] \notin {"409", "conflict"}
    BY DEF Inv, Truthful
  <2>3. answer[m] \in {"202", "accepted", "duplicate"} =>
          \E r \in Stored(m) : Times(Ingested(r)) = 1
    BY <2>1, <2>2 DEF Backed, BackedOk, Stored
  <2>4. answer[m] \in {"409", "conflict"} => \E r \in rows : Collide(m, r) /\ r.digest # m.digest
    BY <2>2 DEF Backed, BackedConflict
  <2>5. ASSUME answer[m] = "conflict"
        PROVE  \E r \in rows : Collide(m, r) /\ Times(ConflictAudit(r, m.digest)) > 0
    <3>1. PICK r \in rows : Collide(m, r)
            /\ \E k \in DOMAIN audit : audit[k] = ConflictAudit(r, m.digest)
      BY <2>2, <2>5 DEF Backed, BackedAudit
    <3>2. audit \in Seq(AuditRecords)
      BY DEF Inv, TypeOK
    <3> QED BY <3>1, <3>2, SomeIsPositive
  <2> QED BY <2>3, <2>4, <2>5
<1> QED BY <1>1, Invariance, PTL

-----------------------------------------------------------------------------
(* The abstract store                                                      *)

\* The store's copy of the names and records is the handlers'.
LEMMA SameNames ==
  \A e, f, d : /\ Store!Collide(e, f) <=> Collide(e, f)
               /\ Store!Ingested(e) = Ingested(e)
               /\ Store!ConflictAudit(e, d) = ConflictAudit(e, d)
BY DEF Store!Collide, Store!WEBHOOK, Store!Ingested, Store!ConflictAudit,
   Collide, WEBHOOK, Ingested, ConflictAudit

\* The handlers together behave like the store: the commit of an event is one
\* step of it, the commit of a conflict record another, the rest a stutter.
THEOREM Implementation == Spec => ImplementsStore
<1>1. Init => Store!StoreInit
  BY DEF Init, Store!StoreInit
<1>2. Inv /\ [Next]_vars => [Store!StoreNext]_(Store!storeVars)
  <2> SUFFICES ASSUME Inv, [Next]_vars PROVE [Store!StoreNext]_(Store!storeVars)
    OBVIOUS
  <2>1. ASSUME NEW h \in Handlers, Step(h), Commits(h) PROVE Store!StoreNext
    <3>1. event[h] \in Rows
      BY <2>1 DEF Inv, Commits, Named
    <3>2. \A f \in rows : ~Store!Collide(event[h], f)
      BY <2>1, SameNames DEF Inv, Apart, Commits, Inserted
    <3>3. rows' = rows \cup {event[h]} /\ audit' = Append(audit, Store!Ingested(event[h]))
      BY <2>1, SameNames DEF Commits
    <3>4. Store!Store(event[h])
      BY <3>2, <3>3 DEF Store!Store
    <3> QED BY <3>1, <3>4 DEF Store!StoreNext
  <2>2. ASSUME NEW h \in Handlers, Step(h), Notes(h) PROVE Store!StoreNext
    <3>1. /\ event[h] \in Rows /\ found[h] \in rows /\ Collide(event[h], found[h])
          /\ found[h].digest # event[h].digest
      BY <2>2 DEF Inv, Notes, Named, Matched
    <3>2. /\ Store!Collide(event[h], found[h]) /\ rows' = rows
          /\ audit' = Append(audit, Store!ConflictAudit(found[h], event[h].digest))
      BY <2>2, <3>1, SameNames DEF Notes
    <3>3. Store!NoteConflict(event[h], found[h])
      BY <3>1, <3>2 DEF Store!NoteConflict
    <3> QED BY <3>1, <3>3 DEF Store!StoreNext
  <2>3. ASSUME NEW h \in Handlers, Step(h) PROVE [Store!StoreNext]_(Store!storeVars)
    <3>1. TypeOK
      BY DEF Inv
    <3>2. StoreStays => UNCHANGED Store!storeVars
      BY DEF StoreStays, Store!storeVars
    <3> QED BY <2>1, <2>2, <2>3, <3>1, <3>2, StoreAfter
  <2>4. CASE UNCHANGED vars
    BY <2>4 DEF vars, Store!storeVars
  <2> QED BY <2>3, <2>4, Steps
<1> QED BY <1>1, <1>2, Invariance, PTL DEF Spec, ImplementsStore, Store!StoreSpec
=============================================================================
