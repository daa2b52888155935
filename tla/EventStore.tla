----------------------------- MODULE EventStore -----------------------------
(***************************************************************************)
(* What ingestion promises, without transactions, handlers or failures: an *)
(* event is stored once, for good, and together with its audit record; a   *)
(* different payload under a name already taken changes nothing and can    *)
(* only leave a conflict record that names the stored event.               *)
(***************************************************************************)
EXTENDS EventIdentity, Sequences

CONSTANT Events      \* the events that may arrive

VARIABLES
  events,            \* stored events
  trail              \* audit records in the order they were stored

storeVars == <<events, trail>>

StoreInit == events = {} /\ trail = <<>>

Store(e) ==
  /\ \A f \in events : ~Collide(e, f)
  /\ events' = events \cup {e}
  /\ trail' = Append(trail, Ingested(e))

NoteConflict(e, f) ==
  /\ Collide(e, f)
  /\ e.digest # f.digest
  /\ trail' = Append(trail, ConflictAudit(f, e.digest))
  /\ UNCHANGED events

StoreNext == \E e \in Events : Store(e) \/ \E f \in events : NoteConflict(e, f)

StoreSpec == StoreInit /\ [][StoreNext]_storeVars
=============================================================================
