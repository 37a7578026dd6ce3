------------------------------ MODULE OutboxRelay ------------------------------
(***************************************************************************)
(* The relay of the transactional outbox (internal/outbox): replicas poll  *)
(* the unprocessed rows FOR UPDATE SKIP LOCKED, produce them one by one,   *)
(* and mark the whole batch in the transaction that holds the locks.       *)
(***************************************************************************)
EXTENDS Naturals, FiniteSets

CONSTANTS
  Relays,          \* replicas of the service
  LastRow,         \* number of rows ever written
  Batch,           \* the limit of the query
  Unframable,      \* rows whose topic has no schema in the registry
  MaxDisturbances  \* bound: crashes, errors and lost connections of a behaviour

ASSUME RelayAssumption ==
  /\ LastRow \in Nat /\ Batch \in Nat \ {0} /\ MaxDisturbances \in Nat
  /\ Unframable \subseteq 1..LastRow

VARIABLES
  outbox,       \* rows committed; ids are UUIDv7, so 1..LastRow is their order
  marked,       \* rows with processed_at
  published,    \* rows of which the broker has a copy
  todo, done,   \* of each relay: rows of its batch not yet produced, and produced
  locked,       \* of each relay: does Postgres still hold its row locks?
  duplicated,   \* history: rows of which the broker has several copies
  abandoned,    \* history: rows whose batch failed or lost its locks
  disturbances

relays    == <<todo, done, locked>>
history   == <<duplicated, abandoned>>
relayVars == <<outbox, marked, published, relays, history, disturbances>>

Rows == 1..LastRow

RelayTypeOK ==
  /\ outbox \subseteq Rows /\ marked \subseteq outbox /\ published \subseteq outbox
  /\ todo \in [Relays -> SUBSET Rows] /\ done \in [Relays -> SUBSET Rows]
  /\ \A r \in Relays : todo[r] \union done[r] \subseteq outbox
  /\ \A r \in Relays : todo[r] \intersect done[r] = {}
  /\ locked \in [Relays -> BOOLEAN]
  /\ duplicated \subseteq published /\ abandoned \subseteq outbox
  /\ disturbances \in 0..MaxDisturbances

RelayInit ==
  /\ outbox = {} /\ marked = {} /\ published = {}
  /\ todo = [r \in Relays |-> {}] /\ done = [r \in Relays |-> {}]
  /\ locked = [r \in Relays |-> FALSE]
  /\ duplicated = {} /\ abandoned = {}
  /\ disturbances = 0

InHand(r) == todo[r] \union done[r]

\* The transaction of relay r is over, and the rows of a rollback are due again.
EndTx(r, rollback) ==
  /\ todo' = [todo EXCEPT ![r] = {}]
  /\ done' = [done EXCEPT ![r] = {}]
  /\ locked' = [locked EXCEPT ![r] = FALSE]
  /\ abandoned' = IF rollback THEN abandoned \union InHand(r) ELSE abandoned

Disturb ==
  /\ disturbances < MaxDisturbances
  /\ disturbances' = disturbances + 1

-----------------------------------------------------------------------------

\* Ids are drawn before the commit, so rows need not appear in the order of ids.
Write(row) ==
  /\ row \notin outbox
  /\ outbox' = outbox \union {row}
  /\ UNCHANGED <<marked, published, relays, history, disturbances>>

\* order by id limit 50: what the first of these rows are.
FirstOf(rows) == {row \in rows : Cardinality({x \in rows : x <= row}) <= Batch}

LockedBy(r) == IF locked[r] THEN InHand(r) ELSE {}

\* A row is read before its transaction has committed.
LockReadsUncommitted(r) ==
  LET due == (Rows \ marked) \ UNION {LockedBy(x) : x \in Relays}
  IN
  /\ InHand(r) = {} /\ due # {}
  /\ todo' = [todo EXCEPT ![r] = FirstOf(due)]
  /\ locked' = [locked EXCEPT ![r] = TRUE]
  /\ UNCHANGED <<outbox, marked, published, done, history, disturbances>>

\* The query waits for no lock and skips none.
LockIgnoresLocks(r) ==
  /\ InHand(r) = {} /\ outbox \ marked # {}
  /\ todo' = [todo EXCEPT ![r] = FirstOf(outbox \ marked)]
  /\ locked' = [locked EXCEPT ![r] = TRUE]
  /\ UNCHANGED <<outbox, marked, published, done, history, disturbances>>

\* A cursor instead of the processed_at column: rows below the last marked one
\* are taken for processed.
LockAfterLast(r) ==
  LET due == {row \in outbox : \A x \in marked : x < row}
             \ UNION {LockedBy(x) : x \in Relays}
  IN
  /\ InHand(r) = {} /\ due # {}
  /\ todo' = [todo EXCEPT ![r] = FirstOf(due)]
  /\ locked' = [locked EXCEPT ![r] = TRUE]
  /\ UNCHANGED <<outbox, marked, published, done, history, disturbances>>

Lock(r) ==
  LET due == (outbox \ marked) \ UNION {LockedBy(x) : x \in Relays}
  IN
  /\ InHand(r) = {} /\ due # {}
  /\ todo' = [todo EXCEPT ![r] = FirstOf(due)]
  /\ locked' = [locked EXCEPT ![r] = TRUE]
  /\ UNCHANGED <<outbox, marked, published, done, history, disturbances>>

\* The batch is produced in the order it was read.
IsNext(r, row) == row \in todo[r] /\ \A x \in todo[r] : row <= x

Store(row) ==
  /\ published' = published \union {row}
  /\ duplicated' = IF row \in published THEN duplicated \union {row} ELSE duplicated

\* The broker acknowledges the record of the row.
Produce(r) ==
  \E row \in todo[r] \ Unframable :
    /\ IsNext(r, row)
    /\ Store(row)
    /\ todo' = [todo EXCEPT ![r] = @ \ {row}]
    /\ done' = [done EXCEPT ![r] = @ \union {row}]
    /\ UNCHANGED <<outbox, marked, locked, abandoned, disturbances>>

\* ProduceSync reports an error for a record the broker has stored all the same,
\* and the relay takes the error for a success or a failure of this row alone.
ProduceFailsGoesOn(r) ==
  /\ Disturb
  /\ \E row \in todo[r] \ Unframable :
       /\ IsNext(r, row)
       /\ todo' = [todo EXCEPT ![r] = @ \ {row}]
       /\ done' = [done EXCEPT ![r] = @ \union {row}]
  /\ UNCHANGED <<outbox, marked, published, locked, history>>

\* ProduceSync fails, whether or not the broker has stored the record.
ProduceFails(r) ==
  /\ Disturb
  /\ \E row \in todo[r] \ Unframable :
       /\ IsNext(r, row)
       /\ \/ Store(row)
          \/ UNCHANGED <<published, duplicated>>
  /\ EndTx(r, TRUE)
  /\ UNCHANGED <<outbox, marked>>

\* The registry has no schema for the topic: the whole batch is rolled back, on
\* every poll again.
NoSchema(r) ==
  /\ \E row \in todo[r] \intersect Unframable : IsNext(r, row)
  /\ EndTx(r, TRUE)
  /\ UNCHANGED <<outbox, marked, published, duplicated, disturbances>>

\* The update of processed_at and the commit, which need the transaction alive.
Mark(r) ==
  /\ todo[r] = {} /\ done[r] # {}
  /\ IF locked[r] THEN marked' = marked \union done[r] ELSE UNCHANGED marked
  /\ EndTx(r, ~locked[r])
  /\ UNCHANGED <<outbox, published, duplicated, disturbances>>

\* The relay dies, its registry does not answer, or its commit is refused.
Abort(r) ==
  /\ InHand(r) # {}
  /\ Disturb
  /\ EndTx(r, TRUE)
  /\ UNCHANGED <<outbox, marked, published, duplicated>>

\* Postgres ends the session of a relay that is waiting for the broker: the row
\* locks are gone and the relay goes on producing.
LoseConnection(r) ==
  /\ locked[r]
  /\ Disturb
  /\ locked' = [locked EXCEPT ![r] = FALSE]
  /\ abandoned' = abandoned \union InHand(r)
  /\ UNCHANGED <<outbox, marked, published, todo, done, duplicated>>

Drain(r) == Lock(r) \/ Produce(r) \/ NoSchema(r) \/ Mark(r)

RelayNext ==
  \/ \E row \in Rows : Write(row)
  \/ \E r \in Relays : Drain(r) \/ ProduceFails(r) \/ Abort(r) \/ LoseConnection(r)

RelaySpec == RelayInit /\ [][RelayNext]_relayVars

\* The ticker of Relay.Run fires for ever.
RelayFairness == \A r \in Relays : WF_relayVars(Drain(r))

-----------------------------------------------------------------------------
(* Properties *)

\* No event is lost: a row is marked only when the broker has it (drainOnce marks
\* the batch after the last record was acknowledged).
MarkedIsPublished == marked \subseteq published

\* Replica-safe: relays that poll side by side publish a row twice only after a
\* batch with it has failed or lost its locks (FOR UPDATE SKIP LOCKED).
DuplicatesNeedAFailure == duplicated \subseteq abandoned

\* At least once: a row is published in the end, unless a row with a smaller id
\* has no schema and takes its batch down with it.
EveryRowIsPublished ==
  \A row \in Rows :
    (row \in outbox /\ \A x \in Unframable : row < x) ~> row \in published
=============================================================================
