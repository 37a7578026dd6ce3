-------------------------- MODULE OutboxRelayProofs --------------------------
(***************************************************************************)
(* What the relays keep for any number of replicas and rows, any batch     *)
(* size, and any number of crashes, broker errors and lost connections.    *)
(***************************************************************************)
EXTENDS OutboxRelay, TLAPS

\* Two relays share no row while Postgres holds the locks of both.
LocksExclude ==
  \A r, x \in Relays :
    r # x /\ locked[r] /\ locked[x] => InHand(r) \intersect InHand(x) = {}

\* The rows of a relay are unmarked while it holds their locks; when it has lost
\* them, the transaction behind its batch has been rolled back.
BatchOK(r) ==
  /\ done[r] \subseteq published
  /\ locked[r] => InHand(r) \intersect marked = {}
  /\ ~locked[r] => InHand(r) \subseteq abandoned

\* A published row is marked, or its relay is about to mark it, or its batch has
\* failed.
PublishedAccounted ==
  \A row \in published :
    \/ row \in marked \/ row \in abandoned
    \/ \E r \in Relays : locked[r] /\ row \in done[r]

RelayInv ==
  /\ RelayTypeOK
  /\ MarkedIsPublished
  /\ DuplicatesNeedAFailure
  /\ LocksExclude
  /\ \A r \in Relays : BatchOK(r)
  /\ PublishedAccounted

USE DEF InHand, relays, history, Rows

-----------------------------------------------------------------------------

LEMMA RelayInvInit == RelayInit => RelayInv
BY RelayAssumption
   DEF RelayInit, RelayInv, RelayTypeOK, MarkedIsPublished, DuplicatesNeedAFailure,
       LocksExclude, BatchOK, PublishedAccounted

LEMMA RelayInvStutter == RelayInv /\ UNCHANGED relayVars => RelayInv'
BY DEF relayVars, RelayInv, RelayTypeOK, MarkedIsPublished, DuplicatesNeedAFailure,
       LocksExclude, BatchOK, PublishedAccounted

LEMMA RelayInvWrite ==
  ASSUME RelayInv, NEW row \in Rows, Write(row)
  PROVE  RelayInv'
BY DEF Write, RelayInv, RelayTypeOK, MarkedIsPublished, DuplicatesNeedAFailure,
       LocksExclude, BatchOK, PublishedAccounted

\* FOR UPDATE SKIP LOCKED: a batch is of rows that are unmarked and that no other
\* relay has locked.
LEMMA RelayInvLock ==
  ASSUME RelayInv, NEW r \in Relays, Lock(r)
  PROVE  RelayInv'
<1>. DEFINE due == (outbox \ marked) \ UNION {LockedBy(x) : x \in Relays}
<1>1. /\ todo' = [todo EXCEPT ![r] = FirstOf(due)]
      /\ locked' = [locked EXCEPT ![r] = TRUE]
      /\ InHand(r) = {}
      /\ UNCHANGED <<outbox, marked, published, done, duplicated, abandoned, disturbances>>
  BY DEF Lock
<1>2. FirstOf(due) \subseteq due
  BY DEF FirstOf
<1>3. \A x \in Relays : locked[x] => FirstOf(due) \intersect InHand(x) = {}
  BY <1>2 DEF LockedBy
<1>4. /\ FirstOf(due) \subseteq outbox
      /\ FirstOf(due) \intersect marked = {}
  BY <1>2
<1>. HIDE DEF due
<1>5. RelayTypeOK'
  BY <1>1, <1>4 DEF RelayInv, RelayTypeOK
<1>6. LocksExclude'
  BY <1>1, <1>3 DEF RelayInv, RelayTypeOK, LocksExclude
<1>7. \A x \in Relays : BatchOK(x)'
  BY <1>1, <1>4 DEF RelayInv, RelayTypeOK, BatchOK
<1>8. PublishedAccounted'
  BY <1>1 DEF RelayInv, RelayTypeOK, PublishedAccounted
<1>. QED
  BY <1>1, <1>5, <1>6, <1>7, <1>8
     DEF RelayInv, MarkedIsPublished, DuplicatesNeedAFailure

\* A row in hand that is published already comes from a batch that failed.
LEMMA AgainOnlyAfterFailure ==
  ASSUME RelayInv, NEW r \in Relays, NEW row \in todo[r], row \in published
  PROVE  row \in abandoned
<1>1. CASE locked[r]
  <2>1. row \notin marked
    BY <1>1 DEF RelayInv, BatchOK
  <2>2. ASSUME NEW x \in Relays, locked[x], row \in done[x]
        PROVE  FALSE
    BY <1>1, <2>2 DEF RelayInv, RelayTypeOK, LocksExclude
  <2>. QED
    BY <2>1, <2>2 DEF RelayInv, PublishedAccounted
<1>2. CASE ~locked[r]
  BY <1>2 DEF RelayInv, BatchOK
<1>. QED
  BY <1>1, <1>2

LEMMA RelayInvProduce ==
  ASSUME RelayInv, NEW r \in Relays, Produce(r)
  PROVE  RelayInv'
<1>1. PICK row \in todo[r] :
        /\ published' = published \union {row}
        /\ duplicated' = IF row \in published THEN duplicated \union {row} ELSE duplicated
        /\ todo' = [todo EXCEPT ![r] = @ \ {row}]
        /\ done' = [done EXCEPT ![r] = @ \union {row}]
        /\ UNCHANGED <<outbox, marked, locked, abandoned, disturbances>>
  BY DEF Produce, Store
<1>2. /\ row \in outbox
      /\ row \in published => row \in abandoned
  BY AgainOnlyAfterFailure DEF RelayInv, RelayTypeOK
<1>3. RelayTypeOK'
  BY <1>1, <1>2 DEF RelayInv, RelayTypeOK
<1>4. \A x \in Relays : InHand(x)' = InHand(x)
  BY <1>1 DEF RelayInv, RelayTypeOK
<1>5. LocksExclude'
  BY <1>1, <1>4 DEF RelayInv, LocksExclude
<1>6. ASSUME NEW x \in Relays
      PROVE  BatchOK(x)'
  BY <1>1, <1>4 DEF RelayInv, RelayTypeOK, BatchOK
<1>7. PublishedAccounted'
  <2>1. ASSUME NEW other \in published
        PROVE  \/ other \in marked \union abandoned
               \/ \E x \in Relays : locked[x] /\ other \in done'[x]
    BY <1>1 DEF RelayInv, RelayTypeOK, PublishedAccounted
  <2>2. row \in abandoned \/ (locked[r] /\ row \in done'[r])
    BY <1>1 DEF RelayInv, RelayTypeOK, BatchOK
  <2>. QED
    BY <1>1, <2>1, <2>2 DEF PublishedAccounted
<1>8. MarkedIsPublished' /\ DuplicatesNeedAFailure'
  BY <1>1, <1>2 DEF RelayInv, MarkedIsPublished, DuplicatesNeedAFailure
<1>. QED
  BY <1>3, <1>5, <1>6, <1>7, <1>8 DEF RelayInv

\* A batch that ends without its marks: its rows are due again.
LEMMA RelayInvRollback ==
  ASSUME RelayInv, NEW r \in Relays, EndTx(r, TRUE),
         UNCHANGED <<outbox, marked>>,
         disturbances' \in 0..MaxDisturbances,
         NEW stored \in SUBSET todo[r],
         published' = published \union stored,
         duplicated' = duplicated \union (stored \intersect published)
  PROVE  RelayInv'
<1>1. /\ todo' = [todo EXCEPT ![r] = {}]
      /\ done' = [done EXCEPT ![r] = {}]
      /\ locked' = [locked EXCEPT ![r] = FALSE]
      /\ abandoned' = abandoned \union InHand(r)
  BY DEF EndTx
<1>2. stored \intersect published \subseteq abandoned
  BY AgainOnlyAfterFailure
<1>3. RelayTypeOK'
  BY <1>1 DEF RelayInv, RelayTypeOK
<1>4. LocksExclude'
  BY <1>1 DEF RelayInv, RelayTypeOK, LocksExclude
<1>5. ASSUME NEW x \in Relays
      PROVE  BatchOK(x)'
  BY <1>1 DEF RelayInv, RelayTypeOK, BatchOK
<1>6. PublishedAccounted'
  BY <1>1 DEF RelayInv, RelayTypeOK, PublishedAccounted
<1>7. MarkedIsPublished' /\ DuplicatesNeedAFailure'
  BY <1>1, <1>2 DEF RelayInv, MarkedIsPublished, DuplicatesNeedAFailure
<1>. QED
  BY <1>3, <1>4, <1>5, <1>6, <1>7 DEF RelayInv

LEMMA RelayInvProduceFails ==
  ASSUME RelayInv, NEW r \in Relays, ProduceFails(r)
  PROVE  RelayInv'
<1>1. disturbances' \in 0..MaxDisturbances
  BY RelayAssumption DEF ProduceFails, Disturb, RelayInv, RelayTypeOK
<1>2. PICK stored \in SUBSET todo[r] :
        /\ published' = published \union stored
        /\ duplicated' = duplicated \union (stored \intersect published)
  <2>1. PICK row \in todo[r] : Store(row) \/ UNCHANGED <<published, duplicated>>
    BY DEF ProduceFails
  <2>2. CASE Store(row)
    <3>. WITNESS {row} \in SUBSET todo[r]
    <3>. QED
      BY <2>2 DEF Store
  <2>3. CASE UNCHANGED <<published, duplicated>>
    <3>. WITNESS {} \in SUBSET todo[r]
    <3>. QED
      BY <2>3
  <2>. QED
    BY <2>1, <2>2, <2>3
<1>. QED
  BY <1>1, <1>2, RelayInvRollback DEF ProduceFails

LEMMA RelayInvNoSchema ==
  ASSUME RelayInv, NEW r \in Relays, NoSchema(r)
  PROVE  RelayInv'
<1>1. disturbances' \in 0..MaxDisturbances
  BY DEF NoSchema, RelayInv, RelayTypeOK
<1>. QED
  BY <1>1, RelayInvRollback, {} \in SUBSET todo[r] DEF NoSchema

LEMMA RelayInvAbort ==
  ASSUME RelayInv, NEW r \in Relays, Abort(r)
  PROVE  RelayInv'
<1>1. disturbances' \in 0..MaxDisturbances
  BY RelayAssumption DEF Abort, Disturb, RelayInv, RelayTypeOK
<1>. QED
  BY <1>1, RelayInvRollback, {} \in SUBSET todo[r] DEF Abort

LEMMA RelayInvMark ==
  ASSUME RelayInv, NEW r \in Relays, Mark(r)
  PROVE  RelayInv'
<1>1. CASE ~locked[r]
  BY <1>1, RelayInvRollback, {} \in SUBSET todo[r] DEF Mark, RelayInv, RelayTypeOK
<1>2. CASE locked[r]
  <2>1. /\ marked' = marked \union done[r]
        /\ todo' = [todo EXCEPT ![r] = {}]
        /\ done' = [done EXCEPT ![r] = {}]
        /\ locked' = [locked EXCEPT ![r] = FALSE]
        /\ UNCHANGED <<outbox, published, duplicated, abandoned, disturbances>>
    BY <1>2 DEF Mark, EndTx, RelayInv, RelayTypeOK
  <2>2. RelayTypeOK'
    BY <2>1 DEF RelayInv, RelayTypeOK
  <2>3. LocksExclude'
    BY <2>1 DEF RelayInv, RelayTypeOK, LocksExclude
  <2>4. ASSUME NEW x \in Relays
        PROVE  BatchOK(x)'
    <3>1. CASE x = r
      BY <2>1, <3>1 DEF RelayInv, RelayTypeOK, BatchOK
    <3>2. CASE x # r
      BY <1>2, <2>1, <3>2 DEF RelayInv, RelayTypeOK, BatchOK, LocksExclude
    <3>. QED
      BY <3>1, <3>2
  <2>5. PublishedAccounted'
    BY <2>1 DEF RelayInv, RelayTypeOK, PublishedAccounted
  <2>6. MarkedIsPublished' /\ DuplicatesNeedAFailure'
    BY <2>1 DEF RelayInv, BatchOK, MarkedIsPublished, DuplicatesNeedAFailure
  <2>. QED
    BY <2>2, <2>3, <2>4, <2>5, <2>6 DEF RelayInv
<1>. QED
  BY <1>1, <1>2 DEF RelayInv, RelayTypeOK

LEMMA RelayInvLoseConnection ==
  ASSUME RelayInv, NEW r \in Relays, LoseConnection(r)
  PROVE  RelayInv'
<1>1. /\ locked' = [locked EXCEPT ![r] = FALSE]
      /\ abandoned' = abandoned \union InHand(r)
      /\ disturbances' \in 0..MaxDisturbances
      /\ UNCHANGED <<outbox, marked, published, todo, done, duplicated>>
  BY RelayAssumption DEF LoseConnection, Disturb, RelayInv, RelayTypeOK
<1>2. RelayTypeOK'
  BY <1>1 DEF RelayInv, RelayTypeOK
<1>3. LocksExclude'
  BY <1>1 DEF RelayInv, RelayTypeOK, LocksExclude
<1>4. ASSUME NEW x \in Relays
      PROVE  BatchOK(x)'
  BY <1>1 DEF RelayInv, RelayTypeOK, BatchOK
<1>5. PublishedAccounted'
  BY <1>1 DEF RelayInv, RelayTypeOK, PublishedAccounted
<1>. QED
  BY <1>1, <1>2, <1>3, <1>4, <1>5
     DEF RelayInv, MarkedIsPublished, DuplicatesNeedAFailure

-----------------------------------------------------------------------------

LEMMA RelayInvNext == RelayInv /\ [RelayNext]_relayVars => RelayInv'
<1>. SUFFICES ASSUME RelayInv, [RelayNext]_relayVars PROVE RelayInv'
  OBVIOUS
<1>1. CASE UNCHANGED relayVars
  BY <1>1, RelayInvStutter
<1>2. CASE RelayNext
  BY <1>2, RelayInvWrite, RelayInvLock, RelayInvProduce, RelayInvProduceFails,
     RelayInvNoSchema, RelayInvMark, RelayInvAbort, RelayInvLoseConnection
     DEF RelayNext, Drain
<1>. QED
  BY <1>1, <1>2

\* The relays' locks, batches and marks fit together in every reachable state
\* (drainOnce).
THEOREM RelayInvariance == RelaySpec => []RelayInv
BY RelayInvInit, RelayInvNext, PTL DEF RelaySpec

\* Batches are of committed rows, and no row is in hand twice (drainOnce reads
\* committed rows only).
THEOREM RelayTypes == RelaySpec => []RelayTypeOK
BY RelayInvariance, PTL DEF RelayInv

\* No event is lost by the relays: what is marked was acknowledged by the broker
\* (the batch is marked after its last record).
THEOREM NoEventIsLost == RelaySpec => []MarkedIsPublished
BY RelayInvariance, PTL DEF RelayInv

\* Relays side by side publish nothing twice unless a batch has failed (FOR UPDATE
\* SKIP LOCKED in the transaction that marks).
THEOREM ReplicasDoNotDuplicate == RelaySpec => []DuplicatesNeedAFailure
BY RelayInvariance, PTL DEF RelayInv
=============================================================================
