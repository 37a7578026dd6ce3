--------------------------- MODULE IdempotentCreate ---------------------------
(***************************************************************************)
(* POST /payments under an Idempotency-Key (httpapi.createPayment with     *)
(* internal/idempotency): a request claims its key, executes or replays,   *)
(* and stores the response for later replays.                              *)
(*                                                                         *)
(* A step is one statement against Postgres.  Begin is three of them, so   *)
(* requests with one key interleave between the insert, the read and the   *)
(* take-over of an expired lease.                                          *)
(***************************************************************************)
EXTENDS Naturals, FiniteSets

CONSTANTS
  Requests,  \* HTTP requests; a payment is named by the request that made it
  Keys,      \* idempotency keys of one user
  Bodies,    \* hashes of request bodies
  Faults     \* {"abandon"}: the client leaves or the process dies; {"db"}:
             \* statements fail; {"slow"}: a request may outlast its lease

ASSUME CreateAssumption ==
  Requests \cap {"none", "rejected", "conflict", "mismatch", "failed"} = {}

VARIABLES
  record,    \* idempotency_keys: at most one row per key
  made,      \* payments made under each key since the key was last claimed afresh
  pc,        \* where each request is
  req,       \* key and body of each request that arrived
  result,    \* what executeCreate returned
  reply      \* what the client was told

vars == <<record, made, pc, req, result, reply>>

NoResponse == "none"

\* A stored response: 202 for the payment it names, or an error code.
Results == Requests \union {"rejected"}

Records == [body : Bodies, response : Results \union {NoResponse},
            lock : {"live", "expired", "null"}]

NoRecord == [body |-> "none", response |-> NoResponse, lock |-> "null"]

TypeOK ==
  /\ record \in [Keys -> Records \union {NoRecord}]
  /\ made \in [Keys -> SUBSET Requests]
  /\ pc \in [Requests -> {"absent", "claim", "read", "takeover", "execute",
                          "complete", "gone"}]
  /\ req \in [Requests -> [key : Keys, body : Bodies] \union {NoRecord}]
  /\ result \in [Requests -> Results \union {NoResponse}]
  /\ reply \in [Requests -> Results \union {"none", "conflict", "mismatch", "failed"}]

Init ==
  /\ record = [k \in Keys |-> NoRecord]
  /\ made = [k \in Keys |-> {}]
  /\ pc = [r \in Requests |-> "absent"]
  /\ req = [r \in Requests |-> NoRecord]
  /\ result = [r \in Requests |-> NoResponse]
  /\ reply = [r \in Requests |-> "none"]

Goto(r, label) == pc' = [pc EXCEPT ![r] = label]

Answer(r, answer) ==
  /\ Goto(r, "gone")
  /\ reply' = [reply EXCEPT ![r] = answer]

\* The requests that hold a claim on key k and have not given it up.
Claimers(k) == {r \in Requests : pc[r] \in {"execute", "complete"} /\ req[r].key = k}

-----------------------------------------------------------------------------
(* createPayment and Begin *)

Arrive(r, k, b) ==
  /\ pc[r] = "absent"
  /\ req' = [req EXCEPT ![r] = [key |-> k, body |-> b]]
  /\ Goto(r, "claim")
  /\ UNCHANGED <<record, made, result, reply>>

Fresh(r) == [body |-> req[r].body, response |-> NoResponse, lock |-> "live"]

\* on conflict do update: every request believes its claim is fresh.
ClaimUpserts(r) ==
  /\ pc[r] = "claim"
  /\ record' = [record EXCEPT ![req[r].key] = Fresh(r)]
  /\ Goto(r, "execute")
  /\ UNCHANGED <<made, req, result, reply>>

\* insert .. on conflict (user_id, key) do nothing
Claim(r) ==
  LET k == req[r].key IN
  /\ pc[r] = "claim"
  /\ \/ /\ record[k] = NoRecord
        /\ record' = [record EXCEPT ![k] = Fresh(r)]
        /\ Goto(r, "execute")
     \/ /\ record[k] # NoRecord
        /\ Goto(r, "read")
        /\ UNCHANGED record
  /\ UNCHANGED <<made, req, result, reply>>

\* The stored hash is not compared.
ReadRecordIgnoresHash(r) ==
  LET row == record[req[r].key] IN
  /\ pc[r] = "read"
  /\ IF row.response = NoResponse
     THEN Goto(r, "takeover") /\ UNCHANGED reply
     ELSE Answer(r, row.response)
  /\ UNCHANGED <<record, made, req, result>>

\* A missing row raced a purge; a different body is refused; a stored response
\* is replayed; a claim without one may be up for take-over.
ReadRecord(r) ==
  LET row == record[req[r].key] IN
  /\ pc[r] = "read"
  /\ \/ /\ row = NoRecord
        /\ Answer(r, "conflict")
     \/ /\ row # NoRecord /\ row.body # req[r].body
        /\ Answer(r, "mismatch")
     \/ /\ row # NoRecord /\ row.body = req[r].body
        /\ row.response # NoResponse
        /\ Answer(r, row.response)
     \/ /\ row # NoRecord /\ row.body = req[r].body
        /\ row.response = NoResponse
        /\ Goto(r, "takeover")
        /\ UNCHANGED reply
  /\ UNCHANGED <<record, made, req, result>>

\* The lease is not in the where clause.
TakeOverWithoutLease(r) ==
  LET k == req[r].key IN
  /\ pc[r] = "takeover"
  /\ \/ /\ record[k] # NoRecord /\ record[k].response = NoResponse
        /\ record' = [record EXCEPT ![k].lock = "live"]
        /\ Goto(r, "execute")
        /\ UNCHANGED reply
     \/ /\ record[k] = NoRecord \/ record[k].response # NoResponse
        /\ Answer(r, "conflict")
        /\ UNCHANGED record
  /\ UNCHANGED <<made, req, result>>

\* update .. where response_code is null and locked_at < now() - lease
TakeOver(r) ==
  LET k     == req[r].key
      stale == /\ record[k].response = NoResponse
               /\ record[k].lock = "expired"
  IN
  /\ pc[r] = "takeover"
  /\ \/ /\ stale
        /\ record' = [record EXCEPT ![k].lock = "live"]
        /\ Goto(r, "execute")
        /\ UNCHANGED reply
     \/ /\ ~stale
        /\ Answer(r, "conflict")
        /\ UNCHANGED record
  /\ UNCHANGED <<made, req, result>>

\* Any statement of Begin fails: 500, nothing is stored.
BeginFails(r) ==
  /\ "db" \in Faults
  /\ pc[r] \in {"claim", "read", "takeover"}
  /\ Answer(r, "failed")
  /\ UNCHANGED <<record, made, req, result>>

-----------------------------------------------------------------------------
(* executeCreate and Complete *)

\* A failed insert answered as a conflict, which is then stored.
ExecuteAnswersConflict(r) ==
  LET k == req[r].key IN
  /\ pc[r] = "execute"
  /\ \/ /\ made' = [made EXCEPT ![k] = @ \union {r}]
        /\ result' = [result EXCEPT ![r] = r]
     \/ /\ result' = [result EXCEPT ![r] = "conflict"]
        /\ UNCHANGED made
  /\ Goto(r, "complete")
  /\ UNCHANGED <<record, req, reply>>

\* The body is refused or the insert fails, or the payment is made; a commit
\* whose acknowledgement is lost makes the payment and answers an error.
Execute(r) ==
  LET k == req[r].key IN
  /\ pc[r] = "execute"
  /\ \/ /\ made' = [made EXCEPT ![k] = @ \union {r}]
        /\ \/ result' = [result EXCEPT ![r] = r]
           \/ /\ "db" \in Faults
              /\ result' = [result EXCEPT ![r] = "rejected"]
     \/ /\ result' = [result EXCEPT ![r] = "rejected"]
        /\ UNCHANGED made
  /\ Goto(r, "complete")
  /\ UNCHANGED <<record, req, reply>>

\* update .. where user_id and key: whatever claim the row is for by now.
Complete(r) ==
  LET k == req[r].key IN
  /\ pc[r] = "complete"
  /\ record' = [record EXCEPT ![k] =
       IF @ = NoRecord THEN @
       ELSE [@ EXCEPT !.response = result[r], !.lock = "null"]]
  /\ Answer(r, result[r])
  /\ UNCHANGED <<made, req, result>>

\* The error is logged and the client has its answer all the same.
CompleteFails(r) ==
  /\ "db" \in Faults
  /\ pc[r] = "complete"
  /\ Answer(r, result[r])
  /\ UNCHANGED <<record, made, req, result>>

\* The request context is cancelled or the process dies: the rest of the
\* handler has no effect.
Abandon(r) ==
  /\ "abandon" \in Faults
  /\ pc[r] \notin {"absent", "gone"}
  /\ Goto(r, "gone")
  /\ UNCHANGED <<record, made, req, result, reply>>

-----------------------------------------------------------------------------
(* Time *)

\* What a lease outlasts unless a request is "slow": who holds the claim, and who
\* read an earlier claim on the key and has not come to its next statement.
Outlasts(k) ==
  Claimers(k) \union {r \in Requests : /\ pc[r] = "takeover" /\ req[r].key = k
                                      /\ req[r].body # record[k].body}

\* locked_at falls behind the lease.
LeaseExpires(k) ==
  /\ record[k].lock = "live"
  /\ "slow" \in Faults \/ Outlasts(k) = {}
  /\ record' = [record EXCEPT ![k].lock = "expired"]
  /\ UNCHANGED <<made, pc, req, result, reply>>

\* The row is older than the TTL of a day, which no claimer lives to see; the
\* key is then free for a new payment.
Purge(k) ==
  /\ record[k] # NoRecord
  /\ Claimers(k) = {}
  /\ record' = [record EXCEPT ![k] = NoRecord]
  /\ made' = [made EXCEPT ![k] = {}]
  /\ UNCHANGED <<pc, req, result, reply>>

Serve(r) ==
  \/ \E k \in Keys, b \in Bodies : Arrive(r, k, b)
  \/ Claim(r) \/ ReadRecord(r) \/ TakeOver(r) \/ BeginFails(r)
  \/ Execute(r) \/ Complete(r) \/ CompleteFails(r) \/ Abandon(r)

Next ==
  \/ \E r \in Requests : Serve(r)
  \/ \E k \in Keys : LeaseExpires(k) \/ Purge(k)

Spec == Init /\ [][Next]_vars

-----------------------------------------------------------------------------
(* Properties *)

\* One key makes one payment, however many requests carry it: "same key + same
\* payload replays the stored response" (package idempotency).
OnePaymentPerKey == \A k \in Keys : Cardinality(made[k]) <= 1

\* Of the requests racing for a key, also for an expired one, one executes
\* (the conflict clause of Begin and the condition on locked_at).
OneClaimerAtATime == \A k \in Keys : Cardinality(Claimers(k)) <= 1

\* A client is told of the payment of its own key and body, never of another
\* one (the request_hash comparison of Begin).
RepliesMatchRequest ==
  \A r \in Requests : reply[r] \in Requests => req[reply[r]] = req[r]

\* Once a response is stored the key makes no further payment while its row
\* lasts ("a completed key is never taken over").
CompletedKeyMakesNoPayment ==
  [][\A k \in Keys :
       record[k].response # NoResponse => made'[k] \subseteq made[k]]_vars

Contract == INSTANCE IdempotencyContract WITH
  NotAsked <- NoRecord,
  asked    <- req,
  body     <- [k \in Keys |-> record[k].body],
  serving  <- [k \in Keys |-> Claimers(k)],
  answer   <- [k \in Keys |-> record[k].response]

\* What the statements of Begin and Complete promise together: a key is served by one
\* request at a time, its answer is stored once, tells only of a payment that was made,
\* and is replayed to the same body only.
ImplementsContract == Contract!Spec
=============================================================================
