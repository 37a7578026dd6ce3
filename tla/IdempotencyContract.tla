------------------------- MODULE IdempotencyContract -------------------------
(***************************************************************************)
(* What an Idempotency-Key promises a client, without rows, leases or      *)
(* statements: one request serves a key at a time, what it answers is      *)
(* stored once and replayed to requests with the same body, and no payment *)
(* is made under a key that has its answer.  A request may leave a key     *)
(* unanswered, and a key may be forgotten; both are the client's risk.     *)
(***************************************************************************)
CONSTANTS Requests, Keys, Bodies, NotAsked

VARIABLES
  asked,    \* key and body of each request
  body,     \* the body each key is claimed for
  serving,  \* the requests that execute under each key
  answer,   \* the stored answer of each key: the payment it names, or an error
  made,     \* the payments made under each key
  reply     \* what each client was told

vars == <<asked, body, serving, answer, made, reply>>

Init ==
  /\ asked = [r \in Requests |-> NotAsked]
  /\ body = [k \in Keys |-> "none"]
  /\ serving = [k \in Keys |-> {}]
  /\ answer = [k \in Keys |-> "none"]
  /\ made = [k \in Keys |-> {}]
  /\ reply = [r \in Requests |-> "none"]

Ask(r, k, b) ==
  /\ asked[r] = NotAsked
  /\ asked' = [asked EXCEPT ![r] = [key |-> k, body |-> b]]
  /\ UNCHANGED <<body, serving, answer, made, reply>>

\* A key nobody serves, not yet answered, is taken by a request of its body.
Take(r, k) ==
  \E b \in Bodies :
    /\ asked[r] = [key |-> k, body |-> b]
    /\ serving[k] = {} /\ answer[k] = "none"
    /\ body[k] \in {"none", b}
    /\ body' = [body EXCEPT ![k] = b]
    /\ serving' = [serving EXCEPT ![k] = {r}]
    /\ UNCHANGED <<asked, answer, made, reply>>

Pay(r, k) ==
  /\ r \in serving[k]
  /\ made' = [made EXCEPT ![k] = @ \union {r}]
  /\ UNCHANGED <<asked, body, serving, answer, reply>>

\* What a request may answer: its payment, if it has made it, or an error.
Answers(r, k) == {"rejected"} \union ({r} \cap made[k])

Settle(r, k) ==
  /\ r \in serving[k]
  /\ \E a \in Answers(r, k) :
       /\ answer' = [answer EXCEPT ![k] = a]
       /\ reply' = [reply EXCEPT ![r] = a]
  /\ serving' = [serving EXCEPT ![k] = @ \ {r}]
  /\ UNCHANGED <<asked, body, made>>

\* The request ends and nothing is stored; the client has an answer or none.
Leave(r, k) ==
  /\ r \in serving[k]
  /\ \/ \E a \in Answers(r, k) : reply' = [reply EXCEPT ![r] = a]
     \/ UNCHANGED reply
  /\ serving' = [serving EXCEPT ![k] = @ \ {r}]
  /\ UNCHANGED <<asked, body, answer, made>>

Replay(r, k) ==
  /\ reply[r] = "none"
  /\ asked[r] = [key |-> k, body |-> body[k]]
  /\ answer[k] # "none"
  /\ reply' = [reply EXCEPT ![r] = answer[k]]
  /\ UNCHANGED <<asked, body, serving, answer, made>>

Refuse(r) ==
  /\ reply[r] = "none"
  /\ \A k \in Keys : r \notin serving[k]
  /\ \E a \in {"conflict", "mismatch", "failed"} : reply' = [reply EXCEPT ![r] = a]
  /\ UNCHANGED <<asked, body, serving, answer, made>>

\* The key is free for a new payment.
Forget(k) ==
  /\ serving[k] = {}
  /\ body' = [body EXCEPT ![k] = "none"]
  /\ answer' = [answer EXCEPT ![k] = "none"]
  /\ made' = [made EXCEPT ![k] = {}]
  /\ UNCHANGED <<asked, serving, reply>>

Next ==
  \/ \E r \in Requests, k \in Keys :
       \/ \E b \in Bodies : Ask(r, k, b)
       \/ Take(r, k) \/ Pay(r, k) \/ Settle(r, k) \/ Leave(r, k) \/ Replay(r, k)
  \/ \E r \in Requests : Refuse(r)
  \/ \E k \in Keys : Forget(k)

Spec == Init /\ [][Next]_vars
=============================================================================
