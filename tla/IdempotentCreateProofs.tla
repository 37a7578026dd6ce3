------------------------ MODULE IdempotentCreateProofs ------------------------
(***************************************************************************)
(* What IdempotentCreate keeps for any requests, keys and bodies: its      *)
(* types always, and as long as no request outlasts its lease the promises *)
(* of a key and the contract they add up to.                               *)
(***************************************************************************)
EXTENDS IdempotentCreate, FiniteSetTheorems, TLAPS

-----------------------------------------------------------------------------
(* The inductive invariant *)

\* A claim has one holder, and holds a live lease without a response for it.
ClaimOK(k) ==
  /\ \A r, s \in Claimers(k) : r = s
  /\ \A r \in Claimers(k) :
       /\ record[k].response = NoResponse /\ record[k].lock = "live"
       /\ record[k].body = req[r].body

\* A stored response is of a request for the same key and body, and so is the
\* claim a request is about to take over.
RecordOK(k) ==
  /\ record[k].response \in Requests =>
       /\ pc[record[k].response] # "absent"
       /\ req[record[k].response] = [key |-> k, body |-> record[k].body]
  /\ record[k].lock = "expired" =>
       \A r \in Requests :
         pc[r] = "takeover" /\ req[r].key = k => req[r].body = record[k].body

\* A request that has arrived has a key and a body; it answers with its own
\* payment or with what it read.
RequestOK(r) ==
  /\ pc[r] # "absent" => req[r] \in [key : Keys, body : Bodies]
  /\ pc[r] = "complete" => result[r] # NoResponse
  /\ result[r] \in Requests => result[r] = r
  /\ reply[r] \in Requests => pc[reply[r]] # "absent" /\ req[reply[r]] = req[r]
  /\ pc[r] = "absent" => reply[r] = "none"

IInv ==
  /\ TypeOK
  /\ \A k \in Keys : ClaimOK(k) /\ RecordOK(k)
  /\ \A r \in Requests : RequestOK(r)

USE DEF vars

LEMMA InvInit == Init => IInv
BY CreateAssumption
   DEF Init, IInv, TypeOK, ClaimOK, RecordOK, RequestOK, Claimers, NoRecord, NoResponse,
       Results, Records

-----------------------------------------------------------------------------
(* Steps *)

\* A set without two members has at most one.
LEMMA OneAtMost ==
  ASSUME NEW S, \A x, y \in S : x = y
  PROVE  Cardinality(S) <= 1
<1>1. CASE S = {}
  BY <1>1, FS_EmptySet
<1>2. ASSUME NEW x \in S
      PROVE  Cardinality(S) <= 1
  <2>1. S = {x}
    BY <1>2
  <2>2. Cardinality({x}) = 1
    BY FS_Singleton
  <2>. QED  BY <2>1, <2>2
<1>. QED  BY <1>1, <1>2

LEMMA KeyOf ==
  ASSUME IInv, NEW r \in Requests, pc[r] # "absent"
  PROVE  req[r].key \in Keys /\ req[r].body \in Bodies
BY DEF IInv, RequestOK

\* The types, and what the next statement of a request supposes of it.
ArrivedOK(r) ==
  /\ pc[r] # "absent" => req[r] \in [key : Keys, body : Bodies]
  /\ pc[r] = "complete" => result[r] # NoResponse

TypeInv == TypeOK /\ \A r \in Requests : ArrivedOK(r)

LEMMA InvTypes == IInv => TypeInv
BY DEF IInv, TypeInv, RequestOK, ArrivedOK

LEMMA BeginTypes ==
  ASSUME TypeInv, NEW r \in Requests,
         Claim(r) \/ ReadRecord(r) \/ TakeOver(r) \/ BeginFails(r)
  PROVE  TypeInv'
<1>. req[r].key \in Keys /\ req[r].body \in Bodies
  BY DEF TypeInv, ArrivedOK, Claim, ReadRecord, TakeOver, BeginFails
<1>1. CASE Claim(r)
  BY <1>1 DEF TypeInv, TypeOK, ArrivedOK, Claim, Goto, Fresh, Records, Results
<1>2. CASE ReadRecord(r)
  BY <1>2 DEF TypeInv, TypeOK, ArrivedOK, ReadRecord, Goto, Answer, Records, NoRecord
<1>3. CASE TakeOver(r)
  <2>. pc[r] = "takeover"
    BY <1>3 DEF TakeOver
  <2>1. CASE /\ record' = [record EXCEPT ![req[r].key].lock = "live"]
             /\ record[req[r].key].lock = "expired"
             /\ Goto(r, "execute") /\ UNCHANGED <<made, req, result, reply>>
    <3>1. [record[req[r].key] EXCEPT !.lock = "live"] \in Records
      BY <2>1 DEF TypeInv, TypeOK, Records, NoRecord
    <3>2. record' \in [Keys -> Records \union {NoRecord}]
      BY <2>1, <3>1 DEF TypeInv, TypeOK
    <3>. QED  BY <2>1, <3>2 DEF TypeInv, TypeOK, ArrivedOK, Goto
  <2>2. CASE Answer(r, "conflict") /\ UNCHANGED <<record, made, req, result>>
    BY <2>2 DEF TypeInv, TypeOK, ArrivedOK, Goto, Answer
  <2>. QED  BY <1>3, <2>1, <2>2 DEF TakeOver
<1>4. CASE BeginFails(r)
  BY <1>4 DEF TypeInv, TypeOK, ArrivedOK, BeginFails, Goto, Answer
<1>. QED  BY <1>1, <1>2, <1>3, <1>4

LEMMA CompleteTypes ==
  ASSUME TypeInv, NEW r \in Requests, Complete(r)
  PROVE  TypeInv'
<1>1. result[r] \in Results /\ req[r].key \in Keys
  BY DEF TypeInv, TypeOK, ArrivedOK, Complete
<1>2. \A row \in Records :
        [row EXCEPT !.response = result[r], !.lock = "null"] \in Records
  BY <1>1 DEF Records
<1>3. record' \in [Keys -> Records \union {NoRecord}]
  BY <1>1, <1>2 DEF TypeInv, TypeOK, Complete
<1>. QED  BY <1>1, <1>3 DEF TypeInv, TypeOK, ArrivedOK, Complete, Goto, Answer

LEMMA ServeTypes ==
  ASSUME TypeInv, NEW r \in Requests, Serve(r)
  PROVE  TypeInv'
<1>1. ASSUME NEW k \in Keys, NEW b \in Bodies, Arrive(r, k, b)
      PROVE  TypeInv'
  BY <1>1 DEF TypeInv, TypeOK, ArrivedOK, Arrive, Goto
<1>2. CASE Execute(r)
  BY <1>2, CreateAssumption
     DEF TypeInv, TypeOK, ArrivedOK, Execute, Goto, Results, NoResponse
<1>3. CASE CompleteFails(r) \/ Abandon(r)
  BY <1>3 DEF TypeInv, TypeOK, ArrivedOK, CompleteFails, Abandon, Goto, Answer, Results
<1>. QED  BY <1>1, <1>2, <1>3, BeginTypes, CompleteTypes DEF Serve

LEMMA TypeNext == TypeInv /\ [Next]_vars => TypeInv'
<1>. SUFFICES ASSUME TypeInv, [Next]_vars PROVE TypeInv'
  OBVIOUS
<1>1. CASE UNCHANGED vars
  BY <1>1 DEF TypeInv, TypeOK, ArrivedOK
<1>2. ASSUME NEW k \in Keys, LeaseExpires(k) \/ Purge(k)
      PROVE  TypeInv'
  BY <1>2 DEF TypeInv, TypeOK, ArrivedOK, LeaseExpires, Purge, Records, NoRecord
<1>. QED  BY <1>1, <1>2, ServeTypes DEF Next

LEMMA ArriveKeeps ==
  ASSUME IInv, NEW r \in Requests, NEW k \in Keys, NEW b \in Bodies, Arrive(r, k, b)
  PROVE  IInv'
<1>1. TypeOK'
  BY InvTypes, TypeNext DEF TypeInv, Next, Serve
<1>2. \A j \in Keys : ClaimOK(j)'
  BY DEF IInv, TypeOK, ClaimOK, Claimers, Arrive, Goto
<1>3. \A j \in Keys : RecordOK(j)'
  BY DEF IInv, TypeOK, RecordOK, Arrive, Goto
<1>4. ASSUME NEW q \in Requests PROVE RequestOK(q)'
  <2>1. /\ pc'[q] = IF q = r THEN "claim" ELSE pc[q]
        /\ req'[q] = IF q = r THEN [key |-> k, body |-> b] ELSE req[q]
        /\ result' = result /\ reply' = reply
    BY DEF IInv, TypeOK, Arrive, Goto
  <2>2. reply[q] \in Requests =>
          q # r /\ reply[q] # r /\ pc'[reply[q]] = pc[reply[q]]
            /\ req'[reply[q]] = req[reply[q]]
    BY CreateAssumption DEF IInv, TypeOK, RequestOK, Arrive, Goto
  <2>3. RequestOK(q)
    BY DEF IInv
  <2>. QED  BY <2>1, <2>2, <2>3 DEF RequestOK, Arrive
<1>. QED  BY <1>1, <1>2, <1>3, <1>4 DEF IInv

LEMMA ClaimKeeps ==
  ASSUME IInv, NEW r \in Requests, Claim(r) PROVE IInv'
<1>1. TypeOK'
  BY InvTypes, TypeNext DEF TypeInv, Next, Serve
<1>2. \A j \in Keys : ClaimOK(j)'
  BY KeyOf DEF IInv, TypeOK, ClaimOK, Claimers, Claim, Goto, Fresh, NoRecord
<1>3. \A j \in Keys : RecordOK(j)'
  BY KeyOf, CreateAssumption DEF IInv, TypeOK, RecordOK, Claim, Goto, Fresh, NoResponse
<1>4. \A q \in Requests : RequestOK(q)'
  BY DEF IInv, TypeOK, RequestOK, Claim, Goto
<1>. QED  BY <1>1, <1>2, <1>3, <1>4 DEF IInv

LEMMA ReadRecordKeeps ==
  ASSUME IInv, NEW r \in Requests, ReadRecord(r) PROVE IInv'
<1>1. TypeOK'
  BY InvTypes, TypeNext DEF TypeInv, Next, Serve
<1>2. \A j \in Keys : ClaimOK(j)'
  BY KeyOf DEF IInv, TypeOK, ClaimOK, Claimers, ReadRecord, Goto, Answer
<1>3. \A j \in Keys : RecordOK(j)'
  BY KeyOf DEF IInv, TypeOK, RecordOK, ReadRecord, Goto, Answer
<1>4. \A q \in Requests : RequestOK(q)'
  BY KeyOf, CreateAssumption DEF IInv, TypeOK, RequestOK, RecordOK, ReadRecord, Goto, Answer
<1>. QED  BY <1>1, <1>2, <1>3, <1>4 DEF IInv

LEMMA TakeOverKeeps ==
  ASSUME IInv, NEW r \in Requests, TakeOver(r) PROVE IInv'
<1>. DEFINE k == req[r].key
<1>1. TypeOK'
  BY InvTypes, TypeNext DEF TypeInv, Next, Serve
<1>2. /\ pc[r] = "takeover" /\ k \in Keys /\ req' = req /\ result' = result
      /\ pc' = [pc EXCEPT ![r] = pc'[r]] /\ pc'[r] \in {"execute", "gone"}
  BY KeyOf DEF IInv, TypeOK, TakeOver, Goto, Answer
<1>3. \A q \in Requests : RequestOK(q)'
  BY KeyOf, CreateAssumption DEF IInv, TypeOK, RequestOK, TakeOver, Goto, Answer
\* The lease had expired, so nobody held the claim and the body is this one.
<1>4. CASE pc'[r] = "execute"
  <2>1. /\ record[k].response = NoResponse /\ record[k].lock = "expired"
        /\ record' = [record EXCEPT ![k].lock = "live"]
    BY <1>2, <1>4 DEF IInv, TypeOK, TakeOver, Goto, Answer
  <2>2. /\ record[k].body = req[r].body /\ Claimers(k) = {}
    BY <1>2, <2>1 DEF IInv, ClaimOK, RecordOK
  <2>3. /\ record'[k].response = NoResponse /\ record'[k].lock = "live"
        /\ record'[k].body = req[r].body
        /\ \A j \in Keys \ {k} : record'[j] = record[j]
    BY <1>2, <2>1, <2>2 DEF IInv, TypeOK, Records, NoRecord
  <2>4. \A j \in Keys : Claimers(j)' = IF j = k THEN {r} ELSE Claimers(j)
    BY <1>2, <1>4, <2>2 DEF IInv, TypeOK, Claimers
  <2>5. \A j \in Keys : ClaimOK(j)'
    BY <1>2, <2>3, <2>4 DEF IInv, ClaimOK
  <2>6. ASSUME NEW j \in Keys PROVE RecordOK(j)'
    <3>1. /\ record'[j].response = record[j].response /\ record'[j].body = record[j].body
          /\ record'[j].lock = "expired" => record[j].lock = "expired"
      BY <1>2, <2>1, <2>2, <2>3
    <3>. QED  BY <1>2, <1>4, <3>1 DEF IInv, TypeOK, RecordOK
  <2>. QED  BY <1>1, <1>3, <2>5, <2>6 DEF IInv
<1>5. CASE pc'[r] = "gone"
  <2>1. record' = record
    BY <1>2, <1>5 DEF IInv, TypeOK, TakeOver, Goto, Answer
  <2>2. \A j \in Keys : ClaimOK(j)'
    BY <1>2, <1>5, <2>1 DEF IInv, TypeOK, ClaimOK, Claimers
  <2>3. \A j \in Keys : RecordOK(j)'
    BY <1>2, <1>5, <2>1 DEF IInv, TypeOK, RecordOK
  <2>. QED  BY <1>1, <1>3, <2>2, <2>3 DEF IInv
<1>. QED  BY <1>2, <1>4, <1>5

LEMMA ExecuteKeeps ==
  ASSUME IInv, NEW r \in Requests, Execute(r) PROVE IInv'
<1>1. TypeOK'
  BY InvTypes, TypeNext DEF TypeInv, Next, Serve
<1>2. \A j \in Keys : ClaimOK(j)'
  BY DEF IInv, TypeOK, ClaimOK, Claimers, Execute, Goto
<1>3. \A j \in Keys : RecordOK(j)'
  BY DEF IInv, TypeOK, RecordOK, Execute, Goto
<1>4. \A q \in Requests : RequestOK(q)'
  BY CreateAssumption DEF IInv, TypeOK, RequestOK, Execute, Goto, NoResponse
<1>. QED  BY <1>1, <1>2, <1>3, <1>4 DEF IInv

LEMMA CompleteKeeps ==
  ASSUME IInv, NEW r \in Requests, Complete(r) PROVE IInv'
<1>1. TypeOK'
  BY InvTypes, TypeNext DEF TypeInv, Next, Serve
<1>2. \A j \in Keys : ClaimOK(j)'
  BY KeyOf DEF IInv, TypeOK, ClaimOK, Claimers, Complete, Goto, Answer
<1>3. \A j \in Keys : RecordOK(j)'
  BY KeyOf DEF IInv, TypeOK, ClaimOK, Claimers, RecordOK, RequestOK, Complete, Goto, Answer
<1>4. \A q \in Requests : RequestOK(q)'
  BY KeyOf, CreateAssumption DEF IInv, TypeOK, RequestOK, Complete, Goto, Answer
<1>. QED  BY <1>1, <1>2, <1>3, <1>4 DEF IInv

\* A request ends without a trace: a failed statement, a lost response, a client
\* that has gone.
LEMMA EndKeeps ==
  ASSUME IInv, NEW r \in Requests, BeginFails(r) \/ CompleteFails(r) \/ Abandon(r)
  PROVE  IInv'
<1>1. TypeOK'
  BY InvTypes, TypeNext DEF TypeInv, Next, Serve
<1>2. \A j \in Keys : ClaimOK(j)'
  BY DEF IInv, TypeOK, ClaimOK, Claimers, BeginFails, CompleteFails, Abandon, Goto, Answer
<1>3. \A j \in Keys : RecordOK(j)'
  BY DEF IInv, TypeOK, RecordOK, BeginFails, CompleteFails, Abandon, Goto, Answer
<1>4. \A q \in Requests : RequestOK(q)'
  BY CreateAssumption
     DEF IInv, TypeOK, RequestOK, BeginFails, CompleteFails, Abandon, Goto, Answer
<1>. QED  BY <1>1, <1>2, <1>3, <1>4 DEF IInv

LEMMA LeaseKeeps ==
  ASSUME "slow" \notin Faults, IInv, NEW k \in Keys, LeaseExpires(k) PROVE IInv'
<1>1. TypeOK'
  BY InvTypes, TypeNext DEF TypeInv, Next, Serve
<1>2. \A j \in Keys : ClaimOK(j)'
  BY DEF IInv, TypeOK, ClaimOK, Claimers, LeaseExpires, Outlasts
<1>3. \A j \in Keys : RecordOK(j)'
  BY DEF IInv, TypeOK, RecordOK, LeaseExpires, Outlasts
<1>4. \A q \in Requests : RequestOK(q)'
  BY DEF IInv, TypeOK, RequestOK, LeaseExpires
<1>. QED  BY <1>1, <1>2, <1>3, <1>4 DEF IInv

LEMMA PurgeKeeps ==
  ASSUME IInv, NEW k \in Keys, Purge(k) PROVE IInv'
<1>1. TypeOK'
  BY InvTypes, TypeNext DEF TypeInv, Next, Serve
<1>2. \A j \in Keys : ClaimOK(j)'
  BY DEF IInv, TypeOK, ClaimOK, Claimers, Purge
<1>3. \A j \in Keys : RecordOK(j)'
  BY CreateAssumption DEF IInv, TypeOK, RecordOK, Purge, NoRecord, NoResponse
<1>4. \A q \in Requests : RequestOK(q)'
  BY DEF IInv, TypeOK, RequestOK, Purge
<1>. QED  BY <1>1, <1>2, <1>3, <1>4 DEF IInv

LEMMA InvNext ==
  ASSUME "slow" \notin Faults, IInv, [Next]_vars PROVE IInv'
<1>1. CASE UNCHANGED vars
  BY <1>1 DEF IInv, TypeOK, ClaimOK, RecordOK, RequestOK, Claimers
<1>2. ASSUME NEW r \in Requests, Serve(r) PROVE IInv'
  BY <1>2, ArriveKeeps, ClaimKeeps, ReadRecordKeeps, TakeOverKeeps, ExecuteKeeps,
     CompleteKeeps, EndKeeps DEF Serve
<1>. QED  BY <1>1, <1>2, LeaseKeeps, PurgeKeeps DEF Next

LEMMA Invariance == ASSUME "slow" \notin Faults PROVE Spec => []IInv
<1>1. IInv /\ [Next]_vars => IInv'
  BY InvNext
<1>. QED  BY InvInit, <1>1, PTL DEF Spec

-----------------------------------------------------------------------------
(* Theorems: clients may leave and statements may fail; beyond the types no  *)
(* request may outlast its lease.                                            *)

\* A record is absent, a claim or a stored response, whatever requests race for
\* it, also those that outlast their lease: Complete stores only what executeCreate
\* returned.
THEOREM CreateTypes == Spec => []TypeOK
<1>1. Init => TypeInv
  BY InvInit, InvTypes
<1>2. TypeInv => TypeOK
  BY DEF TypeInv
<1>. QED  BY <1>1, TypeNext, <1>2, PTL DEF Spec

\* One request executes under a key, however many race for it, also when they
\* race to take over an expired claim (the insert and the update of Begin).
THEOREM ClaimIsExclusive ==
  ASSUME "slow" \notin Faults PROVE Spec => []OneClaimerAtATime
<1>1. IInv => OneClaimerAtATime
  BY OneAtMost DEF IInv, ClaimOK, OneClaimerAtATime
<1>. QED  BY Invariance, <1>1, PTL

\* A replay answers with a payment of the same key and body (the comparison of
\* request_hash in Begin, and what a take-over leaves of the earlier claim).
THEOREM ReplaysAreOfTheRequest ==
  ASSUME "slow" \notin Faults PROVE Spec => []RepliesMatchRequest
<1>1. IInv => RepliesMatchRequest
  BY DEF IInv, RequestOK, RepliesMatchRequest
<1>. QED  BY Invariance, <1>1, PTL

\* Who could change a completed key holds a claim, and a claim is of a key
\* without a response (Begin hands out no claim on a completed key).
LEMMA CompletedKeyStep ==
  ASSUME "slow" \notin Faults, IInv, [Next]_vars,
         NEW k \in Keys, record[k].response # NoResponse
  PROVE  /\ made'[k] \subseteq made[k]
         /\ record'[k] # NoRecord => record'[k].response = record[k].response
<1>0. Claimers(k) = {} /\ record[k] # NoRecord
  BY DEF IInv, ClaimOK, NoRecord
<1>1. CASE UNCHANGED vars
  BY <1>1
<1>2. ASSUME NEW r \in Requests, Claim(r) \/ TakeOver(r)
      PROVE  record'[k] = record[k] /\ made' = made
  BY <1>0, <1>2, KeyOf DEF IInv, TypeOK, Claim, TakeOver
<1>3. ASSUME NEW r \in Requests, Execute(r) \/ Complete(r)
      PROVE  record'[k] = record[k] /\ made'[k] = made[k]
  BY <1>0, <1>3, KeyOf DEF IInv, TypeOK, Claimers, Execute, Complete
<1>4. ASSUME NEW r \in Requests, Serve(r)
      PROVE  record'[k] = record[k] /\ made'[k] = made[k]
  BY <1>2, <1>3, <1>4
     DEF Serve, Arrive, ReadRecord, BeginFails, CompleteFails, Abandon
<1>5. ASSUME NEW j \in Keys, LeaseExpires(j)
      PROVE  record'[k].response = record[k].response /\ made' = made
  BY <1>5 DEF IInv, TypeOK, Records, NoRecord, LeaseExpires
<1>6. ASSUME NEW j \in Keys, Purge(j)
      PROVE  /\ made'[k] \subseteq made[k]
             /\ record'[k] = NoRecord \/ record'[k] = record[k]
  BY <1>6 DEF IInv, TypeOK, Purge
<1>. QED  BY <1>1, <1>4, <1>5, <1>6 DEF Next

\* No request pays again under a key with a stored response while its row lasts
\* (the response_code is null of the take-over).
THEOREM CompletedKeyPaysNoMore ==
  ASSUME "slow" \notin Faults PROVE Spec => CompletedKeyMakesNoPayment
<1>1. IInv /\ [Next]_vars =>
        \A k \in Keys : record[k].response # NoResponse => made'[k] \subseteq made[k]
  BY CompletedKeyStep
<1>. QED  BY Invariance, <1>1, PTL DEF Spec, CompletedKeyMakesNoPayment

-----------------------------------------------------------------------------
(* The contract of a key *)

\* A request has no key before it arrives and no answer before it ends, and what it
\* is about to answer is so: its payment, if it names one, is made.
AnswerOK(r) ==
  /\ pc[r] = "absent" => req[r] = NoRecord
  /\ pc[r] # "gone" => reply[r] = "none"
  /\ pc[r] = "complete" => result[r] \in Contract!Answers(r, req[r].key)

AnswersOK == \A r \in Requests : AnswerOK(r)

\* Payments are taken from a key by a purge only, which waits for its claimers.
LEMMA MadeStays ==
  ASSUME IInv, [Next]_vars, NEW r \in Requests, pc[r] = "complete", r \in made[req[r].key]
  PROVE  r \in made'[req[r].key]
<1>. DEFINE k == req[r].key
<1>1. k \in Keys /\ Claimers(k) # {}
  BY KeyOf DEF Claimers
<1>2. ASSUME NEW j \in Keys, Purge(j)
      PROVE  made'[k] = made[k]
  BY <1>1, <1>2 DEF IInv, TypeOK, Purge
<1>3. ASSUME NEW q \in Requests, Serve(q)
      PROVE  made[k] \subseteq made'[k]
  <2>1. CASE Execute(q)
    BY <1>1, <2>1, KeyOf DEF IInv, TypeOK, Execute
  <2>. QED
    BY <1>3, <2>1
       DEF Serve, Arrive, Claim, ReadRecord, TakeOver, BeginFails, Complete, CompleteFails,
           Abandon
<1>. QED  BY <1>1, <1>2, <1>3 DEF Next, LeaseExpires

LEMMA AnswersNext == IInv /\ AnswersOK /\ [Next]_vars => AnswersOK'
<1>. SUFFICES ASSUME IInv, AnswersOK, [Next]_vars, NEW q \in Requests
              PROVE  AnswerOK(q)'
  BY DEF AnswersOK
<1>1. AnswerOK(q)
  BY DEF AnswersOK
\* What a step of another request, or of time, leaves of this one.
<1>2. ASSUME UNCHANGED <<pc[q], req[q], result[q], reply[q]>>
      PROVE  AnswerOK(q)'
  BY <1>1, <1>2, MadeStays DEF AnswerOK, Contract!Answers
<1>3. ASSUME NEW r \in Requests, Serve(r), r # q
      PROVE  UNCHANGED <<pc[q], req[q], result[q], reply[q]>>
  BY <1>3
     DEF IInv, TypeOK, Serve, Arrive, Claim, ReadRecord, TakeOver, BeginFails, Execute,
         Complete, CompleteFails, Abandon, Goto, Answer
<1>4. CASE Serve(q)
  <2>1. CASE Execute(q)
    <3>1. /\ pc'[q] = "complete" /\ req' = req /\ reply' = reply /\ req[q].key \in Keys
          /\ \/ result'[q] = "rejected"
             \/ result'[q] = q /\ q \in made'[req[q].key]
      BY <2>1, KeyOf DEF IInv, TypeOK, Execute, Goto
    <3>. QED  BY <1>1, <2>1, <3>1 DEF AnswerOK, Contract!Answers, Execute
  <2>2. CASE ~Execute(q)
    <3>1. /\ pc'[q] \notin {"absent", "complete"}
          /\ pc'[q] # "gone" => pc[q] # "gone" /\ reply'[q] = reply[q]
      BY <1>4, <2>2
         DEF IInv, TypeOK, Serve, Arrive, Claim, ReadRecord, TakeOver, BeginFails,
             Complete, CompleteFails, Abandon, Goto, Answer
    <3>. QED  BY <1>1, <3>1 DEF AnswerOK
  <2>. QED  BY <2>1, <2>2
<1>. QED  BY <1>2, <1>3, <1>4 DEF Next, LeaseExpires, Purge

\* A step the contract does not see.
LEMMA Unseen ==
  ASSUME UNCHANGED <<req, made, reply>>,
         \A k \in Keys : /\ Claimers(k)' = Claimers(k)
                        /\ record'[k].body = record[k].body
                        /\ record'[k].response = record[k].response
  PROVE  UNCHANGED Contract!vars
BY DEF Contract!vars

\* A step that only answers its request.
LEMMA OnlyAnswers ==
  ASSUME UNCHANGED <<req, made, record>>,
         \A k \in Keys : Claimers(k)' = Claimers(k)
  PROVE  UNCHANGED <<req, made, [k \in Keys |-> record[k].body],
                     [k \in Keys |-> record[k].response],
                     [k \in Keys |-> Claimers(k)]>>
OBVIOUS

\* A step of a request moves no other request among the claimers of a key.
Steps(r) ==
  /\ UNCHANGED req
  /\ pc' = [pc EXCEPT ![r] = pc'[r]]

LEMMA ClaimersMove ==
  ASSUME IInv, NEW r \in Requests, Steps(r), NEW k \in Keys
  PROVE  Claimers(k)' = IF req[r].key = k /\ pc'[r] \in {"execute", "complete"}
                        THEN Claimers(k) \union {r} ELSE Claimers(k) \ {r}
<1>1. \A q \in Requests \ {r} : q \in Claimers(k)' <=> q \in Claimers(k)
  BY DEF IInv, TypeOK, Steps, Claimers
<1>2. r \in Claimers(k)' <=> req[r].key = k /\ pc'[r] \in {"execute", "complete"}
  BY DEF Steps, Claimers
<1>3. Claimers(k) \subseteq Requests /\ Claimers(k)' \subseteq Requests
  BY DEF Claimers
<1>. QED  BY <1>1, <1>2, <1>3

LEMMA ClaimersStay ==
  ASSUME IInv, NEW r \in Requests, Steps(r), NEW k \in Keys,
         r \in Claimers(k) <=> req[r].key = k /\ pc'[r] \in {"execute", "complete"}
  PROVE  Claimers(k)' = Claimers(k)
<1>1. CASE r \in Claimers(k)
  <2>1. Claimers(k) \union {r} = Claimers(k)
    BY <1>1
  <2>. QED  BY <1>1, <2>1, ClaimersMove
<1>2. CASE r \notin Claimers(k)
  <2>1. Claimers(k) \ {r} = Claimers(k)
    BY <1>2
  <2>. QED  BY <1>2, <2>1, ClaimersMove
<1>. QED  BY <1>1, <1>2

\* A claim of a key is its Take.
LEMMA Takes ==
  ASSUME NEW r \in Requests, NEW k \in Keys, NEW b \in Bodies,
         req[r] = [key |-> k, body |-> b],
         Claimers(k) = {}, record[k].response = "none", record[k].body \in {"none", b},
         UNCHANGED <<made, req, reply>>,
         \A j \in Keys : Claimers(j)' = IF j = k THEN {r} ELSE Claimers(j),
         \A j \in Keys :
           /\ record'[j].body = IF j = k THEN b ELSE record[j].body
           /\ record'[j].response = record[j].response
  PROVE  Contract!Next
<1>1. [j \in Keys |-> Claimers(j)'] = [[j \in Keys |-> Claimers(j)] EXCEPT ![k] = {r}]
  OBVIOUS
<1>2. [j \in Keys |-> record'[j].body] = [[j \in Keys |-> record[j].body] EXCEPT ![k] = b]
  OBVIOUS
<1>3. [j \in Keys |-> record'[j].response] = [j \in Keys |-> record[j].response]
  OBVIOUS
<1>4. Contract!Take(r, k)
  BY <1>1, <1>2, <1>3 DEF Contract!Take
<1>. QED  BY <1>4 DEF Contract!Next

LEMMA ClaimTakes ==
  ASSUME IInv, NEW r \in Requests, Claim(r)
  PROVE  Contract!Next \/ UNCHANGED Contract!vars
<1>. DEFINE k == req[r].key
<1>1. pc[r] = "claim" /\ k \in Keys /\ req[r].body \in Bodies
      /\ UNCHANGED <<made, req, reply>> /\ \A j \in Keys : r \notin Claimers(j)
  BY KeyOf DEF Claim, Claimers
<1>2. CASE record[k] = NoRecord
  <2>1. record' = [record EXCEPT ![k] = Fresh(r)] /\ Steps(r) /\ pc'[r] = "execute"
    BY <1>1, <1>2 DEF IInv, TypeOK, Claim, Goto, Steps
  <2>2. Claimers(k) = {} /\ record[k].response = "none" /\ record[k].body = "none"
    BY <1>1, <1>2 DEF IInv, ClaimOK, NoRecord, NoResponse
  <2>3. \A j \in Keys : Claimers(j)' = IF j = k THEN {r} ELSE Claimers(j)
    BY <1>1, <2>1, <2>2, ClaimersMove
  <2>4. \A j \in Keys :
          /\ record'[j].body = IF j = k THEN req[r].body ELSE record[j].body
          /\ record'[j].response = record[j].response
    BY <1>1, <2>1, <2>2 DEF IInv, TypeOK, Fresh, NoResponse
  <2>5. req[r] = [key |-> k, body |-> req[r].body]
    BY <1>1 DEF IInv, RequestOK
  <2>. QED  BY <1>1, <2>2, <2>3, <2>4, <2>5, Takes
<1>3. CASE record[k] # NoRecord
  <2>1. record' = record /\ Steps(r) /\ pc'[r] = "read"
    BY <1>1, <1>3 DEF IInv, TypeOK, Claim, Goto, Steps
  <2>2. \A j \in Keys : Claimers(j)' = Claimers(j)
    BY <1>1, <2>1, ClaimersStay
  <2>. QED  BY <1>1, <2>1, <2>2, Unseen
<1>. QED  BY <1>2, <1>3

LEMMA TakeOverTakes ==
  ASSUME IInv, AnswersOK, NEW r \in Requests, TakeOver(r)
  PROVE  Contract!Next \/ UNCHANGED Contract!vars
<1>. DEFINE k == req[r].key
<1>1. pc[r] = "takeover" /\ k \in Keys /\ req[r].body \in Bodies
      /\ UNCHANGED <<made, req>> /\ \A j \in Keys : r \notin Claimers(j)
  BY KeyOf DEF TakeOver, Claimers
<1>2. CASE /\ record[k].response = NoResponse /\ record[k].lock = "expired"
           /\ record' = [record EXCEPT ![k].lock = "live"]
           /\ Goto(r, "execute") /\ UNCHANGED reply
  <2>1. Claimers(k) = {} /\ record[k].body = req[r].body
    BY <1>1, <1>2 DEF IInv, ClaimOK, RecordOK
  <2>2. \A j \in Keys : Claimers(j)' = IF j = k THEN {r} ELSE Claimers(j)
    <3>1. Steps(r) /\ pc'[r] = "execute"
      BY <1>1, <1>2 DEF IInv, TypeOK, Goto, Steps
    <3>. QED  BY <1>1, <2>1, <3>1, ClaimersMove
  <2>3. \A j \in Keys :
          /\ record'[j].body = IF j = k THEN req[r].body ELSE record[j].body
          /\ record'[j].response = record[j].response
    BY <1>1, <1>2, <2>1 DEF IInv, TypeOK, Records, NoRecord
  <2>4. req[r] = [key |-> k, body |-> req[r].body]
    BY <1>1 DEF IInv, RequestOK
  <2>. QED  BY <1>1, <1>2, <2>1, <2>2, <2>3, <2>4, Takes DEF NoResponse
<1>3. CASE Answer(r, "conflict") /\ UNCHANGED record
  <2>1. \A j \in Keys : Claimers(j)' = Claimers(j)
    <3>1. Steps(r) /\ pc'[r] = "gone"
      BY <1>1, <1>3 DEF IInv, TypeOK, Answer, Goto, Steps
    <3>. QED  BY <1>1, <3>1, ClaimersStay
  <2>2. reply[r] = "none"
    BY <1>1 DEF AnswersOK, AnswerOK
  <2>3. Contract!Refuse(r)
    BY <1>1, <1>3, <2>1, <2>2, OnlyAnswers DEF Contract!Refuse, Answer
  <2>. QED  BY <2>3 DEF Contract!Next
<1>. QED  BY <1>2, <1>3 DEF TakeOver

LEMMA ReadReplays ==
  ASSUME IInv, AnswersOK, NEW r \in Requests, ReadRecord(r)
  PROVE  Contract!Next \/ UNCHANGED Contract!vars
<1>. DEFINE k == req[r].key
<1>1. pc[r] = "read" /\ k \in Keys /\ UNCHANGED <<record, made, req>>
      /\ reply[r] = "none" /\ \A j \in Keys : r \notin Claimers(j)
  BY KeyOf DEF ReadRecord, Claimers, AnswersOK, AnswerOK
<1>2. \A j \in Keys : Claimers(j)' = Claimers(j)
  <2>1. Steps(r) /\ pc'[r] \in {"takeover", "gone"}
    BY <1>1 DEF IInv, TypeOK, ReadRecord, Answer, Goto, Steps
  <2>. QED  BY <1>1, <2>1, ClaimersStay
<1>3. CASE Answer(r, "conflict") \/ Answer(r, "mismatch")
  <2>1. Contract!Refuse(r)
    BY <1>1, <1>2, <1>3, OnlyAnswers DEF Contract!Refuse, Answer
  <2>. QED  BY <2>1 DEF Contract!Next
<1>4. CASE /\ record[k].body = req[r].body /\ record[k].response # NoResponse
           /\ Answer(r, record[k].response)
  <2>1. req[r] = [key |-> k, body |-> record[k].body]
    BY <1>1, <1>4 DEF IInv, RequestOK
  <2>2. Contract!Replay(r, k)
    BY <1>1, <1>2, <1>4, <2>1, OnlyAnswers DEF Contract!Replay, Answer, NoResponse
  <2>. QED  BY <1>1, <2>2 DEF Contract!Next
<1>5. CASE Goto(r, "takeover") /\ UNCHANGED reply
  BY <1>1, <1>2, <1>5, Unseen
<1>. QED  BY <1>3, <1>4, <1>5 DEF ReadRecord

LEMMA ExecutePays ==
  ASSUME IInv, NEW r \in Requests, Execute(r)
  PROVE  Contract!Next \/ UNCHANGED Contract!vars
<1>. DEFINE k == req[r].key
<1>1. pc[r] = "execute" /\ k \in Keys /\ UNCHANGED <<record, req, reply>>
      /\ r \in Claimers(k)
  BY KeyOf DEF Execute, Claimers
<1>2. \A j \in Keys : Claimers(j)' = Claimers(j)
  <2>1. Steps(r) /\ pc'[r] = "complete" /\ \A j \in Keys : r \in Claimers(j) <=> j = k
    BY <1>1 DEF IInv, TypeOK, Execute, Goto, Steps, Claimers
  <2>. QED  BY <1>1, <2>1, ClaimersStay
<1>3. CASE made' = [made EXCEPT ![k] = @ \union {r}]
  <2>1. Contract!Pay(r, k)
    BY <1>1, <1>2, <1>3 DEF Contract!Pay
  <2>. QED  BY <1>1, <2>1 DEF Contract!Next
<1>4. CASE UNCHANGED made
  BY <1>1, <1>2, <1>4, Unseen
<1>. QED  BY <1>3, <1>4 DEF Execute

LEMMA CompleteSettles ==
  ASSUME IInv, AnswersOK, NEW r \in Requests, Complete(r)
  PROVE  Contract!Next
<1>0. PICK k \in Keys : k = req[r].key
  BY KeyOf DEF Complete
<1>1. pc[r] = "complete" /\ UNCHANGED <<made, req>>
      /\ r \in Claimers(k) /\ result[r] \in Contract!Answers(r, k)
  BY <1>0 DEF Complete, Claimers, AnswersOK, AnswerOK
<1>2. record[k] \in Records /\ record[k] # NoRecord
  BY <1>0, <1>1 DEF IInv, TypeOK, ClaimOK, NoRecord
<1>3. record' = [record EXCEPT ![k] = [@ EXCEPT !.response = result[r], !.lock = "null"]]
      /\ reply' = [reply EXCEPT ![r] = result[r]]
  BY <1>0, <1>2 DEF Complete, Answer
<1>4. \A j \in Keys : Claimers(j)' = IF j = k THEN Claimers(j) \ {r} ELSE Claimers(j)
  <2>1. Steps(r) /\ pc'[r] = "gone" /\ \A j \in Keys : r \in Claimers(j) <=> j = k
    BY <1>0, <1>1 DEF IInv, TypeOK, Complete, Answer, Goto, Steps, Claimers
  <2>. QED  BY <1>0, <1>1, <2>1, ClaimersMove
<1>5. \A j \in Keys :
        /\ record'[j].body = record[j].body
        /\ record'[j].response = IF j = k THEN result[r] ELSE record[j].response
  BY <1>1, <1>2, <1>3 DEF IInv, TypeOK, Records
<1>6. [j \in Keys |-> Claimers(j)'] =
        [[j \in Keys |-> Claimers(j)] EXCEPT ![k] = Claimers(k) \ {r}]
  BY <1>1, <1>4
<1>7. [j \in Keys |-> record'[j].response] =
        [[j \in Keys |-> record[j].response] EXCEPT ![k] = result[r]]
  BY <1>1, <1>5
<1>8. [j \in Keys |-> record'[j].body] = [j \in Keys |-> record[j].body]
  BY <1>5
<1>9. Contract!Settle(r, k)
  <2>1. [j \in Keys |-> Claimers(j)][k] = Claimers(k)
    BY <1>1
  <2>2. \E a \in Contract!Answers(r, k) :
          /\ [j \in Keys |-> record'[j].response] =
               [[j \in Keys |-> record[j].response] EXCEPT ![k] = a]
          /\ reply' = [reply EXCEPT ![r] = a]
    BY <1>1, <1>3, <1>7
  <2>. QED  BY <1>1, <1>6, <1>8, <2>1, <2>2 DEF Contract!Settle
<1>. QED  BY <1>9 DEF Contract!Next

\* A request that ends without storing an answer.
LEMMA EndLeaves ==
  ASSUME IInv, AnswersOK, NEW r \in Requests, BeginFails(r) \/ CompleteFails(r) \/ Abandon(r)
  PROVE  Contract!Next \/ UNCHANGED Contract!vars
<1>. DEFINE k == req[r].key
<1>1. pc[r] # "absent" /\ k \in Keys /\ UNCHANGED <<record, made, req>>
      /\ pc' = [pc EXCEPT ![r] = "gone"]
      /\ pc[r] # "gone" /\ reply[r] = "none"
  BY KeyOf DEF BeginFails, CompleteFails, Abandon, Answer, Goto, AnswersOK, AnswerOK
<1>2. \A j \in Keys : Claimers(j)' = IF j = k THEN Claimers(j) \ {r} ELSE Claimers(j)
  <2>1. Steps(r) /\ pc'[r] = "gone" /\ \A j \in Keys : r \in Claimers(j) => j = k
    BY <1>1 DEF IInv, TypeOK, Steps, Claimers
  <2>. QED  BY <1>1, <2>1, ClaimersMove
<1>3. CASE r \in Claimers(k)
  <2>1. \/ UNCHANGED reply
        \/ pc[r] = "complete" /\ reply' = [reply EXCEPT ![r] = result[r]]
    BY <1>3 DEF Claimers, BeginFails, CompleteFails, Abandon, Answer
  <2>2. pc[r] = "complete" => result[r] \in Contract!Answers(r, k)
    BY DEF AnswersOK, AnswerOK
  <2>3. Contract!Leave(r, k)
    BY <1>1, <1>2, <1>3, <2>1, <2>2 DEF Contract!Leave
  <2>. QED  BY <1>1, <2>3 DEF Contract!Next
<1>4. CASE r \notin Claimers(k)
  <2>1. \A j \in Keys : r \notin Claimers(j) /\ Claimers(j)' = Claimers(j)
    BY <1>2, <1>4 DEF Claimers
  <2>2. UNCHANGED reply \/ reply' = [reply EXCEPT ![r] = "failed"]
    BY <1>1, <1>4 DEF Claimers, BeginFails, CompleteFails, Abandon, Answer
  <2>3. CASE UNCHANGED reply
    BY <1>1, <2>1, <2>3, Unseen
  <2>4. CASE reply' = [reply EXCEPT ![r] = "failed"]
    <3>1. Contract!Refuse(r)
      BY <1>1, <2>1, <2>4, OnlyAnswers DEF Contract!Refuse
    <3>. QED  BY <3>1 DEF Contract!Next
  <2>. QED  BY <2>2, <2>3, <2>4
<1>. QED  BY <1>3, <1>4

LEMMA ArriveAsks ==
  ASSUME IInv, AnswersOK, NEW r \in Requests, NEW k \in Keys, NEW b \in Bodies,
         Arrive(r, k, b)
  PROVE  Contract!Next
<1>1. \A j \in Keys : Claimers(j)' = Claimers(j)
  BY DEF IInv, TypeOK, Claimers, Arrive, Goto
<1>2. req[r] = NoRecord
  BY DEF AnswersOK, AnswerOK, Arrive
<1>3. Contract!Ask(r, k, b)
  BY <1>1, <1>2 DEF Contract!Ask, Arrive
<1>. QED  BY <1>3 DEF Contract!Next

LEMMA TimeForgets ==
  ASSUME IInv, NEW k \in Keys, LeaseExpires(k) \/ Purge(k)
  PROVE  Contract!Next \/ UNCHANGED Contract!vars
<1>1. \A j \in Keys : Claimers(j)' = Claimers(j)
  BY DEF Claimers, LeaseExpires, Purge
<1>2. CASE LeaseExpires(k)
  <2>1. \A j \in Keys : /\ record'[j].body = record[j].body
                       /\ record'[j].response = record[j].response
    BY <1>2 DEF IInv, TypeOK, Records, NoRecord, LeaseExpires
  <2>. QED  BY <1>1, <1>2, <2>1, Unseen DEF LeaseExpires
<1>3. CASE Purge(k)
  <2>1. \A j \in Keys :
          /\ record'[j].body = IF j = k THEN "none" ELSE record[j].body
          /\ record'[j].response = IF j = k THEN "none" ELSE record[j].response
    BY <1>3 DEF IInv, TypeOK, Purge, NoRecord, NoResponse
  <2>2. Claimers(k) = {} /\ UNCHANGED <<req, reply>> /\ made' = [made EXCEPT ![k] = {}]
    BY <1>3 DEF Purge
  <2>3. [j \in Keys |-> Claimers(j)'] = [j \in Keys |-> Claimers(j)]
    BY <1>1
  <2>4. [j \in Keys |-> record'[j].body] =
          [[j \in Keys |-> record[j].body] EXCEPT ![k] = "none"]
    BY <2>1
  <2>5. [j \in Keys |-> record'[j].response] =
          [[j \in Keys |-> record[j].response] EXCEPT ![k] = "none"]
    BY <2>1
  <2>6. Contract!Forget(k)
    BY <2>2, <2>3, <2>4, <2>5 DEF Contract!Forget
  <2>. QED  BY <2>6 DEF Contract!Next
<1>. QED  BY <1>2, <1>3

\* The statements of Begin, executeCreate and Complete keep the contract of a key
\* whichever requests interleave, leave or fail, as long as none outlasts its lease.
THEOREM CreateImplementsContract ==
  ASSUME "slow" \notin Faults PROVE Spec => ImplementsContract
<1>1. Init => AnswersOK
  BY DEF Init, AnswersOK, AnswerOK
<1>2. Init => Contract!Init
  BY DEF Init, Contract!Init, Claimers, NoRecord, NoResponse
<1>3. IInv /\ AnswersOK /\ [Next]_vars => [Contract!Next]_(Contract!vars)
  <2>. SUFFICES ASSUME IInv, AnswersOK, [Next]_vars
                PROVE  Contract!Next \/ UNCHANGED Contract!vars
    OBVIOUS
  <2>1. CASE UNCHANGED vars
    BY <2>1, Unseen DEF Claimers
  <2>2. ASSUME NEW r \in Requests, Serve(r)
        PROVE  Contract!Next \/ UNCHANGED Contract!vars
    BY <2>2, ArriveAsks, ClaimTakes, ReadReplays, TakeOverTakes, ExecutePays,
       CompleteSettles, EndLeaves DEF Serve
  <2>. QED  BY <2>1, <2>2, TimeForgets DEF Next
<1>. QED
  BY <1>1, <1>2, <1>3, AnswersNext, Invariance, PTL
     DEF Spec, ImplementsContract, Contract!Spec
=============================================================================
