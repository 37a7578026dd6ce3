----------------------------- MODULE PaymentSaga -----------------------------
(***************************************************************************)
(* The saga engine of payment-service (internal/saga/saga.go): goroutines  *)
(* drive a payment through fraud screening, funds hold, gateway            *)
(* submission, capture at the processor and capture in the ledger.         *)
(*                                                                         *)
(* A step of a goroutine is one database transaction or one remote call,   *)
(* so every interleaving of two goroutines at those points is a behaviour, *)
(* as is the death of a goroutine between any two of them.  Postgres,      *)
(* account-service and the payment processor are shared state.             *)
(*                                                                         *)
(* Time is not modelled here: a row may be stale whenever a sweeper looks, *)
(* because a goroutine may be delayed for as long as it takes.             *)
(***************************************************************************)
EXTENDS Naturals, Sequences

CONSTANTS
  Payments,   \* payment ids
  Wallets,    \* the payments made with a wallet instrument; the others use a card
  Workers,    \* slots for concurrent goroutines, over all replicas
  Faults,     \* {"crash"}: goroutines may die; {"db"}: transactions may abort
  NoPayment   \* the payment of an idle slot

ASSUME SagaAssumption ==
  /\ Wallets \subseteq Payments
  /\ NoPayment \notin Payments

VARIABLES
  \* Postgres: the payments row, the outbox rows of the payment, processed_events
  status, step, holdId, pspRef, outbox, processed,
  \* goroutines: where each one is, and what it carries
  pc, job,
  \* account-service: the hold of the payment, and who heard payment.failed
  hold, failedSeen,
  \* processor: the authorization, the money taken, and the completion event
  auth, collected, completion

row  == <<status, step, holdId, pspRef, outbox>>
acct == <<hold, failedSeen>>
psp  == <<auth, collected, completion>>
vars == <<row, processed, pc, job, acct, psp>>

-----------------------------------------------------------------------------
(* Types *)

Statuses == {"absent", "processing", "requires_action", "succeeded", "failed"}

Steps == {"absent", "requested", "fraud_screened", "funds_held",
          "submitted_to_gateway", "psp_captured", "captured", "done"}

\* The checkpoint added without its case in Advance.
HandlerForgetsLedger ==
  [s \in {"requested", "fraud_screened", "funds_held", "submitted_to_gateway"} |->
     CASE s = "requested"            -> "fraud"
       [] s = "fraud_screened"       -> "hold"
       [] s = "funds_held"           -> "submit"
       [] s = "submitted_to_gateway" -> "capture"]

\* The handler Advance calls for each step of a payment that is processing.
Handler ==
  [s \in {"requested", "fraud_screened", "funds_held", "submitted_to_gateway",
          "psp_captured"} |->
     CASE s = "requested"            -> "fraud"
       [] s = "fraud_screened"       -> "hold"
       [] s = "funds_held"           -> "submit"
       [] s = "submitted_to_gateway" -> "capture"
       [] s = "psp_captured"         -> "ledger"]

Labels == {"idle", "load", "fraud", "hold", "hold_tx", "submit", "approved_tx",
           "pending_tx", "capture", "capture_tx", "ledger", "ledger_tx",
           "release", "fail_tx", "sweep_load", "stepup_tx",
           "gw_load", "gw_tx", "gw_mark"}

Events == {"requested", "authorized", "captured", "failed"}

\* What a goroutine carries: its payment, the step and hold_id of the row as it
\* loaded them, and whether it returns to the Kafka consumer when it is done.
Jobs == [pay : Payments \union {NoPayment}, step : Steps, holdId : BOOLEAN,
         caller : {"saga", "consumer"}]

Job(p, caller) == [pay |-> p, step |-> "absent", holdId |-> FALSE, caller |-> caller]

NoJob == Job(NoPayment, "saga")

TypeOK ==
  /\ status \in [Payments -> Statuses]
  /\ step \in [Payments -> Steps]
  /\ holdId \in [Payments -> BOOLEAN]
  /\ pspRef \in [Payments -> BOOLEAN]
  /\ outbox \in [Payments -> Seq(Events)]
  /\ processed \subseteq Payments
  /\ pc \in [Workers -> Labels]
  /\ job \in [Workers -> Jobs]
  /\ hold \in [Payments -> {"none", "active", "released", "captured"}]
  /\ failedSeen \subseteq Payments
  /\ auth \in [Payments -> {"none", "pending", "approved", "declined"}]
  /\ collected \in [Payments -> BOOLEAN]
  /\ completion \in [Payments -> {"none", "approved", "declined"}]

Init ==
  /\ status = [p \in Payments |-> "absent"]
  /\ step = [p \in Payments |-> "absent"]
  /\ holdId = [p \in Payments |-> FALSE]
  /\ pspRef = [p \in Payments |-> FALSE]
  /\ outbox = [p \in Payments |-> <<>>]
  /\ processed = {}
  /\ pc = [w \in Workers |-> "idle"]
  /\ job = [w \in Workers |-> NoJob]
  /\ hold = [p \in Payments |-> "none"]
  /\ failedSeen = {}
  /\ auth = [p \in Payments |-> "none"]
  /\ collected = [p \in Payments |-> FALSE]
  /\ completion = [p \in Payments |-> "none"]

-----------------------------------------------------------------------------
(* Moving a goroutine *)

Spawn(w, label, j) ==
  /\ pc[w] = "idle"
  /\ pc' = [pc EXCEPT ![w] = label]
  /\ job' = [job EXCEPT ![w] = j]

Goto(w, label) ==
  /\ pc' = [pc EXCEPT ![w] = label]
  /\ UNCHANGED job

\* Continue at label with a fresh copy of the row of the goroutine's payment.
GotoLoaded(w, label) ==
  LET p == job[w].pay IN
  /\ pc' = [pc EXCEPT ![w] = label]
  /\ job' = [job EXCEPT ![w].step = step[p], ![w].holdId = holdId[p]]

\* Another turn of the loop in Advance.
Again(w) ==
  /\ pc' = [pc EXCEPT ![w] = "load"]
  /\ job' = [job EXCEPT ![w] = Job(@.pay, @.caller)]

Exit(w) ==
  /\ pc' = [pc EXCEPT ![w] = "idle"]
  /\ job' = [job EXCEPT ![w] = NoJob]

\* Advance or failAndCompensate returns; under the consumer, CompleteFromGateway
\* then returns nil and the handler goes on to mark the event.
Return(w) ==
  IF job[w].caller = "consumer"
  THEN /\ pc' = [pc EXCEPT ![w] = "gw_mark"]
       /\ job' = [job EXCEPT ![w] = Job(@.pay, @.caller)]
  ELSE Exit(w)

\* failAndCompensate calls Release only when the loaded row has a hold_id.
Compensate(w, hasHold) == Goto(w, IF hasHold THEN "release" ELSE "fail_tx")

-----------------------------------------------------------------------------
(* Persistence helpers *)

\* A transaction aborts when its update matches no row, or for its own reasons.
Aborts(matches) == ~matches \/ "db" \in Faults

TransitionMatches(w) == step[job[w].pay] = job[w].step

\* update payments set step, status where id and step = p.Step
Transition(w, to, st) ==
  /\ TransitionMatches(w)
  /\ step' = [step EXCEPT ![job[w].pay] = to]
  /\ status' = [status EXCEPT ![job[w].pay] = st]

TransitionWithMatches(w) == status[job[w].pay] = "processing"

\* The status in the where clause forgotten: a late writer always matches.
TransitionWithUnchecked(w, to, st) ==
  /\ step' = [step EXCEPT ![job[w].pay] = to]
  /\ status' = [status EXCEPT ![job[w].pay] = st]

\* update payments set step, status where id and status = 'processing'
TransitionWith(w, to, st) ==
  /\ TransitionWithMatches(w)
  /\ step' = [step EXCEPT ![job[w].pay] = to]
  /\ status' = [status EXCEPT ![job[w].pay] = st]

Emit(p, event) == outbox' = [outbox EXCEPT ![p] = Append(@, event)]

Has(p, event) == \E i \in 1..Len(outbox[p]) : outbox[p][i] = event

-----------------------------------------------------------------------------
(* Advance *)

\* executeCreate inserts the row with its requested event and starts the saga.
CreatePayment(w, p) ==
  /\ status[p] = "absent"
  /\ Spawn(w, "load", Job(p, "saga"))
  /\ status' = [status EXCEPT ![p] = "processing"]
  /\ step' = [step EXCEPT ![p] = "requested"]
  /\ Emit(p, "requested")
  /\ UNCHANGED <<holdId, pspRef, processed, acct, psp>>

\* Advance goes on only with a payment that is processing, at a step it has a
\* handler for, and past submitted_to_gateway only once a psp_reference is known.
Drivable(p) ==
  /\ status[p] = "processing"
  /\ step[p] \in DOMAIN Handler
  /\ step[p] = "submitted_to_gateway" => pspRef[p]

Advance(w) ==
  /\ pc[w] = "load"
  /\ \/ /\ Drivable(job[w].pay)
        /\ GotoLoaded(w, Handler[step[job[w].pay]])
     \/ /\ ~Drivable(job[w].pay) \/ "db" \in Faults
        /\ Return(w)
  /\ UNCHANGED <<row, processed, acct, psp>>

\* Screen has no effect of its own, so the verdict and the transition it leads
\* to are one step.  An outage is a verdict too: approve below the fail-open
\* limit, deny at or above it.
StepFraud(w) ==
  /\ pc[w] = "fraud"
  /\ \/ /\ Transition(w, "fraud_screened", "processing")
        /\ Again(w)
     \/ /\ TransitionWith(w, "fraud_screened", "requires_action")
        /\ Return(w)
     \/ /\ Compensate(w, job[w].holdId)
        /\ UNCHANGED <<status, step>>
     \/ /\ Aborts(TransitionMatches(w)) \/ Aborts(TransitionWithMatches(w))
        /\ Return(w)
        /\ UNCHANGED <<status, step>>
  /\ UNCHANGED <<holdId, pspRef, outbox, processed, acct, psp>>

\* HoldFunds is idempotent by its request id: a repeated call finds the hold.
\* Insufficient funds is an answer too, and never leaves a hold.
StepHold(w) ==
  LET p == job[w].pay IN
  /\ pc[w] = "hold"
  /\ \/ /\ hold' = [hold EXCEPT ![p] = IF @ = "none" THEN "active" ELSE @]
        /\ Goto(w, "hold_tx")
     \/ /\ hold[p] = "none"
        /\ Compensate(w, job[w].holdId)
        /\ UNCHANGED hold
  /\ UNCHANGED <<row, processed, failedSeen, psp>>

\* The call fails or times out, before or after it took effect.
StepHoldFails(w) ==
  LET p == job[w].pay IN
  /\ pc[w] = "hold"
  /\ \/ UNCHANGED hold
     \/ /\ hold[p] = "none"
        /\ hold' = [hold EXCEPT ![p] = "active"]
  /\ Return(w)
  /\ UNCHANGED <<row, processed, failedSeen, psp>>

\* The hold_id is not written with the transition.
HoldTxForgetsId(w) ==
  /\ pc[w] = "hold_tx"
  /\ \/ /\ Transition(w, "funds_held", "processing")
        /\ Again(w)
     \/ /\ Aborts(TransitionMatches(w))
        /\ Return(w)
        /\ UNCHANGED <<status, step>>
  /\ UNCHANGED <<holdId, pspRef, outbox, processed, acct, psp>>

HoldTx(w) ==
  /\ pc[w] = "hold_tx"
  /\ \/ /\ Transition(w, "funds_held", "processing")
        /\ holdId' = [holdId EXCEPT ![job[w].pay] = TRUE]
        /\ Again(w)
     \/ /\ Aborts(TransitionMatches(w))
        /\ Return(w)
        /\ UNCHANGED <<status, step, holdId>>
  /\ UNCHANGED <<pspRef, outbox, processed, acct, psp>>

-----------------------------------------------------------------------------
(* Submission: the processor is idempotent by reference *)

\* What the processor decides when it first sees the payment.
FirstOutcomes(p) == IF p \in Wallets THEN {"pending", "declined"}
                                     ELSE {"approved", "declined"}

\* A repeated Authorize of a wallet may report the stored first answer.
Outcomes(p) == IF auth[p] = "none" THEN FirstOutcomes(p)
               ELSE {auth[p]} \union (IF p \in Wallets /\ auth[p] = "approved"
                                      THEN {"pending"} ELSE {})

AuthorizeRecords(p, outcome) ==
  auth' = [auth EXCEPT ![p] = IF @ = "none" THEN outcome ELSE @]

\* The answer is approved, pending or declined, or a 4xx that is not retried.
StepSubmit(w) ==
  LET p == job[w].pay IN
  /\ pc[w] = "submit"
  /\ \/ /\ "approved" \in Outcomes(p)
        /\ AuthorizeRecords(p, "approved")
        /\ Goto(w, "approved_tx")
     \/ /\ "pending" \in Outcomes(p)
        /\ AuthorizeRecords(p, "pending")
        /\ Goto(w, "pending_tx")
     \/ /\ "declined" \in Outcomes(p)
        /\ AuthorizeRecords(p, "declined")
        /\ Compensate(w, job[w].holdId)
     \/ /\ auth[p] = "none"
        /\ Compensate(w, job[w].holdId)
        /\ UNCHANGED auth
  /\ UNCHANGED <<row, processed, acct, collected, completion>>

\* Unavailable after the retries, or the deadline passed: the row is touched and
\* stays retryable.  The request may have reached the processor all the same.
StepSubmitFails(w) ==
  LET p == job[w].pay IN
  /\ pc[w] = "submit"
  /\ \/ UNCHANGED auth
     \/ \E outcome \in Outcomes(p) : AuthorizeRecords(p, outcome)
  /\ Return(w)
  /\ UNCHANGED <<row, processed, acct, collected, completion>>

\* The event is written outside the transaction.
ApprovedTxEmitsFirst(w) ==
  LET p == job[w].pay IN
  /\ pc[w] = "approved_tx"
  /\ Emit(p, "authorized")
  /\ \/ /\ Transition(w, "submitted_to_gateway", "processing")
        /\ pspRef' = [pspRef EXCEPT ![p] = TRUE]
        /\ Again(w)
     \/ /\ Aborts(TransitionMatches(w))
        /\ Return(w)
        /\ UNCHANGED <<status, step, pspRef>>
  /\ UNCHANGED <<holdId, processed, acct, psp>>

\* The event is written in a transaction of its own, which may abort.
ApprovedTxEmitsApart(w) ==
  LET p == job[w].pay IN
  /\ pc[w] = "approved_tx"
  /\ \/ /\ Transition(w, "submitted_to_gateway", "processing")
        /\ pspRef' = [pspRef EXCEPT ![p] = TRUE]
        /\ \/ Emit(p, "authorized")
           \/ "db" \in Faults /\ UNCHANGED outbox
        /\ Again(w)
     \/ /\ Aborts(TransitionMatches(w))
        /\ Return(w)
        /\ UNCHANGED <<status, step, pspRef, outbox>>
  /\ UNCHANGED <<holdId, processed, acct, psp>>

ApprovedTx(w) ==
  LET p == job[w].pay IN
  /\ pc[w] = "approved_tx"
  /\ \/ /\ Transition(w, "submitted_to_gateway", "processing")
        /\ pspRef' = [pspRef EXCEPT ![p] = TRUE]
        /\ Emit(p, "authorized")
        /\ Again(w)
     \/ /\ Aborts(TransitionMatches(w))
        /\ Return(w)
        /\ UNCHANGED <<status, step, pspRef, outbox>>
  /\ UNCHANGED <<holdId, processed, acct, psp>>

\* The reference of a pending answer is stored like that of an approval.
PendingTxKeepsRef(w) ==
  /\ pc[w] = "pending_tx"
  /\ \/ /\ Transition(w, "submitted_to_gateway", "processing")
        /\ pspRef' = [pspRef EXCEPT ![job[w].pay] = TRUE]
     \/ /\ Aborts(TransitionMatches(w))
        /\ UNCHANGED <<status, step, pspRef>>
  /\ Return(w)
  /\ UNCHANGED <<holdId, outbox, processed, acct, psp>>

\* A pending wallet keeps no reference: it waits for gateway.psp.completed.v1.
PendingTx(w) ==
  /\ pc[w] = "pending_tx"
  /\ \/ Transition(w, "submitted_to_gateway", "processing")
     \/ /\ Aborts(TransitionMatches(w))
        /\ UNCHANGED <<status, step>>
  /\ Return(w)
  /\ UNCHANGED <<holdId, pspRef, outbox, processed, acct, psp>>

-----------------------------------------------------------------------------
(* Capture: at the processor first, in the ledger second *)

\* The processor takes the money, or refuses to.
StepPSPCapture(w) ==
  LET p == job[w].pay IN
  /\ pc[w] = "capture"
  /\ \/ /\ collected' = [collected EXCEPT ![p] = TRUE]
        /\ Goto(w, "capture_tx")
     \/ /\ ~collected[p]
        /\ Compensate(w, job[w].holdId)
        /\ UNCHANGED collected
  /\ UNCHANGED <<row, processed, acct, auth, completion>>

\* An unavailable processor read as a success.
CaptureFailsContinues(w) ==
  /\ pc[w] = "capture"
  /\ Goto(w, "capture_tx")
  /\ UNCHANGED <<row, processed, acct, psp>>

\* Unavailable, with or without the money taken: touched and retried later.
StepPSPCaptureFails(w) ==
  /\ pc[w] = "capture"
  /\ \/ UNCHANGED collected
     \/ collected' = [collected EXCEPT ![job[w].pay] = TRUE]
  /\ Return(w)
  /\ UNCHANGED <<row, processed, acct, auth, completion>>

CaptureTx(w) ==
  /\ pc[w] = "capture_tx"
  /\ \/ /\ Transition(w, "psp_captured", "processing")
        /\ Again(w)
     \/ /\ Aborts(TransitionMatches(w))
        /\ Return(w)
        /\ UNCHANGED <<status, step>>
  /\ UNCHANGED <<holdId, pspRef, outbox, processed, acct, psp>>

\* CaptureFunds posts an active hold and is idempotent once it has.
StepLedgerCapture(w) ==
  LET p == job[w].pay IN
  /\ pc[w] = "ledger"
  /\ hold[p] \in {"active", "captured"}
  /\ hold' = [hold EXCEPT ![p] = "captured"]
  /\ Goto(w, "ledger_tx")
  /\ UNCHANGED <<row, processed, failedSeen, psp>>

\* A ledger error read as a success.
LedgerFailsContinues(w) ==
  /\ pc[w] = "ledger"
  /\ Goto(w, "ledger_tx")
  /\ UNCHANGED <<row, processed, acct, psp>>

\* Any error, among them a hold that is no longer active: touched and retried.
StepLedgerCaptureFails(w) ==
  LET p == job[w].pay IN
  /\ pc[w] = "ledger"
  /\ \/ UNCHANGED hold
     \/ /\ hold[p] = "active"
        /\ hold' = [hold EXCEPT ![p] = "captured"]
  /\ Return(w)
  /\ UNCHANGED <<row, processed, failedSeen, psp>>

LedgerTx(w) ==
  /\ pc[w] = "ledger_tx"
  /\ \/ /\ TransitionWith(w, "captured", "succeeded")
        /\ Emit(job[w].pay, "captured")
        /\ Again(w)
     \/ /\ Aborts(TransitionWithMatches(w))
        /\ Return(w)
        /\ UNCHANGED <<status, step, outbox>>
  /\ UNCHANGED <<holdId, pspRef, processed, acct, psp>>

-----------------------------------------------------------------------------
(* failAndCompensate *)

\* An error of Release is only logged, and a hold that is not active answers
\* FailedPrecondition, which is no error: either way the failure is recorded.
ReleaseHold(w) ==
  LET p == job[w].pay IN
  /\ pc[w] = "release"
  /\ \/ UNCHANGED hold
     \/ /\ hold[p] = "active"
        /\ hold' = [hold EXCEPT ![p] = "released"]
  /\ Goto(w, "fail_tx")
  /\ UNCHANGED <<row, processed, failedSeen, psp>>

\* The failure is not persisted together with its event.
FailTxSilent(w) ==
  /\ pc[w] = "fail_tx"
  /\ \/ TransitionWith(w, "done", "failed")
     \/ /\ Aborts(TransitionWithMatches(w))
        /\ UNCHANGED <<status, step>>
  /\ Return(w)
  /\ UNCHANGED <<holdId, pspRef, outbox, processed, acct, psp>>

\* The event is written though the update matched no row.
FailTxEmitsAlways(w) ==
  /\ pc[w] = "fail_tx"
  /\ \/ TransitionWith(w, "done", "failed")
     \/ /\ Aborts(TransitionWithMatches(w))
        /\ UNCHANGED <<status, step>>
  /\ Emit(job[w].pay, "failed")
  /\ Return(w)
  /\ UNCHANGED <<holdId, pspRef, processed, acct, psp>>

\* step and status swapped in the call of transitionWith.
FailTxSwapsColumns(w) ==
  /\ pc[w] = "fail_tx"
  /\ \/ /\ TransitionWith(w, "failed", "done")
        /\ Emit(job[w].pay, "failed")
     \/ /\ Aborts(TransitionWithMatches(w))
        /\ UNCHANGED <<status, step, outbox>>
  /\ Return(w)
  /\ UNCHANGED <<holdId, pspRef, processed, acct, psp>>

FailTx(w) ==
  /\ pc[w] = "fail_tx"
  /\ \/ /\ TransitionWith(w, "done", "failed")
        /\ Emit(job[w].pay, "failed")
     \/ /\ Aborts(TransitionWithMatches(w))
        /\ UNCHANGED <<status, step, outbox>>
  /\ Return(w)
  /\ UNCHANGED <<holdId, pspRef, processed, acct, psp>>

-----------------------------------------------------------------------------
(* Sweepers *)

ResumeStale(w, p) ==
  /\ status[p] = "processing"
  /\ Spawn(w, "load", Job(p, "saga"))
  /\ UNCHANGED <<row, processed, acct, psp>>

\* The scans of the two sweepers that compensate.
StuckSubmission(p) ==
  /\ status[p] = "processing"
  /\ step[p] = "funds_held"

\* The scan extended to the payments the ledger has not recorded yet.
StuckCaptureSeesCheckpoint(p) ==
  /\ status[p] = "processing"
  /\ step[p] \in {"submitted_to_gateway", "psp_captured"}
  /\ pspRef[p]

StuckCapture(p) ==
  /\ status[p] = "processing"
  /\ step[p] = "submitted_to_gateway"
  /\ pspRef[p]

ExpireStuckSubmissions(w, p) ==
  /\ StuckSubmission(p)
  /\ Spawn(w, "sweep_load", Job(p, "saga"))
  /\ UNCHANGED <<row, processed, acct, psp>>

ExpireStuckCaptures(w, p) ==
  /\ StuckCapture(p)
  /\ Spawn(w, "sweep_load", Job(p, "saga"))
  /\ UNCHANGED <<row, processed, acct, psp>>

\* The columns of the payments table, and those the wallet sweep filters on:
\* method belongs to instruments, so Postgres refuses the query on every tick.
PaymentColumns ==
  {"id", "user_id", "account_id", "merchant_id", "instrument_id", "amount",
   "currency", "fx_quote_id", "status", "step", "hold_id", "psp_reference",
   "failure_code", "failure_detail", "risk_score", "version", "created_at",
   "updated_at"}

WalletScanColumns ==
  {"id", "status", "step", "method", "psp_reference", "updated_at"}

ExpireStaleWallets(w, p) ==
  IF WalletScanColumns \subseteq PaymentColumns
  THEN /\ p \in Wallets
       /\ status[p] = "processing"
       /\ step[p] = "submitted_to_gateway"
       /\ ~pspRef[p]
       /\ Spawn(w, "sweep_load", Job(p, "saga"))
       /\ UNCHANGED <<row, processed, acct, psp>>
  ELSE UNCHANGED vars

\* Between the scan and this load the payment may have moved; the sweepers do
\* not look again at its status or step.
SweepLoad(w) ==
  LET p == job[w].pay IN
  /\ pc[w] = "sweep_load"
  /\ \/ GotoLoaded(w, IF holdId[p] THEN "release" ELSE "fail_tx")
     \/ /\ "db" \in Faults
        /\ Exit(w)
  /\ UNCHANGED <<row, processed, acct, psp>>

\* One update statement: no hold is released and no event is written.
ExpireStaleRequiresAction(p) ==
  /\ status[p] = "requires_action"
  /\ status' = [status EXCEPT ![p] = "failed"]
  /\ step' = [step EXCEPT ![p] = "done"]
  /\ UNCHANGED <<holdId, pspRef, outbox, processed, pc, job, acct, psp>>

-----------------------------------------------------------------------------
(* Step-up *)

\* The load and check of ResumeAfterStepUp, for the owner with a fresh factor.
ResumeAfterStepUp(w, p) ==
  /\ status[p] = "requires_action"
  /\ Spawn(w, "stepup_tx", [Job(p, "saga") EXCEPT !.step = step[p], !.holdId = holdId[p]])
  /\ UNCHANGED <<row, processed, acct, psp>>

StepUpTx(w) ==
  /\ pc[w] = "stepup_tx"
  /\ \/ /\ Transition(w, "fraud_screened", "processing")
        /\ Again(w)
     \/ /\ Aborts(TransitionMatches(w))
        /\ Exit(w)
        /\ UNCHANGED <<status, step>>
  /\ UNCHANGED <<holdId, pspRef, outbox, processed, acct, psp>>

-----------------------------------------------------------------------------
(* CompleteFromGateway, under the Kafka consumer *)

\* The event is delivered again for as long as it is not in processed_events.
DeliverCompletion(w, p) ==
  /\ completion[p] # "none"
  /\ p \notin processed
  /\ Spawn(w, "gw_load", Job(p, "consumer"))
  /\ UNCHANGED <<row, processed, acct, psp>>

\* A payment that is not waiting for the event is taken for a resolved one.
GatewayLoad(w) ==
  LET p       == job[w].pay
      waiting == status[p] = "processing" /\ step[p] = "submitted_to_gateway"
  IN
  /\ pc[w] = "gw_load"
  /\ \/ /\ waiting /\ completion[p] = "approved"
        /\ GotoLoaded(w, "gw_tx")
     \/ /\ waiting /\ completion[p] = "declined"
        /\ GotoLoaded(w, IF holdId[p] THEN "release" ELSE "fail_tx")
     \/ /\ ~waiting
        /\ Return(w)
     \/ /\ "db" \in Faults
        /\ Exit(w)
  /\ UNCHANGED <<row, processed, acct, psp>>

\* An error here reaches the consumer, which does not mark the event.
GatewayTx(w) ==
  /\ pc[w] = "gw_tx"
  /\ \/ /\ Transition(w, "submitted_to_gateway", "processing")
        /\ pspRef' = [pspRef EXCEPT ![job[w].pay] = TRUE]
        /\ Again(w)
     \/ /\ Aborts(TransitionMatches(w))
        /\ Exit(w)
        /\ UNCHANGED <<status, step, pspRef>>
  /\ UNCHANGED <<holdId, outbox, processed, acct, psp>>

GatewayMark(w) ==
  /\ pc[w] = "gw_mark"
  /\ \/ processed' = processed \union {job[w].pay}
     \/ /\ "db" \in Faults
        /\ UNCHANGED processed
  /\ Exit(w)
  /\ UNCHANGED <<row, acct, psp>>

-----------------------------------------------------------------------------
(* Environment *)

\* The asynchronous processor settles a pending wallet and reports it.
PSPResolves(p) ==
  /\ auth[p] = "pending"
  /\ \E outcome \in {"approved", "declined"} :
       /\ auth' = [auth EXCEPT ![p] = outcome]
       /\ completion' = [completion EXCEPT ![p] = outcome]
  /\ UNCHANGED <<row, processed, pc, job, acct, collected>>

\* account-service consumes payments.payment.failed.v1 once and releases what
\* is still held for the payment.
AccountConsumesFailed(p) ==
  /\ Has(p, "failed")
  /\ p \notin failedSeen
  /\ failedSeen' = failedSeen \union {p}
  /\ hold' = [hold EXCEPT ![p] = IF @ = "active" THEN "released" ELSE @]
  /\ UNCHANGED <<row, processed, pc, job, psp>>

\* A goroutine dies where it stands; a whole replica dies as several of these.
Crash(w) ==
  /\ "crash" \in Faults
  /\ pc[w] # "idle"
  /\ Exit(w)
  /\ UNCHANGED <<row, processed, acct, psp>>

-----------------------------------------------------------------------------
(* Specification *)

\* What goroutine w does next, when the remote side answers or need not.
Drive(w) ==
  \/ Advance(w)       \/ StepFraud(w)
  \/ StepHold(w)      \/ HoldTx(w)
  \/ StepSubmit(w)    \/ ApprovedTx(w)       \/ PendingTx(w)
  \/ StepPSPCapture(w) \/ CaptureTx(w)
  \/ StepLedgerCapture(w) \/ LedgerTx(w)
  \/ ReleaseHold(w)   \/ FailTx(w)
  \/ SweepLoad(w)     \/ StepUpTx(w)
  \/ GatewayLoad(w)   \/ GatewayTx(w)        \/ GatewayMark(w)

CallFails(w) ==
  \/ StepHoldFails(w) \/ StepSubmitFails(w)
  \/ StepPSPCaptureFails(w) \/ StepLedgerCaptureFails(w)

Start(w, p) ==
  \/ CreatePayment(w, p)
  \/ ResumeStale(w, p)
  \/ ExpireStuckSubmissions(w, p)
  \/ ExpireStuckCaptures(w, p)
  \/ ExpireStaleWallets(w, p)
  \/ ResumeAfterStepUp(w, p)
  \/ DeliverCompletion(w, p)

Environment(p) ==
  \/ ExpireStaleRequiresAction(p)
  \/ PSPResolves(p)
  \/ AccountConsumesFailed(p)

Next ==
  \/ \E w \in Workers : Drive(w) \/ CallFails(w) \/ Crash(w)
  \/ \E w \in Workers, p \in Payments : Start(w, p)
  \/ \E p \in Payments : Environment(p)

Spec == Init /\ [][Next]_vars

\* What the Go runtime and Postgres see to: a goroutine that can go on does.
GoesOn(w) ==
  \/ Advance(w)    \/ StepFraud(w)  \/ HoldTx(w)      \/ ApprovedTx(w)
  \/ PendingTx(w)  \/ CaptureTx(w)  \/ LedgerTx(w)    \/ ReleaseHold(w)
  \/ FailTx(w)     \/ SweepLoad(w)  \/ StepUpTx(w)
  \/ GatewayLoad(w) \/ GatewayTx(w) \/ GatewayMark(w)

\* Each ticker of the server fires for ever, so a sweeper whose query keeps
\* finding the payment gets a goroutine for it (strong fairness: the slots of
\* the model are few, those of the server are not).  A service that is called
\* again and again answers in the end, and account-service consumes the events.
Fairness ==
  /\ \A w \in Workers :
       /\ WF_vars(GoesOn(w))
       /\ SF_vars(StepHold(w)) /\ SF_vars(StepSubmit(w))
       /\ SF_vars(StepPSPCapture(w)) /\ SF_vars(StepLedgerCapture(w))
  /\ \A p \in Payments :
       /\ SF_vars(\E w \in Workers : ResumeStale(w, p))
       /\ SF_vars(\E w \in Workers : ExpireStaleWallets(w, p))
       /\ WF_vars(ExpireStaleRequiresAction(p))
       /\ WF_vars(AccountConsumesFailed(p))

FairSpec == Spec /\ Fairness

-----------------------------------------------------------------------------
(* Properties of every interleaving *)

Terminal == {"succeeded", "failed"}

Occurrences(p, event) == {i \in 1..Len(outbox[p]) : outbox[p][i] = event}

\* The ledger never books money the processor has not taken (stepPSPCapture
\* comes before stepLedgerCapture; reconcile.go relies on it).
BookedImpliesCollected ==
  \A p \in Payments : hold[p] = "captured" => collected[p]

\* A customer told "succeeded" was charged and the charge is booked, whichever
\* goroutine of several wrote the status (terminalTx in stepLedgerCapture).
SucceededIsBooked ==
  \A p \in Payments :
    status[p] = "succeeded" => hold[p] = "captured" /\ collected[p]

\* Money is taken only under an authorization the processor approved, also when
\* a wallet's outcome comes by Kafka (the psp_reference guard of Advance).
CollectedWasAuthorized ==
  \A p \in Payments : collected[p] => auth[p] = "approved"

\* Money is taken only once its authorization has been announced, by the service in
\* payments.payment.authorized.v1 or by the processor in gateway.psp.completed.v1:
\* a goroutine that died between the answer and the event, or one that was
\* overtaken, never leads to a capture nobody heard of (stepSubmit, the
\* psp_reference guard of Advance).
CollectedWasAnnounced ==
  \A p \in Payments :
    collected[p] => Has(p, "authorized") \/ completion[p] = "approved"

\* stepLedgerCapture dereferences p.HoldID without a check: every path to
\* psp_captured, also one that went back through requires_action, stored it.
HoldIdKnown ==
  \A w \in Workers : pc[w] = "ledger" => job[w].holdId

\* The outbox of a payment opens with its request, says at most once how the
\* payment ended, as the last thing it says, and says what the row says.
OutboxTellsTheOutcome ==
  \A p \in Payments :
    /\ outbox[p] # <<>> => outbox[p][1] = "requested"
    /\ \A i \in 1..Len(outbox[p]) :
         outbox[p][i] \in {"captured", "failed"} => i = Len(outbox[p])
    /\ Has(p, "captured") <=> status[p] = "succeeded"
    /\ Has(p, "failed") => status[p] = "failed"

\* A goroutine that slept through the end of a payment cannot change the ending
\* (the where clauses of transition and transitionWith).
TerminalIsFinal ==
  [][\A p \in Payments :
       status[p] \in Terminal => status'[p] = status[p] /\ step'[p] = step[p]]_vars

\* The lifecycle of a payment as the rest of the system sees it.
Lifecycle == INSTANCE PaymentLifecycle WITH
  collected <- {p \in Payments : collected[p]},
  booked    <- {p \in Payments : hold[p] = "captured"},
  announced <- [p \in Payments |-> {e \in {"captured", "failed"} : Has(p, e)}]

\* Every interleaving of the saga's goroutines is a behaviour of the lifecycle:
\* collect, then book, then succeed, and announce an ending in the same step.
ImplementsLifecycle == Lifecycle!Spec

-----------------------------------------------------------------------------
(* Properties of a payment driven by one goroutine at a time *)

\* A payment that failed did not credit the merchant, even when the goroutine
\* that booked it died before it could say so (stepLedgerCapture).
FailedNotBooked ==
  \A p \in Payments : status[p] = "failed" => hold[p] # "captured"

\* payments.payment.authorized.v1 is announced once however often the submission
\* is retried (transition and outbox.Write share a transaction in stepSubmit).
AuthorizedAnnouncedOnce ==
  \A p \in Payments : \A i, j \in Occurrences(p, "authorized") : i = j

\* Every card payment reaches an end or asks for a second factor and is expired
\* (the loop of Advance, ResumeStale, ExpireStaleRequiresAction).
CardSettles ==
  \A p \in Payments \ Wallets : status[p] = "processing" ~> status[p] \in Terminal

\* The funds of a failed payment are freed in the end, also when the direct
\* release failed (failAndCompensate and its event-driven fallback).
FailedFreesFunds ==
  \A p \in Payments : status[p] = "failed" ~> hold[p] \in {"none", "released"}

-----------------------------------------------------------------------------
(* What the comments say and the code does not keep *)

\* "never resume a payment that is not actually waiting on the challenge": only
\* StepUpTx takes a payment from requires_action back to processing.
StepUpNotBypassed ==
  [][\A p \in Payments :
       status[p] = "requires_action" /\ status'[p] = "processing" =>
         \E w \in Workers : pc[w] = "stepup_tx" /\ job[w].pay = p /\ pc'[w] = "load"]_vars

\* "past this point the hold must never be released": at psp_captured the hold
\* is there for the ledger to capture.
HoldKeptAtCheckpoint ==
  \A p \in Payments : step[p] = "psp_captured" => hold[p] # "released"

\* An event is consumed only when its outcome is durably applied: the approval
\* of a payment still processing has left its reference in the row.
ApprovalAppliedBeforeMark ==
  [][\A p \in processed' \ processed :
       completion[p] = "approved" /\ status[p] = "processing" => pspRef[p]]_vars
=============================================================================
