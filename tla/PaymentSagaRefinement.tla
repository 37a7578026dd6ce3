------------------------ MODULE PaymentSagaRefinement ------------------------
(***************************************************************************)
(* PaymentSaga implements PaymentLifecycle, and its outbox tells how each  *)
(* payment ended and what was announced before money was taken, for any    *)
(* payments, any number of goroutines and any faults.                      *)
(***************************************************************************)
EXTENDS PaymentSagaProofs, SequenceTheorems

-----------------------------------------------------------------------------
(* The outbox *)

\* How one step may move the status of a payment, with the event it writes.
StatusMoves(p) ==
  \/ /\ outbox'[p] = outbox[p]
     /\ \/ status'[p] = status[p]
        \/ {status[p], status'[p]} \subseteq {"processing", "requires_action"}
        \/ status[p] = "requires_action" /\ status'[p] = "failed"
  \/ /\ outbox'[p] = Append(outbox[p], "requested")
     /\ status[p] = "absent" /\ status'[p] = "processing"
  \/ /\ outbox'[p] = Append(outbox[p], "authorized")
     /\ status[p] = "processing" /\ status'[p] = "processing"
  \/ /\ outbox'[p] = Append(outbox[p], "captured")
     /\ status[p] = "processing" /\ status'[p] = "succeeded"
  \/ /\ outbox'[p] = Append(outbox[p], "failed")
     /\ status[p] = "processing" /\ status'[p] = "failed"

\* OutboxTellsTheOutcome for one payment, and that its first row comes with the
\* payment itself.
OutboxOK(p) ==
  /\ outbox[p] = <<>> <=> status[p] = "absent"
  /\ outbox[p] # <<>> => outbox[p][1] = "requested"
  /\ \A i \in 1..Len(outbox[p]) :
       outbox[p][i] \in {"captured", "failed"} => i = Len(outbox[p])
  /\ Has(p, "captured") <=> status[p] = "succeeded"
  /\ Has(p, "failed") => status[p] = "failed"

LEMMA AppendFacts ==
  ASSUME NEW s \in Seq(Events), NEW e \in Events
  PROVE  /\ Len(Append(s, e)) = Len(s) + 1
         /\ Append(s, e)[Len(s) + 1] = e
         /\ \A i \in 1..Len(s) : Append(s, e)[i] = s[i]
         /\ Append(s, e) # <<>>
         /\ Len(s) \in Nat
         /\ s # <<>> => 1 \in 1..Len(s)
         /\ s = <<>> => Len(s) = 0
<1>1. /\ Len(Append(s, e)) = Len(s) + 1
      /\ Append(s, e)[Len(s) + 1] = e
      /\ \A i \in 1..Len(s) : Append(s, e)[i] = s[i]
      /\ Append(s, e) # <<>>
  BY AppendProperties
<1>2. s # <<>> => 1 \in 1..Len(s)
  BY EmptySeq
<1>3. Len(s) \in Nat /\ (s = <<>> => Len(s) = 0)
  OBVIOUS
<1>. QED  BY <1>1, <1>2, <1>3

\* After an append the outbox has what it had and the new event.
LEMMA HasAfterAppend ==
  ASSUME NEW p \in Payments, outbox[p] \in Seq(Events), NEW e \in Events,
         outbox'[p] = Append(outbox[p], e), NEW f
  PROVE  Has(p, f)' <=> Has(p, f) \/ f = e
<1>1. Has(p, f) \/ f = e => Has(p, f)'
  BY AppendFacts DEF Has
<1>2. Has(p, f)' => Has(p, f) \/ f = e
  BY AppendFacts DEF Has
<1>. QED  BY <1>1, <1>2

\* A move keeps the outbox in agreement with the status.
LEMMA MoveKeepsOutbox ==
  ASSUME TypeOK, NEW p \in Payments, OutboxOK(p), StatusMoves(p)
  PROVE  OutboxOK(p)'
<1>. outbox[p] \in Seq(Events) /\ status[p] \in Statuses
  BY DEF TypeOK
<1>1. CASE outbox'[p] = outbox[p]
  BY <1>1 DEF StatusMoves, OutboxOK, Has
<1>2. ASSUME NEW e \in Events, outbox'[p] = Append(outbox[p], e),
             status[p] \in {"absent", "processing"},
             e = "requested" <=> status[p] = "absent",
             status'[p] # "absent",
             e = "captured" <=> status'[p] = "succeeded",
             e = "failed" <=> status'[p] = "failed"
      PROVE  OutboxOK(p)'
  <2>1. outbox'[p] # <<>>
    BY <1>2, AppendFacts
  <2>2. outbox'[p][1] = "requested"
    BY <1>2, AppendFacts DEF OutboxOK
  <2>3. ~Has(p, "captured") /\ ~Has(p, "failed")
    BY <1>2 DEF OutboxOK
  <2>4. \A i \in 1..Len(outbox'[p]) :
          outbox'[p][i] \in {"captured", "failed"} => i = Len(outbox'[p])
    BY <1>2, <2>3, AppendFacts DEF Has
  <2>5. /\ Has(p, "captured")' <=> e = "captured"
        /\ Has(p, "failed")' <=> e = "failed"
    BY <1>2, <2>3, HasAfterAppend
  <2>. QED  BY <1>2, <2>1, <2>2, <2>4, <2>5 DEF OutboxOK
<1>3. CASE outbox'[p] # outbox[p]
  BY <1>2, <1>3 DEF StatusMoves, Events
<1>. QED  BY <1>1, <1>3

-----------------------------------------------------------------------------
(* Steps of the lifecycle *)

\* The state of the lifecycle, as the saga determines it.
Taken     == {p \in Payments : collected[p]}
Booked    == {p \in Payments : hold[p] = "captured"}
Announced == [p \in Payments |-> {e \in {"captured", "failed"} : Has(p, e)}]

\* What is shown of every step of the saga.
Implements ==
  /\ [Lifecycle!Next]_(Lifecycle!vars)
  /\ \A p \in Payments : StatusMoves(p)

LEMMA LifecycleStep ==
  ASSUME NEW p \in Payments,
         \/ UNCHANGED <<status, Taken, Booked, Announced>>
         \/ /\ UNCHANGED <<Taken, Booked>>
            /\ \/ /\ UNCHANGED Announced
                  /\ \E from \in Statuses, to \in Statuses :
                       /\ <<from, to>> \in {<<"absent", "processing">>,
                                            <<"processing", "requires_action">>,
                                            <<"requires_action", "processing">>,
                                            <<"requires_action", "failed">>}
                       /\ status[p] = from
                       /\ status' = [status EXCEPT ![p] = to]
               \/ /\ status[p] = "processing"
                  /\ \/ /\ p \in Booked
                        /\ status' = [status EXCEPT ![p] = "succeeded"]
                        /\ Announced' = [Announced EXCEPT ![p] = @ \union {"captured"}]
                     \/ /\ status' = [status EXCEPT ![p] = "failed"]
                        /\ Announced' = [Announced EXCEPT ![p] = @ \union {"failed"}]
         \/ /\ UNCHANGED <<status, Announced>>
            /\ \/ /\ status[p] # "absent"
                  /\ Taken' = Taken \union {p}
                  /\ UNCHANGED Booked
               \/ /\ p \in Taken
                  /\ Booked' = Booked \union {p}
                  /\ UNCHANGED Taken
  PROVE  [Lifecycle!Next]_(Lifecycle!vars)
BY DEF Taken, Booked, Announced, Lifecycle!vars, Lifecycle!Next, Lifecycle!Create,
       Lifecycle!Park, Lifecycle!Unpark, Lifecycle!Collect, Lifecycle!Book,
       Lifecycle!Succeed, Lifecycle!Fail, Lifecycle!Expire, Lifecycle!Moves,
       Lifecycle!Announces

LEMMA OutboxUnchanged ==
  ASSUME UNCHANGED outbox PROVE UNCHANGED Announced
BY DEF Announced, Has

LEMMA EmitAnnounces ==
  ASSUME RowTypes, NEW p \in Payments, NEW e \in Events, Emit(p, e)
  PROVE  Announced' = [Announced EXCEPT ![p] = @ \union ({e} \cap {"captured", "failed"})]
<1>1. \A q \in Payments : q # p => outbox'[q] = outbox[q]
  BY DEF RowTypes, Emit
<1>2. outbox'[p] = Append(outbox[p], e) /\ outbox[p] \in Seq(Events)
  BY DEF RowTypes, Emit
<1>3. \A q \in Payments \ {p} : \A f : Has(q, f)' <=> Has(q, f)
  BY <1>1 DEF Has
<1>4. \A f : Has(p, f)' <=> Has(p, f) \/ f = e
  BY <1>2, HasAfterAppend
<1>. QED  BY <1>3, <1>4 DEF Announced

-----------------------------------------------------------------------------
(* Classes of steps *)

\* A step that leaves the status, the outbox and the money where they are.
Quiet ==
  /\ UNCHANGED <<status, outbox, collected>>
  /\ \A p \in Payments : hold'[p] = "captured" <=> hold[p] = "captured"

LEMMA QuietImplements == ASSUME Quiet PROVE Implements
<1>1. UNCHANGED <<status, Taken, Booked, Announced>>
  BY OutboxUnchanged DEF Quiet, Taken, Booked
<1>2. [Lifecycle!Next]_(Lifecycle!vars)
  BY <1>1 DEF Taken, Booked, Announced, Lifecycle!vars
<1>. QED  BY <1>2 DEF Implements, Quiet, StatusMoves

\* The row of p moves and no money does.
RowMoves(p, from, to) ==
  /\ status[p] = from
  /\ status' = [status EXCEPT ![p] = to]
  /\ UNCHANGED <<collected, hold>>

LEMMA RowTypesHold == ASSUME IInv PROVE RowTypes /\ RemoteTypes /\ JobTypes
BY TypeParts DEF IInv

\* A move without an event that says how the payment ended.
LEMMA MoveImplements ==
  ASSUME IInv, NEW p \in Payments,
         NEW from \in {"processing", "requires_action"},
         NEW to \in {"processing", "requires_action"},
         RowMoves(p, from, to),
         \/ UNCHANGED outbox
         \/ from = "processing" /\ to = "processing" /\ Emit(p, "authorized")
  PROVE  Implements
<1>1. UNCHANGED <<Taken, Booked>>
  BY DEF RowMoves, Taken, Booked
<1>2. UNCHANGED Announced
  BY RowTypesHold, OutboxUnchanged, EmitAnnounces DEF Events, Announced
<1>3. [Lifecycle!Next]_(Lifecycle!vars)
  <2>1. CASE from = to
    <3>1. status' = status
      BY <2>1, RowTypesHold DEF RowTypes, RowMoves
    <3>. QED  BY <1>1, <1>2, <3>1, LifecycleStep
  <2>2. CASE from # to
    <3>1. <<from, to>> \in {<<"processing", "requires_action">>,
                            <<"requires_action", "processing">>}
      BY <2>2
    <3>2. from \in Statuses /\ to \in Statuses
      BY DEF Statuses
    <3>. QED  BY <1>1, <1>2, <3>1, <3>2, LifecycleStep DEF RowMoves
  <2>. QED  BY <2>1, <2>2
<1>4. ASSUME NEW q \in Payments PROVE StatusMoves(q)
  <2>1. CASE q = p
    BY <2>1, RowTypesHold DEF RowTypes, RowMoves, Emit, StatusMoves
  <2>2. CASE q # p
    BY <2>2, RowTypesHold DEF RowTypes, RowMoves, Emit, StatusMoves
  <2>. QED  BY <2>1, <2>2
<1>. QED  BY <1>3, <1>4 DEF Implements

\* A payment ends with its event.
LEMMA EndingImplements ==
  ASSUME IInv, NEW p \in Payments, NEW to \in {"succeeded", "failed"},
         RowMoves(p, "processing", to),
         to = "succeeded" => hold[p] = "captured",
         Emit(p, IF to = "succeeded" THEN "captured" ELSE "failed")
  PROVE  Implements
<1>1. UNCHANGED <<Taken, Booked>>
  BY DEF RowMoves, Taken, Booked
<1>2. CASE to = "succeeded"
  <2>1. Announced' = [Announced EXCEPT ![p] = @ \union {"captured"}]
    BY <1>2, RowTypesHold, EmitAnnounces DEF Events
  <2>2. p \in Booked
    BY <1>2 DEF Booked
  <2>3. [Lifecycle!Next]_(Lifecycle!vars)
    BY <1>1, <1>2, <2>1, <2>2, LifecycleStep DEF RowMoves
  <2>4. \A q \in Payments : StatusMoves(q)
    BY <1>2, RowTypesHold DEF RowTypes, RowMoves, Emit, StatusMoves
  <2>. QED  BY <2>3, <2>4 DEF Implements
<1>3. CASE to = "failed"
  <2>1. Announced' = [Announced EXCEPT ![p] = @ \union {"failed"}]
    BY <1>3, RowTypesHold, EmitAnnounces DEF Events
  <2>2. [Lifecycle!Next]_(Lifecycle!vars)
    BY <1>1, <1>3, <2>1, LifecycleStep DEF RowMoves
  <2>3. \A q \in Payments : StatusMoves(q)
    BY <1>3, RowTypesHold DEF RowTypes, RowMoves, Emit, StatusMoves
  <2>. QED  BY <2>2, <2>3 DEF Implements
<1>. QED  BY <1>2, <1>3

\* A payment begins, or a parked one expires.
LEMMA EdgeImplements ==
  ASSUME IInv, NEW p \in Payments,
         \/ RowMoves(p, "absent", "processing") /\ Emit(p, "requested")
         \/ RowMoves(p, "requires_action", "failed") /\ UNCHANGED outbox
  PROVE  Implements
<1>1. UNCHANGED <<Taken, Booked>>
  BY DEF RowMoves, Taken, Booked
<1>2. UNCHANGED Announced
  BY RowTypesHold, OutboxUnchanged, EmitAnnounces DEF Events, Announced
<1>3. [Lifecycle!Next]_(Lifecycle!vars)
  BY <1>1, <1>2, LifecycleStep DEF RowMoves, Statuses
<1>4. \A q \in Payments : StatusMoves(q)
  BY RowTypesHold DEF RowTypes, RowMoves, Emit, StatusMoves
<1>. QED  BY <1>3, <1>4 DEF Implements

\* Money moves and the row does not.
LEMMA MoneyImplements ==
  ASSUME IInv, NEW p \in Payments, UNCHANGED <<status, outbox>>,
         \/ /\ status[p] # "absent"
            /\ collected' = [collected EXCEPT ![p] = TRUE]
            /\ UNCHANGED hold
         \/ /\ collected[p]
            /\ hold' = [hold EXCEPT ![p] = "captured"]
            /\ UNCHANGED collected
  PROVE  Implements
<1>1. \/ status[p] # "absent" /\ Taken' = Taken \union {p} /\ UNCHANGED Booked
      \/ p \in Taken /\ Booked' = Booked \union {p} /\ UNCHANGED Taken
  BY RowTypesHold DEF RemoteTypes, Taken, Booked
<1>2. [Lifecycle!Next]_(Lifecycle!vars)
  BY <1>1, OutboxUnchanged, LifecycleStep
<1>. QED  BY <1>2 DEF Implements, StatusMoves

-----------------------------------------------------------------------------
(* Every step is of one of the classes *)

USE DEF row, acct, psp

LEMMA WorkerFacts ==
  ASSUME IInv, NEW w \in Workers, pc[w] # "idle"
  PROVE  job[w].pay \in Payments /\ WorkerOK(w) /\ RowOK(job[w].pay)
BY DEF IInv, WorkerOK

\* The status of a payment whose step is one the handlers start from.
LEMMA StatusAtStep ==
  ASSUME IInv, NEW p \in Payments
  PROVE  /\ step[p] \in {"requested", "funds_held", "submitted_to_gateway",
                         "psp_captured"} => status[p] = "processing"
         /\ step[p] = "fraud_screened" => status[p] \in {"processing", "requires_action"}
BY RowTypesHold DEF IInv, RowOK, RowTypes, Statuses

LEMMA ScreeningImplements ==
  ASSUME IInv, NEW w \in Workers, StepFraud(w) PROVE Implements
<1>. DEFINE p == job[w].pay
<1>1. p \in Payments /\ job[w].step = "requested"
  BY WorkerFacts DEF WorkerOK, StepFraud
<1>2. CASE Transition(w, "fraud_screened", "processing")
  <2>1. RowMoves(p, "processing", "processing")
    BY <1>1, <1>2, StatusAtStep DEF RowMoves, StepFraud, Transition, TransitionMatches
  <2>. QED  BY <1>1, <2>1, MoveImplements DEF StepFraud
<1>3. CASE TransitionWith(w, "fraud_screened", "requires_action")
  <2>1. RowMoves(p, "processing", "requires_action")
    BY <1>3 DEF RowMoves, StepFraud, TransitionWith, TransitionWithMatches
  <2>. QED  BY <1>1, <2>1, MoveImplements DEF StepFraud
<1>4. CASE UNCHANGED <<status, step>>
  <2>1. Quiet
    BY <1>4 DEF StepFraud, Quiet
  <2>. QED  BY <2>1, QuietImplements
<1>. QED  BY <1>2, <1>3, <1>4 DEF StepFraud

\* The transactions that write the next step of a payment that goes on.
LEMMA ForwardImplements ==
  ASSUME IInv, NEW w \in Workers,
         \/ HoldTx(w) \/ ApprovedTx(w) \/ PendingTx(w) \/ CaptureTx(w)
         \/ StepUpTx(w) \/ GatewayTx(w)
  PROVE  Implements
<1>. DEFINE p == job[w].pay
<1>1. p \in Payments
  BY WorkerFacts DEF HoldTx, ApprovedTx, PendingTx, CaptureTx, StepUpTx, GatewayTx
<1>2. UNCHANGED <<collected, hold>>
  BY DEF HoldTx, ApprovedTx, PendingTx, CaptureTx, StepUpTx, GatewayTx
<1>3. CASE UNCHANGED <<status, outbox>>
  BY <1>2, <1>3, QuietImplements DEF Quiet
<1>4. CASE ApprovedTx(w) /\ status' = [status EXCEPT ![p] = "processing"]
                         /\ step[p] = job[w].step /\ Emit(p, "authorized")
  <2>1. RowMoves(p, "processing", "processing")
    BY <1>1, <1>2, <1>4, WorkerFacts, StatusAtStep DEF RowMoves, WorkerOK, ApprovedTx
  <2>. QED  BY <1>1, <1>4, <2>1, MoveImplements
<1>5. CASE /\ HoldTx(w) \/ PendingTx(w) \/ CaptureTx(w) \/ StepUpTx(w) \/ GatewayTx(w)
           /\ status' = [status EXCEPT ![p] = "processing"] /\ step[p] = job[w].step
           /\ UNCHANGED outbox
  <2>1. step[p] \in {"fraud_screened", "funds_held", "submitted_to_gateway"}
    BY <1>5, WorkerFacts
       DEF WorkerOK, HoldTx, PendingTx, CaptureTx, StepUpTx, GatewayTx
  <2>2. PICK from \in {"processing", "requires_action"} : status[p] = from
    BY <1>1, <2>1, StatusAtStep
  <2>3. RowMoves(p, from, "processing")
    BY <1>2, <1>5, <2>2 DEF RowMoves
  <2>. QED  BY <1>1, <1>5, <2>3, MoveImplements
<1>. QED
  BY <1>3, <1>4, <1>5
     DEF HoldTx, ApprovedTx, PendingTx, CaptureTx, StepUpTx, GatewayTx,
         Transition, TransitionMatches

\* A goroutine loads, calls a service that moves no money, or dies.
LEMMA QuietDrives ==
  ASSUME IInv, NEW w \in Workers,
         \/ Advance(w) \/ StepHold(w) \/ StepHoldFails(w) \/ StepSubmit(w)
         \/ StepSubmitFails(w) \/ ReleaseHold(w) \/ SweepLoad(w) \/ GatewayLoad(w)
         \/ GatewayMark(w) \/ Crash(w)
  PROVE  Implements
<1>1. UNCHANGED <<status, outbox, collected>>
  BY DEF Advance, StepHold, StepHoldFails, StepSubmit, StepSubmitFails, ReleaseHold,
         SweepLoad, GatewayLoad, GatewayMark, Crash
<1>2. CASE StepHold(w) \/ StepHoldFails(w) \/ ReleaseHold(w)
  <2>1. \A q \in Payments : hold'[q] = "captured" <=> hold[q] = "captured"
    BY <1>2, WorkerFacts, RowTypesHold
       DEF RemoteTypes, StepHold, StepHoldFails, ReleaseHold
  <2>. QED  BY <1>1, <2>1, QuietImplements DEF Quiet
<1>3. CASE UNCHANGED hold
  BY <1>1, <1>3, QuietImplements DEF Quiet
<1>. QED
  BY <1>2, <1>3
     DEF Advance, StepSubmit, StepSubmitFails, SweepLoad, GatewayLoad, GatewayMark, Crash

LEMMA CaptureImplements ==
  ASSUME IInv, NEW w \in Workers,
         \/ StepPSPCapture(w) \/ StepPSPCaptureFails(w)
         \/ StepLedgerCapture(w) \/ StepLedgerCaptureFails(w)
  PROVE  Implements
<1>. DEFINE p == job[w].pay
<1>1. p \in Payments /\ WorkerOK(w) /\ UNCHANGED <<status, outbox>>
  BY WorkerFacts
     DEF StepPSPCapture, StepPSPCaptureFails, StepLedgerCapture, StepLedgerCaptureFails
<1>2. CASE UNCHANGED <<collected, hold>>
  BY <1>1, <1>2, QuietImplements DEF Quiet
<1>3. CASE pc[w] = "capture" /\ collected' = [collected EXCEPT ![p] = TRUE] /\ UNCHANGED hold
  <2>1. status[p] # "absent"
    BY <1>1, <1>3 DEF WorkerOK
  <2>. QED  BY <1>1, <1>3, <2>1, MoneyImplements
<1>4. CASE pc[w] = "ledger" /\ hold' = [hold EXCEPT ![p] = "captured"] /\ UNCHANGED collected
  <2>1. collected[p]
    BY <1>1, <1>4 DEF WorkerOK
  <2>. QED  BY <1>1, <1>4, <2>1, MoneyImplements
<1>. QED
  BY <1>2, <1>3, <1>4
     DEF StepPSPCapture, StepPSPCaptureFails, StepLedgerCapture, StepLedgerCaptureFails

LEMMA OutcomeImplements ==
  ASSUME IInv, NEW w \in Workers, LedgerTx(w) \/ FailTx(w) PROVE Implements
<1>. DEFINE p == job[w].pay
<1>1. p \in Payments /\ WorkerOK(w) /\ UNCHANGED <<collected, hold>>
  BY WorkerFacts DEF LedgerTx, FailTx
<1>2. CASE UNCHANGED <<status, outbox>>
  BY <1>1, <1>2, QuietImplements DEF Quiet
<1>3. CASE pc[w] = "ledger_tx" /\ TransitionWith(w, "captured", "succeeded")
                               /\ Emit(p, "captured")
  <2>1. RowMoves(p, "processing", "succeeded") /\ hold[p] = "captured"
    BY <1>1, <1>3 DEF RowMoves, TransitionWith, TransitionWithMatches, WorkerOK
  <2>. QED  BY <1>1, <1>3, <2>1, EndingImplements
<1>4. CASE TransitionWith(w, "done", "failed") /\ Emit(p, "failed")
  <2>1. RowMoves(p, "processing", "failed")
    BY <1>1, <1>4 DEF RowMoves, TransitionWith, TransitionWithMatches
  <2>. QED  BY <1>1, <1>4, <2>1, EndingImplements
<1>. QED  BY <1>2, <1>3, <1>4 DEF LedgerTx, FailTx

LEMMA StartImplements ==
  ASSUME IInv, NEW w \in Workers, NEW p \in Payments, Start(w, p)
  PROVE  Implements
<1>1. CASE CreatePayment(w, p)
  <2>1. RowMoves(p, "absent", "processing") /\ Emit(p, "requested")
    BY <1>1 DEF CreatePayment, RowMoves
  <2>. QED  BY <2>1, EdgeImplements
<1>2. CASE ~CreatePayment(w, p)
  <2>1. UNCHANGED <<status, outbox, collected, hold>>
    BY <1>2 DEF Start, ResumeStale, ExpireStuckSubmissions, ExpireStuckCaptures,
                ExpireStaleWallets, ResumeAfterStepUp, DeliverCompletion, vars
  <2>. QED  BY <2>1, QuietImplements DEF Quiet
<1>. QED  BY <1>1, <1>2

LEMMA EnvironmentImplements ==
  ASSUME IInv, NEW p \in Payments, Environment(p) PROVE Implements
<1>1. CASE ExpireStaleRequiresAction(p)
  <2>1. RowMoves(p, "requires_action", "failed") /\ UNCHANGED outbox
    BY <1>1 DEF ExpireStaleRequiresAction, RowMoves
  <2>. QED  BY <2>1, EdgeImplements
<1>2. CASE PSPResolves(p) \/ AccountConsumesFailed(p)
  <2>1. UNCHANGED <<status, outbox, collected>>
    BY <1>2 DEF PSPResolves, AccountConsumesFailed
  <2>2. \A q \in Payments : hold'[q] = "captured" <=> hold[q] = "captured"
    BY <1>2, RowTypesHold DEF RemoteTypes, PSPResolves, AccountConsumesFailed
  <2>. QED  BY <2>1, <2>2, QuietImplements DEF Quiet
<1>. QED  BY <1>1, <1>2 DEF Environment

LEMMA NextImplements ==
  ASSUME IInv, [Next]_vars PROVE Implements
<1>1. CASE UNCHANGED vars
  BY <1>1, QuietImplements DEF Quiet, vars
<1>2. ASSUME NEW w \in Workers, Drive(w) \/ CallFails(w) \/ Crash(w) PROVE Implements
  BY <1>2, QuietDrives, ScreeningImplements, ForwardImplements, CaptureImplements,
     OutcomeImplements DEF Drive, CallFails
<1>. QED  BY <1>1, <1>2, StartImplements, EnvironmentImplements DEF Next

-----------------------------------------------------------------------------
(* Theorems *)

LEMMA OutboxStep ==
  ASSUME IInv, [Next]_vars, \A p \in Payments : OutboxOK(p)
  PROVE  \A p \in Payments : OutboxOK(p)'
BY NextImplements, MoveKeepsOutbox DEF IInv, Implements

\* The outbox of every payment opens with its request and says at most once, as
\* its last word, how the payment ended, in agreement with the row: whichever
\* goroutine wrote the ending and whatever others were still about to do.
THEOREM OutboxIsTruthful == Spec => []OutboxTellsTheOutcome
<1>1. Init => \A p \in Payments : OutboxOK(p)
  <2>1. 1..Len(<<>>) = {}
    OBVIOUS
  <2>2. ASSUME Init, NEW p \in Payments PROVE outbox[p] = <<>> /\ status[p] = "absent"
    BY <2>2 DEF Init
  <2>. QED  BY <2>1, <2>2 DEF OutboxOK, Has
<1>2. IInv /\ (\A p \in Payments : OutboxOK(p)) /\ [Next]_vars =>
        (\A p \in Payments : OutboxOK(p))'
  BY OutboxStep
<1>3. (\A p \in Payments : OutboxOK(p)) => OutboxTellsTheOutcome
  BY DEF OutboxOK, OutboxTellsTheOutcome
<1>. QED  BY <1>1, <1>2, <1>3, Invariance, PTL DEF Spec

\* Every interleaving of the saga's goroutines is a behaviour of the lifecycle.
THEOREM SagaImplementsLifecycle == Spec => ImplementsLifecycle
<1>1. Init => Lifecycle!Init
  BY DEF Init, Lifecycle!Init, Has
<1>2. IInv /\ [Next]_vars => [Lifecycle!Next]_(Lifecycle!vars)
  BY NextImplements DEF Implements
<1>. QED  BY <1>1, <1>2, Invariance, PTL DEF Spec, ImplementsLifecycle, Lifecycle!Spec

-----------------------------------------------------------------------------
(* What is collected was announced *)

\* The reference opens the way to the capture, and is stored with the event or
\* after the completion.
AnnouncedOK(p) ==
  /\ collected[p] => pspRef[p]
  /\ pspRef[p] => Has(p, "authorized") \/ completion[p] = "approved"

\* So a goroutine at the capture has the reference, and one that is about to store
\* it for a completion has an approval in hand.
AnnouncerOK(w) ==
  /\ pc[w] = "capture" => pspRef[job[w].pay]
  /\ pc[w] = "gw_tx" => completion[job[w].pay] = "approved"

AnnouncedInv ==
  /\ \A p \in Payments : AnnouncedOK(p)
  /\ \A w \in Workers : AnnouncerOK(w)

LEMMA EventsStay ==
  ASSUME IInv, [Next]_vars, NEW p \in Payments, Has(p, "authorized")
  PROVE  Has(p, "authorized")'
<1>1. outbox[p] \in Seq(Events) /\ StatusMoves(p)
  BY NextImplements, RowTypesHold DEF RowTypes, Implements
<1>2. CASE outbox'[p] = outbox[p]
  BY <1>2 DEF Has
<1>3. ASSUME NEW e \in Events, outbox'[p] = Append(outbox[p], e)
      PROVE  Has(p, "authorized")'
  BY <1>1, <1>3, HasAfterAppend
<1>. QED  BY <1>1, <1>2, <1>3 DEF StatusMoves, Events

\* Steps of a goroutine that store no reference and take no money.
LEMMA OtherDrives ==
  ASSUME IInv, NEW w \in Workers,
         \/ Advance(w) \/ StepFraud(w) \/ StepHold(w) \/ HoldTx(w) \/ StepSubmit(w)
         \/ PendingTx(w) \/ CaptureTx(w) \/ StepLedgerCapture(w) \/ LedgerTx(w)
         \/ ReleaseHold(w) \/ FailTx(w) \/ SweepLoad(w) \/ StepUpTx(w)
         \/ GatewayLoad(w) \/ GatewayMark(w) \/ StepHoldFails(w) \/ StepSubmitFails(w)
         \/ StepLedgerCaptureFails(w) \/ Crash(w)
  PROVE  UNCHANGED <<pspRef, collected, completion>>
BY DEF Advance, StepFraud, StepHold, HoldTx, StepSubmit, PendingTx, CaptureTx,
       StepLedgerCapture, LedgerTx, ReleaseHold, FailTx, SweepLoad, StepUpTx, GatewayLoad,
       GatewayMark, StepHoldFails, StepSubmitFails, StepLedgerCaptureFails, Crash

\* What a step of a goroutine does to the reference, the money and the completion.
LEMMA WhoStores ==
  ASSUME IInv, AnnouncedInv, NEW w \in Workers, Drive(w) \/ CallFails(w) \/ Crash(w)
  PROVE  /\ UNCHANGED completion
         /\ \/ UNCHANGED <<pspRef, collected>>
            \/ /\ UNCHANGED pspRef
               /\ collected' = [collected EXCEPT ![job[w].pay] = TRUE]
               /\ pspRef[job[w].pay]
            \/ /\ UNCHANGED collected
               /\ pspRef' = [pspRef EXCEPT ![job[w].pay] = TRUE]
               /\ Emit(job[w].pay, "authorized") \/ completion[job[w].pay] = "approved"
<1>1. CASE ApprovedTx(w)
  BY <1>1 DEF ApprovedTx
<1>2. CASE GatewayTx(w)
  BY <1>2 DEF GatewayTx, AnnouncedInv, AnnouncerOK
<1>3. CASE StepPSPCapture(w) \/ StepPSPCaptureFails(w)
  BY <1>3 DEF StepPSPCapture, StepPSPCaptureFails, AnnouncedInv, AnnouncerOK
<1>. QED  BY <1>1, <1>2, <1>3, OtherDrives DEF Drive, CallFails

\* A goroutine gets to the capture past the guard of Advance, and to the end of
\* CompleteFromGateway with an approval.
LEMMA WhoCaptures ==
  ASSUME IInv, NEW w \in Workers, Drive(w) \/ CallFails(w) \/ Crash(w)
  PROVE  /\ pc'[w] = "capture" => pspRef[job[w].pay] /\ job'[w].pay = job[w].pay
         /\ pc'[w] = "gw_tx" => completion[job[w].pay] = "approved" /\ job'[w].pay = job[w].pay
<1>. /\ pc \in [Workers -> Labels] /\ job \in [Workers -> Jobs]
  BY RowTypesHold DEF JobTypes
<1>1. CASE Advance(w)
  BY <1>1 DEF Advance, Drivable, Handler, GotoLoaded, Return, Exit, Jobs
<1>2. CASE GatewayLoad(w)
  BY <1>2 DEF GatewayLoad, GotoLoaded, Return, Exit, Jobs
<1>3. CASE ~(Advance(w) \/ GatewayLoad(w))
  BY <1>3
     DEF Drive, CallFails, StepFraud, StepHold, HoldTx, StepSubmit, ApprovedTx, PendingTx,
         StepPSPCapture, CaptureTx, StepLedgerCapture, LedgerTx, ReleaseHold, FailTx,
         SweepLoad, StepUpTx, GatewayTx, GatewayMark, StepHoldFails, StepSubmitFails,
         StepPSPCaptureFails, StepLedgerCaptureFails, Crash, Compensate, Goto, GotoLoaded,
         Again, Return, Exit
<1>. QED  BY <1>1, <1>2, <1>3

LEMMA WhoIsBusy ==
  ASSUME NEW w \in Workers, Drive(w) \/ CallFails(w) \/ Crash(w)
  PROVE  pc[w] # "idle"
BY DEF Drive, CallFails, Advance, StepFraud, StepHold, HoldTx, StepSubmit, ApprovedTx,
       PendingTx, StepPSPCapture, CaptureTx, StepLedgerCapture, LedgerTx, ReleaseHold,
       FailTx, SweepLoad, StepUpTx, GatewayLoad, GatewayTx, GatewayMark, StepHoldFails,
       StepSubmitFails, StepPSPCaptureFails, StepLedgerCaptureFails, Crash

LEMMA AnnouncedDrive ==
  ASSUME IInv, AnnouncedInv, NEW w \in Workers, Drive(w) \/ CallFails(w) \/ Crash(w)
  PROVE  AnnouncedInv'
<1>. PICK p \in Payments : p = job[w].pay
  BY WhoIsBusy DEF IInv, WorkerOK
<1>1. RowTypes /\ RemoteTypes
  BY RowTypesHold
<1>2. \A q \in Payments : Has(q, "authorized") => Has(q, "authorized")'
  BY EventsStay DEF Next
<1>3. \A q \in Payments : pspRef[q] => pspRef'[q]
  BY <1>1, WhoStores DEF RowTypes
<1>4. ASSUME NEW q \in Payments PROVE AnnouncedOK(q)'
  <2>1. ASSUME Emit(p, "authorized") PROVE Has(p, "authorized")'
    <3>1. outbox'[p] = Append(outbox[p], "authorized") /\ outbox[p] \in Seq(Events)
      BY <1>1, <2>1 DEF RowTypes, Emit
    <3>2. "authorized" \in Events
      BY DEF Events
    <3>. QED  BY <1>1, <3>1, <3>2, HasAfterAppend
  <2>2. CASE UNCHANGED <<pspRef, collected, completion>>
    BY <1>2, <2>2 DEF AnnouncedInv, AnnouncedOK
  <2>3. CASE /\ UNCHANGED <<pspRef, completion>> /\ pspRef[p]
             /\ collected' = [collected EXCEPT ![p] = TRUE]
    BY <1>1, <1>2, <2>3 DEF RemoteTypes, AnnouncedInv, AnnouncedOK
  <2>4. CASE /\ UNCHANGED <<collected, completion>>
             /\ pspRef' = [pspRef EXCEPT ![p] = TRUE]
             /\ Emit(p, "authorized") \/ completion[p] = "approved"
    BY <1>1, <1>2, <2>1, <2>4 DEF RowTypes, AnnouncedInv, AnnouncedOK
  <2>. QED  BY <2>2, <2>3, <2>4, WhoStores
<1>5. ASSUME NEW v \in Workers PROVE AnnouncerOK(v)'
  <2>1. CASE v = w
    BY <1>1, <1>3, <2>1, WhoCaptures, WhoStores DEF AnnouncerOK
  <2>2. CASE v # w
    <3>1. pc'[v] = pc[v] /\ job'[v] = job[v]
      BY <2>2, DriveKeeps DEF StepKeeps, OnlyMoves
    <3>2. pc[v] # "idle" => job[v].pay \in Payments
      BY DEF IInv, WorkerOK
    <3>. QED  BY <1>3, <3>1, <3>2, WhoStores DEF AnnouncedInv, AnnouncerOK
  <2>. QED  BY <2>1, <2>2
<1>. QED  BY <1>4, <1>5 DEF AnnouncedInv

LEMMA AnnouncedStart ==
  ASSUME IInv, AnnouncedInv, NEW w \in Workers, NEW p \in Payments, Start(w, p)
  PROVE  AnnouncedInv'
<1>1. UNCHANGED <<pspRef, collected, completion>>
  BY DEF Start, CreatePayment, ResumeStale, ExpireStuckSubmissions, ExpireStuckCaptures,
         ExpireStaleWallets, ResumeAfterStepUp, DeliverCompletion, vars
<1>2. ASSUME NEW q \in Payments PROVE AnnouncedOK(q)'
  <2>1. Has(q, "authorized") => Has(q, "authorized")'
    BY EventsStay DEF Next
  <2>. QED  BY <1>1, <2>1 DEF AnnouncedInv, AnnouncedOK
<1>3. ASSUME NEW v \in Workers PROVE AnnouncerOK(v)'
  <2>1. \/ pc'[v] = pc[v] /\ job'[v] = job[v]
        \/ pc'[v] \notin {"capture", "gw_tx"}
    <3>1. \/ UNCHANGED <<pc, job>>
          \/ \E label \in {"load", "sweep_load", "stepup_tx", "gw_load"} :
               pc' = [pc EXCEPT ![w] = label]
      BY DEF Start, CreatePayment, ResumeStale, ExpireStuckSubmissions,
             ExpireStuckCaptures, ExpireStaleWallets, ResumeAfterStepUp,
             DeliverCompletion, Spawn, vars
    <3>2. v # w => pc'[v] = pc[v] /\ job'[v] = job[v]
      BY StartKeeps DEF StepKeeps, OnlyMoves
    <3>. QED  BY <3>1, <3>2, RowTypesHold DEF JobTypes
  <2>. QED  BY <1>1, <2>1 DEF AnnouncedInv, AnnouncerOK
<1>. QED  BY <1>2, <1>3 DEF AnnouncedInv

LEMMA AnnouncedEnvironment ==
  ASSUME IInv, AnnouncedInv, NEW p \in Payments, Environment(p)
  PROVE  AnnouncedInv'
<1>1. /\ UNCHANGED <<pspRef, collected, outbox, pc, job>>
      /\ \A q \in Payments : completion[q] = "approved" => completion'[q] = "approved"
  BY RowTypesHold
     DEF Environment, ExpireStaleRequiresAction, PSPResolves, AccountConsumesFailed,
         RemoteTypes, IInv, RowOK
<1>2. \A w \in Workers : pc[w] # "idle" => job[w].pay \in Payments
  BY DEF IInv, WorkerOK
<1>. QED  BY <1>1, <1>2 DEF AnnouncedInv, AnnouncedOK, AnnouncerOK, Has

\* However submissions are repeated, goroutines die and transactions abort, no money
\* is taken before its authorization is in the outbox or in a completion.
THEOREM CollectionIsAnnounced == Spec => []CollectedWasAnnounced
<1>1. Init => AnnouncedInv
  BY DEF Init, AnnouncedInv, AnnouncedOK, AnnouncerOK
<1>2. IInv /\ AnnouncedInv /\ [Next]_vars => AnnouncedInv'
  <2>. SUFFICES ASSUME IInv, AnnouncedInv, [Next]_vars PROVE AnnouncedInv'
    OBVIOUS
  <2>1. CASE UNCHANGED vars
    BY <2>1 DEF vars, AnnouncedInv, AnnouncedOK, AnnouncerOK, Has
  <2>. QED
    BY <2>1, AnnouncedDrive, AnnouncedStart, AnnouncedEnvironment DEF Next
<1>3. AnnouncedInv => CollectedWasAnnounced
  BY DEF AnnouncedInv, AnnouncedOK, CollectedWasAnnounced
<1>. QED  BY <1>1, <1>2, <1>3, Invariance, PTL DEF Spec
=============================================================================
