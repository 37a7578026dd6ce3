-------------------------- MODULE PaymentSagaProofs --------------------------
(***************************************************************************)
(* What PaymentSaga keeps for any payments, any number of goroutines and   *)
(* any faults: its types, the order of collecting, booking and succeeding, *)
(* and the finality of an ending.  PaymentSagaRefinement builds on it.     *)
(***************************************************************************)
EXTENDS PaymentSaga, TLAPS

-----------------------------------------------------------------------------
(* The inductive invariant *)

\* A goroutine that is not idle drives a payment that exists, loaded it at the
\* step its place in the code supposes, and what it has learnt from the remote
\* services is still true of them.
WorkerOK(w) ==
  LET p == job[w].pay IN
  pc[w] # "idle" =>
    /\ p \in Payments
    /\ status[p] # "absent"
    /\ job[w].holdId => holdId[p]
    /\ pc[w] = "fraud" => job[w].step = "requested"
    /\ pc[w] \in {"hold", "hold_tx", "stepup_tx"} => job[w].step = "fraud_screened"
    /\ pc[w] \in {"submit", "approved_tx", "pending_tx"} => job[w].step = "funds_held"
    /\ pc[w] \in {"capture", "capture_tx", "gw_tx"} =>
         job[w].step = "submitted_to_gateway"
    /\ pc[w] \in {"approved_tx", "capture", "capture_tx", "gw_tx"} =>
         auth[p] = "approved"
    /\ pc[w] \in {"capture_tx", "ledger", "ledger_tx"} => collected[p]
    /\ pc[w] \in {"ledger", "ledger_tx"} => job[w].holdId
    /\ pc[w] = "ledger_tx" => hold[p] = "captured"

\* Status and step of a row agree, and what the row says of the hold, the
\* processor and the ledger is so.
RowOK(p) ==
  /\ status[p] = "absent" <=> step[p] = "absent"
  /\ status[p] = "requires_action" => step[p] = "fraud_screened"
  /\ status[p] = "succeeded" <=> step[p] = "captured"
  /\ status[p] = "failed" <=> step[p] = "done"
  /\ step[p] \in {"funds_held", "submitted_to_gateway", "psp_captured", "captured"} =>
       holdId[p]
  /\ step[p] \in {"psp_captured", "captured"} => collected[p]
  /\ step[p] = "captured" => hold[p] = "captured"
  /\ hold[p] = "captured" => collected[p]
  /\ pspRef[p] => auth[p] = "approved"
  /\ collected[p] => auth[p] = "approved"
  /\ completion[p] = "approved" => auth[p] = "approved"
  /\ completion[p] # "none" => auth[p] # "none"
  /\ auth[p] # "none" => status[p] # "absent"

IInv ==
  /\ TypeOK
  /\ \A w \in Workers : WorkerOK(w)
  /\ \A p \in Payments : RowOK(p)

-----------------------------------------------------------------------------
(* Initial states *)

USE DEF vars, row, acct, psp

LEMMA InvInit == ASSUME Init PROVE IInv
BY SagaAssumption DEF Init, IInv, TypeOK, WorkerOK, RowOK, Statuses, Steps, Labels,
                      Jobs, NoJob, Job

-----------------------------------------------------------------------------
(* Types *)

\* The parts of TypeOK: the row, the goroutines and the remote services.
RowTypes ==
  /\ status \in [Payments -> Statuses]
  /\ step \in [Payments -> Steps]
  /\ holdId \in [Payments -> BOOLEAN]
  /\ pspRef \in [Payments -> BOOLEAN]
  /\ outbox \in [Payments -> Seq(Events)]
  /\ processed \subseteq Payments

JobTypes ==
  /\ pc \in [Workers -> Labels]
  /\ job \in [Workers -> Jobs]

RemoteTypes ==
  /\ hold \in [Payments -> {"none", "active", "released", "captured"}]
  /\ failedSeen \subseteq Payments
  /\ auth \in [Payments -> {"none", "pending", "approved", "declined"}]
  /\ collected \in [Payments -> BOOLEAN]
  /\ completion \in [Payments -> {"none", "approved", "declined"}]

LEMMA TypeParts == TypeOK <=> RowTypes /\ JobTypes /\ RemoteTypes
BY DEF TypeOK, RowTypes, JobTypes, RemoteTypes

LEMMA JobIsJob ==
  ASSUME NEW p \in Payments \union {NoPayment}, NEW c \in {"saga", "consumer"}
  PROVE Job(p, c) \in Jobs
BY DEF Job, Jobs, Steps

LEMMA GotoTypes ==
  ASSUME JobTypes, NEW w \in Workers, NEW label \in Labels, Goto(w, label)
  PROVE JobTypes'
BY DEF JobTypes, Goto

LEMMA SpawnTypes ==
  ASSUME JobTypes, NEW w \in Workers, NEW label \in Labels, NEW j \in Jobs,
         Spawn(w, label, j)
  PROVE JobTypes'
BY DEF JobTypes, Spawn

LEMMA GotoLoadedTypes ==
  ASSUME JobTypes, RowTypes, NEW w \in Workers, job[w].pay \in Payments,
         NEW label \in Labels, GotoLoaded(w, label)
  PROVE JobTypes'
<1>. DEFINE new == [job[w] EXCEPT !.step = step[job[w].pay], !.holdId = holdId[job[w].pay]]
<1>1. job' = [job EXCEPT ![w] = new] /\ pc' = [pc EXCEPT ![w] = label]
  BY DEF GotoLoaded
<1>2. job[w] \in Jobs /\ step[job[w].pay] \in Steps /\ holdId[job[w].pay] \in BOOLEAN
  BY DEF JobTypes, RowTypes
<1>3. new \in Jobs
  BY <1>2 DEF Jobs
<1>. HIDE DEF new
<1>. QED
  BY <1>1, <1>3 DEF JobTypes

LEMMA AgainTypes ==
  ASSUME JobTypes, NEW w \in Workers, Again(w)
  PROVE JobTypes'
BY JobIsJob DEF JobTypes, Again, Jobs, Labels

LEMMA ExitTypes ==
  ASSUME JobTypes, NEW w \in Workers, Exit(w)
  PROVE JobTypes'
BY JobIsJob DEF JobTypes, Exit, NoJob, Labels

LEMMA ReturnTypes ==
  ASSUME JobTypes, NEW w \in Workers, Return(w)
  PROVE JobTypes'
BY JobIsJob, ExitTypes DEF JobTypes, Return, Jobs, Labels
-----------------------------------------------------------------------------
(* Steps *)

\* A step of goroutine w moves no other goroutine.
OnlyMoves(w) ==
  \A v \in Workers \ {w} : pc'[v] = pc[v] /\ job'[v] = job[v]

\* What a goroutine may have learnt is never taken back, nor is an ending.
Grows ==
  \A p \in Payments :
    /\ status[p] # "absent" => status'[p] # "absent"
    /\ holdId[p] => holdId'[p]
    /\ auth[p] = "approved" => auth'[p] = "approved"
    /\ collected[p] => collected'[p]
    /\ hold[p] = "captured" => hold'[p] = "captured"
    /\ status[p] \in Terminal => status'[p] = status[p] /\ step'[p] = step[p]

\* What is shown of every step of a goroutine.
StepKeeps(w) ==
  /\ JobTypes' /\ RowTypes' /\ RemoteTypes'
  /\ OnlyMoves(w)
  /\ Grows
  /\ WorkerOK(w)'
  /\ \A p \in Payments : RowOK(p)'

LEMMA TransitionTypes ==
  ASSUME RowTypes, NEW w \in Workers, job[w].pay \in Payments,
         NEW to \in Steps, NEW st \in Statuses,
         Transition(w, to, st) \/ TransitionWith(w, to, st)
  PROVE  /\ step' \in [Payments -> Steps]
         /\ status' \in [Payments -> Statuses]
BY DEF RowTypes, Transition, TransitionWith

LEMMA EmitTypes ==
  ASSUME RowTypes, NEW p \in Payments, NEW e \in Events, Emit(p, e)
  PROVE  outbox' \in [Payments -> Seq(Events)]
BY DEF RowTypes, Emit

\* A step that only moves a goroutine.
LEMMA ControlKeeps ==
  ASSUME IInv, UNCHANGED <<row, processed, acct, psp>>
  PROVE  RowTypes' /\ RemoteTypes' /\ Grows /\ \A p \in Payments : RowOK(p)'
BY TypeParts DEF IInv, RowTypes, RemoteTypes, Grows, RowOK

LEMMA AdvanceKeeps ==
  ASSUME IInv, NEW w \in Workers, Advance(w)
  PROVE  StepKeeps(w)
<1>1. JobTypes'
  BY TypeParts, GotoLoadedTypes, ReturnTypes
     DEF IInv, WorkerOK, Advance, Drivable, Handler, Labels
<1>2. OnlyMoves(w)
  BY TypeParts DEF IInv, JobTypes, OnlyMoves, Advance, GotoLoaded, Return, Exit
<1>3. WorkerOK(w)'
  <2>. DEFINE p == job[w].pay
  <2>1. /\ p \in Payments /\ status[p] # "absent"
        /\ UNCHANGED <<status, holdId, auth, collected, hold>>
    BY DEF IInv, WorkerOK, Advance
  <2>2. CASE Return(w)
    BY <2>1, <2>2, TypeParts DEF IInv, JobTypes, WorkerOK, Return, Exit, Job, Jobs
  <2>3. CASE Drivable(p) /\ GotoLoaded(w, Handler[step[p]])
    <3>1. pc'[w] = Handler[step[p]] /\ job'[w].pay = p
          /\ job'[w].step = step[p] /\ job'[w].holdId = holdId[p]
      BY <2>3, TypeParts DEF IInv, JobTypes, GotoLoaded, Jobs
    <3>2. /\ step[p] = "submitted_to_gateway" => auth[p] = "approved"
          /\ step[p] = "psp_captured" => holdId[p] /\ collected[p]
      BY <2>1, <2>3 DEF IInv, RowOK, Drivable
    <3>. QED  BY <2>1, <2>3, <3>1, <3>2 DEF WorkerOK, Drivable, Handler
  <2>. QED  BY <2>2, <2>3 DEF Advance
<1>. QED  BY <1>1, <1>2, <1>3, ControlKeeps DEF StepKeeps, Advance

LEMMA StepFraudKeeps ==
  ASSUME IInv, NEW w \in Workers, StepFraud(w)
  PROVE  StepKeeps(w)
<1>1. JobTypes'
  BY TypeParts, AgainTypes, ReturnTypes, GotoTypes
     DEF IInv, StepFraud, Compensate, Labels
<1>2. OnlyMoves(w)
  BY TypeParts
     DEF IInv, JobTypes, OnlyMoves, StepFraud, Again, Return, Exit, Compensate, Goto
<1>3. WorkerOK(w)'
  BY TypeParts
     DEF IInv, WorkerOK, JobTypes, RowTypes, StepFraud, Transition, TransitionWith,
         Again, Return, Exit, Compensate, Goto, Job
<1>4. RowTypes'
  BY TypeParts, TransitionTypes DEF IInv, WorkerOK, RowTypes, StepFraud, Statuses, Steps
<1>5. RemoteTypes'
  BY TypeParts DEF IInv, WorkerOK, RemoteTypes, StepFraud
<1>6. Grows
  BY TypeParts
     DEF IInv, WorkerOK, RowOK, RowTypes, Grows, Terminal, StepFraud, Transition,
         TransitionMatches, TransitionWith, TransitionWithMatches
<1>7. \A q \in Payments : RowOK(q)'
  BY TypeParts DEF IInv, RowOK, RowTypes, StepFraud, Transition, TransitionWith
<1>. QED  BY <1>1, <1>2, <1>3, <1>4, <1>5, <1>6, <1>7 DEF StepKeeps

LEMMA StepHoldKeeps ==
  ASSUME IInv, NEW w \in Workers, StepHold(w)
  PROVE  StepKeeps(w)
<1>1. JobTypes'
  BY TypeParts, GotoTypes DEF IInv, WorkerOK, StepHold, Goto, Compensate, Labels
<1>2. OnlyMoves(w)
  BY TypeParts DEF IInv, JobTypes, OnlyMoves, StepHold, Goto, Compensate
<1>3. WorkerOK(w)'
  BY TypeParts DEF IInv, WorkerOK, JobTypes, StepHold, Goto, Compensate
<1>4. RowTypes'
  BY TypeParts DEF IInv, WorkerOK, RowTypes, StepHold
<1>5. RemoteTypes'
  BY TypeParts DEF IInv, WorkerOK, RemoteTypes, StepHold
<1>6. Grows
  BY TypeParts
     DEF IInv, WorkerOK, RowOK, RowTypes, RemoteTypes, Grows, Terminal, StepHold
<1>7. \A q \in Payments : RowOK(q)'
  BY TypeParts DEF IInv, WorkerOK, RowOK, JobTypes, RowTypes, RemoteTypes, StepHold
<1>. QED  BY <1>1, <1>2, <1>3, <1>4, <1>5, <1>6, <1>7 DEF StepKeeps

LEMMA HoldTxKeeps ==
  ASSUME IInv, NEW w \in Workers, HoldTx(w)
  PROVE  StepKeeps(w)
<1>1. JobTypes'
  BY TypeParts, AgainTypes, ReturnTypes DEF IInv, HoldTx
<1>2. OnlyMoves(w)
  BY TypeParts DEF IInv, JobTypes, OnlyMoves, HoldTx, Again, Return, Exit
<1>3. WorkerOK(w)'
  BY TypeParts
     DEF IInv, WorkerOK, JobTypes, RowTypes, HoldTx, Transition, Again, Return, Exit,
         Job
<1>4. RowTypes'
  BY TypeParts, TransitionTypes DEF IInv, WorkerOK, RowTypes, HoldTx, Statuses, Steps
<1>5. RemoteTypes'
  BY TypeParts DEF IInv, WorkerOK, RemoteTypes, HoldTx
<1>6. Grows
  BY TypeParts
     DEF IInv, WorkerOK, RowOK, RowTypes, Grows, Terminal, HoldTx, Transition,
         TransitionMatches
<1>7. \A q \in Payments : RowOK(q)'
  BY TypeParts DEF IInv, RowOK, RowTypes, HoldTx, Transition
<1>. QED  BY <1>1, <1>2, <1>3, <1>4, <1>5, <1>6, <1>7 DEF StepKeeps

LEMMA StepSubmitKeeps ==
  ASSUME IInv, NEW w \in Workers, StepSubmit(w)
  PROVE  StepKeeps(w)
<1>1. JobTypes'
  BY TypeParts, GotoTypes DEF IInv, StepSubmit, Compensate, Labels
<1>2. OnlyMoves(w)
  BY TypeParts DEF IInv, JobTypes, OnlyMoves, StepSubmit, Goto, Compensate
<1>3. WorkerOK(w)'
  BY TypeParts
     DEF IInv, WorkerOK, JobTypes, RemoteTypes, StepSubmit, AuthorizeRecords,
         Outcomes, Goto, Compensate
<1>4. RowTypes'
  BY TypeParts DEF IInv, RowTypes, StepSubmit
<1>5. RemoteTypes'
  BY TypeParts DEF IInv, RemoteTypes, StepSubmit, AuthorizeRecords
<1>6. Grows
  BY TypeParts DEF IInv, RemoteTypes, Grows, StepSubmit, AuthorizeRecords
<1>7. \A q \in Payments : RowOK(q)'
  BY TypeParts DEF IInv, WorkerOK, RowOK, RemoteTypes, StepSubmit, AuthorizeRecords
<1>. QED  BY <1>1, <1>2, <1>3, <1>4, <1>5, <1>6, <1>7 DEF StepKeeps

LEMMA ApprovedTxKeeps ==
  ASSUME IInv, NEW w \in Workers, ApprovedTx(w)
  PROVE  StepKeeps(w)
<1>1. JobTypes'
  BY TypeParts, AgainTypes, ReturnTypes DEF IInv, ApprovedTx
<1>2. OnlyMoves(w)
  BY TypeParts DEF IInv, JobTypes, OnlyMoves, ApprovedTx, Again, Return, Exit
<1>3. WorkerOK(w)'
  BY TypeParts
     DEF IInv, WorkerOK, JobTypes, RowTypes, ApprovedTx, Transition, Again, Return,
         Exit, Job
<1>4. RowTypes'
  BY TypeParts, TransitionTypes, EmitTypes
     DEF IInv, WorkerOK, RowTypes, ApprovedTx, Statuses, Steps, Events
<1>5. RemoteTypes'
  BY TypeParts DEF IInv, WorkerOK, RemoteTypes, ApprovedTx
<1>6. Grows
  BY TypeParts
     DEF IInv, WorkerOK, RowOK, RowTypes, RemoteTypes, Grows, Terminal, ApprovedTx,
         Transition, TransitionMatches
<1>7. \A q \in Payments : RowOK(q)'
  BY TypeParts
     DEF IInv, WorkerOK, RowOK, RowTypes, ApprovedTx, Transition, TransitionMatches
<1>. QED  BY <1>1, <1>2, <1>3, <1>4, <1>5, <1>6, <1>7 DEF StepKeeps

LEMMA PendingTxKeeps ==
  ASSUME IInv, NEW w \in Workers, PendingTx(w)
  PROVE  StepKeeps(w)
<1>1. JobTypes'
  BY TypeParts, ReturnTypes DEF IInv, PendingTx
<1>2. OnlyMoves(w)
  BY TypeParts DEF IInv, JobTypes, OnlyMoves, PendingTx, Return, Exit
<1>3. WorkerOK(w)'
  BY TypeParts
     DEF IInv, WorkerOK, JobTypes, RowTypes, PendingTx, Transition, Return, Exit, Job
<1>4. RowTypes'
  BY TypeParts, TransitionTypes DEF IInv, WorkerOK, RowTypes, PendingTx, Statuses, Steps
<1>5. RemoteTypes'
  BY TypeParts DEF IInv, WorkerOK, RemoteTypes, PendingTx
<1>6. Grows
  BY TypeParts
     DEF IInv, WorkerOK, RowOK, RowTypes, RemoteTypes, Grows, Terminal, PendingTx,
         Transition, TransitionMatches
<1>7. \A q \in Payments : RowOK(q)'
  BY TypeParts
     DEF IInv, WorkerOK, RowOK, RowTypes, PendingTx, Transition, TransitionMatches
<1>. QED  BY <1>1, <1>2, <1>3, <1>4, <1>5, <1>6, <1>7 DEF StepKeeps

LEMMA StepPSPCaptureKeeps ==
  ASSUME IInv, NEW w \in Workers, StepPSPCapture(w)
  PROVE  StepKeeps(w)
<1>1. JobTypes'
  BY TypeParts, GotoTypes DEF IInv, WorkerOK, StepPSPCapture, Goto, Compensate, Labels
<1>2. OnlyMoves(w)
  BY TypeParts DEF IInv, JobTypes, OnlyMoves, StepPSPCapture, Goto, Compensate
<1>3. WorkerOK(w)'
  BY TypeParts
     DEF IInv, WorkerOK, JobTypes, RemoteTypes, StepPSPCapture, Goto, Compensate
<1>4. RowTypes'
  BY TypeParts DEF IInv, WorkerOK, RowTypes, StepPSPCapture
<1>5. RemoteTypes'
  BY TypeParts DEF IInv, WorkerOK, RemoteTypes, StepPSPCapture
<1>6. Grows
  <2>1. ASSUME NEW q \in Payments, collected[q] PROVE collected'[q]
    BY <2>1, TypeParts DEF IInv, RemoteTypes, StepPSPCapture
  <2>. QED  BY <2>1 DEF Grows, StepPSPCapture
<1>7. ASSUME NEW q \in Payments PROVE RowOK(q)'
  <2>1. CASE q = job[w].pay
    BY <2>1, TypeParts DEF IInv, WorkerOK, RowOK, RemoteTypes, StepPSPCapture
  <2>2. CASE q # job[w].pay
    BY <2>2, TypeParts DEF IInv, RowOK, RemoteTypes, StepPSPCapture
  <2>. QED  BY <2>1, <2>2
<1>. QED  BY <1>1, <1>2, <1>3, <1>4, <1>5, <1>6, <1>7 DEF StepKeeps

LEMMA CaptureTxKeeps ==
  ASSUME IInv, NEW w \in Workers, CaptureTx(w)
  PROVE  StepKeeps(w)
<1>1. JobTypes'
  BY TypeParts, AgainTypes, ReturnTypes DEF IInv, CaptureTx
<1>2. OnlyMoves(w)
  BY TypeParts DEF IInv, JobTypes, OnlyMoves, CaptureTx, Again, Return, Exit
<1>3. WorkerOK(w)'
  BY TypeParts
     DEF IInv, WorkerOK, JobTypes, RowTypes, CaptureTx, Transition, Again, Return,
         Exit, Job
<1>4. RowTypes'
  BY TypeParts, TransitionTypes DEF IInv, WorkerOK, RowTypes, CaptureTx, Statuses, Steps
<1>5. RemoteTypes'
  BY TypeParts DEF IInv, WorkerOK, RemoteTypes, CaptureTx
<1>6. Grows
  BY TypeParts
     DEF IInv, WorkerOK, RowOK, RowTypes, Grows, Terminal, CaptureTx, Transition,
         TransitionMatches
<1>7. \A q \in Payments : RowOK(q)'
  BY TypeParts
     DEF IInv, WorkerOK, RowOK, RowTypes, CaptureTx, Transition, TransitionMatches
<1>. QED  BY <1>1, <1>2, <1>3, <1>4, <1>5, <1>6, <1>7 DEF StepKeeps

LEMMA StepLedgerCaptureKeeps ==
  ASSUME IInv, NEW w \in Workers, StepLedgerCapture(w)
  PROVE  StepKeeps(w)
<1>1. JobTypes'
  BY TypeParts, GotoTypes DEF IInv, WorkerOK, StepLedgerCapture, Labels
<1>2. OnlyMoves(w)
  BY TypeParts DEF IInv, JobTypes, OnlyMoves, StepLedgerCapture, Goto
<1>3. WorkerOK(w)'
  BY TypeParts DEF IInv, WorkerOK, RemoteTypes, StepLedgerCapture, Goto
<1>4. RowTypes'
  BY TypeParts DEF IInv, WorkerOK, RowTypes, StepLedgerCapture
<1>5. RemoteTypes'
  BY TypeParts DEF IInv, WorkerOK, RemoteTypes, StepLedgerCapture
<1>6. Grows
  BY DEF Grows, StepLedgerCapture
<1>7. \A q \in Payments : RowOK(q)'
  BY DEF IInv, WorkerOK, RowOK, StepLedgerCapture
<1>. QED  BY <1>1, <1>2, <1>3, <1>4, <1>5, <1>6, <1>7 DEF StepKeeps

LEMMA LedgerTxKeeps ==
  ASSUME IInv, NEW w \in Workers, LedgerTx(w)
  PROVE  StepKeeps(w)
<1>1. JobTypes'
  BY TypeParts, AgainTypes, ReturnTypes DEF IInv, LedgerTx
<1>2. OnlyMoves(w)
  BY TypeParts DEF IInv, JobTypes, OnlyMoves, LedgerTx, Again, Return, Exit
<1>3. WorkerOK(w)'
  BY TypeParts
     DEF IInv, WorkerOK, JobTypes, RowTypes, LedgerTx, TransitionWith, Again, Return,
         Exit, Job
<1>4. RowTypes'
  BY TypeParts, TransitionTypes, EmitTypes
     DEF IInv, WorkerOK, RowTypes, LedgerTx, Statuses, Steps, Events
<1>5. RemoteTypes'
  BY TypeParts DEF IInv, WorkerOK, RemoteTypes, LedgerTx
<1>6. Grows
  BY TypeParts
     DEF IInv, RowTypes, Grows, Terminal, LedgerTx, TransitionWith,
         TransitionWithMatches
<1>7. \A q \in Payments : RowOK(q)'
  BY TypeParts DEF IInv, WorkerOK, RowOK, RowTypes, LedgerTx, TransitionWith
<1>. QED  BY <1>1, <1>2, <1>3, <1>4, <1>5, <1>6, <1>7 DEF StepKeeps

LEMMA ReleaseHoldKeeps ==
  ASSUME IInv, NEW w \in Workers, ReleaseHold(w)
  PROVE  StepKeeps(w)
<1>1. JobTypes'
  BY TypeParts, GotoTypes DEF IInv, WorkerOK, ReleaseHold, Labels
<1>2. OnlyMoves(w)
  BY TypeParts DEF IInv, JobTypes, OnlyMoves, ReleaseHold, Goto
<1>3. WorkerOK(w)'
  BY DEF IInv, WorkerOK, ReleaseHold, Goto
<1>4. RowTypes'
  BY TypeParts DEF IInv, WorkerOK, RowTypes, ReleaseHold
<1>5. RemoteTypes'
  BY TypeParts DEF IInv, WorkerOK, RemoteTypes, ReleaseHold
<1>6. Grows
  BY TypeParts DEF IInv, RemoteTypes, Grows, ReleaseHold
<1>7. \A q \in Payments : RowOK(q)'
  BY TypeParts DEF IInv, WorkerOK, RowOK, JobTypes, RowTypes, RemoteTypes, ReleaseHold
<1>. QED  BY <1>1, <1>2, <1>3, <1>4, <1>5, <1>6, <1>7 DEF StepKeeps

LEMMA FailTxKeeps ==
  ASSUME IInv, NEW w \in Workers, FailTx(w)
  PROVE  StepKeeps(w)
<1>1. JobTypes'
  BY TypeParts, ReturnTypes DEF IInv, FailTx
<1>2. OnlyMoves(w)
  BY TypeParts DEF IInv, JobTypes, OnlyMoves, FailTx, Return, Exit
<1>3. WorkerOK(w)'
  BY TypeParts
     DEF IInv, WorkerOK, JobTypes, RowTypes, FailTx, TransitionWith, Return, Exit,
         Job
<1>4. RowTypes'
  BY TypeParts, TransitionTypes, EmitTypes
     DEF IInv, WorkerOK, RowTypes, FailTx, Statuses, Steps, Events
<1>5. RemoteTypes'
  BY TypeParts DEF IInv, WorkerOK, RemoteTypes, FailTx
<1>6. Grows
  BY TypeParts
     DEF IInv, RowTypes, Grows, Terminal, FailTx, TransitionWith,
         TransitionWithMatches
<1>7. \A q \in Payments : RowOK(q)'
  BY TypeParts DEF IInv, RowOK, RowTypes, FailTx, TransitionWith
<1>. QED  BY <1>1, <1>2, <1>3, <1>4, <1>5, <1>6, <1>7 DEF StepKeeps

LEMMA SweepLoadKeeps ==
  ASSUME IInv, NEW w \in Workers, SweepLoad(w)
  PROVE  StepKeeps(w)
<1>1. JobTypes'
  BY TypeParts, GotoLoadedTypes, ExitTypes DEF IInv, WorkerOK, SweepLoad, Labels
<1>2. OnlyMoves(w)
  BY TypeParts DEF IInv, JobTypes, OnlyMoves, SweepLoad, GotoLoaded, Exit
<1>3. WorkerOK(w)'
  <2>1. CASE pc'[w] = "idle"
    BY <2>1 DEF WorkerOK
  <2>2. CASE pc'[w] # "idle"
    <3>1. /\ job[w].pay \in Payments /\ status[job[w].pay] # "absent"
          /\ pc'[w] \in {"release", "fail_tx"}
          /\ job'[w].pay = job[w].pay /\ job'[w].holdId = holdId[job[w].pay]
      BY <2>2, TypeParts DEF IInv, WorkerOK, JobTypes, RowTypes, SweepLoad, GotoLoaded,
                             Exit, Jobs, Labels
    <3>. QED  BY <3>1 DEF WorkerOK, SweepLoad
  <2>. QED  BY <2>1, <2>2
<1>. QED  BY <1>1, <1>2, <1>3, ControlKeeps DEF StepKeeps, SweepLoad

LEMMA StepUpTxKeeps ==
  ASSUME IInv, NEW w \in Workers, StepUpTx(w)
  PROVE  StepKeeps(w)
<1>1. JobTypes'
  BY TypeParts, AgainTypes, ExitTypes DEF IInv, StepUpTx
<1>2. OnlyMoves(w)
  BY TypeParts DEF IInv, JobTypes, OnlyMoves, StepUpTx, Again, Exit
<1>3. WorkerOK(w)'
  BY TypeParts
     DEF IInv, WorkerOK, JobTypes, RowTypes, StepUpTx, Transition, Again, Exit, Job
<1>4. RowTypes'
  BY TypeParts, TransitionTypes DEF IInv, WorkerOK, RowTypes, StepUpTx, Statuses, Steps
<1>5. RemoteTypes'
  BY TypeParts DEF IInv, WorkerOK, RemoteTypes, StepUpTx
<1>6. Grows
  BY TypeParts
     DEF IInv, WorkerOK, RowOK, RowTypes, Grows, Terminal, StepUpTx, Transition,
         TransitionMatches
<1>7. \A q \in Payments : RowOK(q)'
  BY TypeParts DEF IInv, RowOK, RowTypes, StepUpTx, Transition
<1>. QED  BY <1>1, <1>2, <1>3, <1>4, <1>5, <1>6, <1>7 DEF StepKeeps

LEMMA GatewayLoadKeeps ==
  ASSUME IInv, NEW w \in Workers, GatewayLoad(w)
  PROVE  StepKeeps(w)
<1>1. JobTypes'
  BY TypeParts, GotoLoadedTypes, ReturnTypes, ExitTypes
     DEF IInv, WorkerOK, GatewayLoad, Labels
<1>2. OnlyMoves(w)
  BY TypeParts DEF IInv, JobTypes, OnlyMoves, GatewayLoad, GotoLoaded, Return, Exit
<1>3. WorkerOK(w)'
  BY TypeParts
     DEF IInv, WorkerOK, RowOK, JobTypes, GatewayLoad, GotoLoaded, Return, Exit, Job,
         Jobs
<1>. QED  BY <1>1, <1>2, <1>3, ControlKeeps DEF StepKeeps, GatewayLoad

LEMMA GatewayTxKeeps ==
  ASSUME IInv, NEW w \in Workers, GatewayTx(w)
  PROVE  StepKeeps(w)
<1>1. JobTypes'
  BY TypeParts, AgainTypes, ExitTypes DEF IInv, GatewayTx
<1>2. OnlyMoves(w)
  BY TypeParts DEF IInv, JobTypes, OnlyMoves, GatewayTx, Again, Exit
<1>3. WorkerOK(w)'
  BY TypeParts
     DEF IInv, WorkerOK, JobTypes, RowTypes, GatewayTx, Transition, Again, Exit, Job
<1>4. RowTypes'
  BY TypeParts, TransitionTypes DEF IInv, WorkerOK, RowTypes, GatewayTx, Statuses, Steps
<1>5. RemoteTypes'
  BY TypeParts DEF IInv, WorkerOK, RemoteTypes, GatewayTx
<1>6. Grows
  BY TypeParts
     DEF IInv, WorkerOK, RowOK, RowTypes, Grows, Terminal, GatewayTx, Transition,
         TransitionMatches
<1>7. \A q \in Payments : RowOK(q)'
  BY TypeParts
     DEF IInv, WorkerOK, RowOK, RowTypes, GatewayTx, Transition, TransitionMatches
<1>. QED  BY <1>1, <1>2, <1>3, <1>4, <1>5, <1>6, <1>7 DEF StepKeeps

LEMMA GatewayMarkKeeps ==
  ASSUME IInv, NEW w \in Workers, GatewayMark(w)
  PROVE  StepKeeps(w)
<1>1. JobTypes'
  BY TypeParts, ExitTypes DEF IInv, WorkerOK, GatewayMark, Labels
<1>2. OnlyMoves(w)
  BY TypeParts DEF IInv, JobTypes, OnlyMoves, GatewayMark, Exit
<1>3. WorkerOK(w)'
  BY TypeParts DEF IInv, WorkerOK, JobTypes, GatewayMark, Exit
<1>4. RowTypes'
  BY TypeParts DEF IInv, WorkerOK, RowTypes, GatewayMark, Statuses, Steps
<1>5. RemoteTypes'
  BY TypeParts DEF IInv, WorkerOK, RemoteTypes, GatewayMark
<1>6. Grows
  BY DEF Grows, GatewayMark
<1>7. \A q \in Payments : RowOK(q)'
  BY TypeParts DEF IInv, WorkerOK, RowOK, JobTypes, RowTypes, RemoteTypes, GatewayMark
<1>. QED  BY <1>1, <1>2, <1>3, <1>4, <1>5, <1>6, <1>7 DEF StepKeeps

LEMMA StepHoldFailsKeeps ==
  ASSUME IInv, NEW w \in Workers, StepHoldFails(w)
  PROVE  StepKeeps(w)
<1>1. JobTypes'
  BY TypeParts, ReturnTypes DEF IInv, WorkerOK, StepHoldFails, Labels
<1>2. OnlyMoves(w)
  BY TypeParts DEF IInv, JobTypes, OnlyMoves, StepHoldFails, Return, Exit
<1>3. WorkerOK(w)'
  BY TypeParts DEF IInv, WorkerOK, JobTypes, StepHoldFails, Return, Exit, Job
<1>4. RowTypes'
  BY TypeParts DEF IInv, WorkerOK, RowTypes, StepHoldFails
<1>5. RemoteTypes'
  BY TypeParts DEF IInv, WorkerOK, RemoteTypes, StepHoldFails
<1>6. Grows
  BY TypeParts DEF IInv, RemoteTypes, Grows, StepHoldFails
<1>7. \A q \in Payments : RowOK(q)'
  BY TypeParts DEF IInv, WorkerOK, RowOK, JobTypes, RowTypes, RemoteTypes, StepHoldFails
<1>. QED  BY <1>1, <1>2, <1>3, <1>4, <1>5, <1>6, <1>7 DEF StepKeeps

LEMMA StepSubmitFailsKeeps ==
  ASSUME IInv, NEW w \in Workers, StepSubmitFails(w)
  PROVE  StepKeeps(w)
<1>1. JobTypes'
  BY TypeParts, ReturnTypes DEF IInv, StepSubmitFails
<1>2. OnlyMoves(w)
  BY TypeParts DEF IInv, JobTypes, OnlyMoves, StepSubmitFails, Return, Exit
<1>3. WorkerOK(w)'
  BY TypeParts DEF IInv, WorkerOK, JobTypes, StepSubmitFails, Return, Exit, Job
<1>4. RowTypes'
  BY TypeParts DEF IInv, RowTypes, StepSubmitFails
<1>5. RemoteTypes'
  BY TypeParts
     DEF IInv, RemoteTypes, StepSubmitFails, AuthorizeRecords, Outcomes,
         FirstOutcomes
<1>6. Grows
  BY TypeParts DEF IInv, RemoteTypes, Grows, StepSubmitFails, AuthorizeRecords
<1>7. \A q \in Payments : RowOK(q)'
  BY TypeParts DEF IInv, WorkerOK, RowOK, RemoteTypes, StepSubmitFails, AuthorizeRecords
<1>. QED  BY <1>1, <1>2, <1>3, <1>4, <1>5, <1>6, <1>7 DEF StepKeeps

LEMMA StepPSPCaptureFailsKeeps ==
  ASSUME IInv, NEW w \in Workers, StepPSPCaptureFails(w)
  PROVE  StepKeeps(w)
<1>1. JobTypes'
  BY TypeParts, ReturnTypes DEF IInv, WorkerOK, StepPSPCaptureFails, Labels
<1>2. OnlyMoves(w)
  BY TypeParts DEF IInv, JobTypes, OnlyMoves, StepPSPCaptureFails, Return, Exit
<1>3. WorkerOK(w)'
  BY TypeParts DEF IInv, WorkerOK, JobTypes, StepPSPCaptureFails, Return, Exit, Job
<1>4. RowTypes'
  BY TypeParts DEF IInv, WorkerOK, RowTypes, StepPSPCaptureFails
<1>5. RemoteTypes'
  BY TypeParts DEF IInv, WorkerOK, RemoteTypes, StepPSPCaptureFails
<1>6. Grows
  <2>1. ASSUME NEW q \in Payments, collected[q] PROVE collected'[q]
    BY <2>1, TypeParts DEF IInv, RemoteTypes, StepPSPCaptureFails
  <2>. QED  BY <2>1 DEF Grows, StepPSPCaptureFails
<1>7. ASSUME NEW q \in Payments PROVE RowOK(q)'
  <2>1. CASE q = job[w].pay
    BY <2>1, TypeParts DEF IInv, WorkerOK, RowOK, RemoteTypes, StepPSPCaptureFails
  <2>2. CASE q # job[w].pay
    BY <2>2, TypeParts DEF IInv, RowOK, RemoteTypes, StepPSPCaptureFails
  <2>. QED  BY <2>1, <2>2
<1>. QED  BY <1>1, <1>2, <1>3, <1>4, <1>5, <1>6, <1>7 DEF StepKeeps

LEMMA StepLedgerCaptureFailsKeeps ==
  ASSUME IInv, NEW w \in Workers, StepLedgerCaptureFails(w)
  PROVE  StepKeeps(w)
<1>1. JobTypes'
  BY TypeParts, ReturnTypes DEF IInv, WorkerOK, StepLedgerCaptureFails, Labels
<1>2. OnlyMoves(w)
  BY TypeParts DEF IInv, JobTypes, OnlyMoves, StepLedgerCaptureFails, Return, Exit
<1>3. WorkerOK(w)'
  BY TypeParts DEF IInv, WorkerOK, JobTypes, StepLedgerCaptureFails, Return, Exit, Job
<1>4. RowTypes'
  BY TypeParts DEF IInv, WorkerOK, RowTypes, StepLedgerCaptureFails
<1>5. RemoteTypes'
  BY TypeParts DEF IInv, WorkerOK, RemoteTypes, StepLedgerCaptureFails
<1>6. Grows
  BY TypeParts DEF IInv, RemoteTypes, Grows, StepLedgerCaptureFails
<1>7. \A q \in Payments : RowOK(q)'
  BY TypeParts DEF IInv, WorkerOK, RowOK, RemoteTypes, StepLedgerCaptureFails
<1>. QED  BY <1>1, <1>2, <1>3, <1>4, <1>5, <1>6, <1>7 DEF StepKeeps

LEMMA CrashKeeps ==
  ASSUME IInv, NEW w \in Workers, Crash(w)
  PROVE  StepKeeps(w)
<1>1. JobTypes'
  BY TypeParts, ExitTypes DEF IInv, WorkerOK, Crash, Labels
<1>2. OnlyMoves(w)
  BY TypeParts DEF IInv, JobTypes, OnlyMoves, Crash, Exit
<1>3. WorkerOK(w)'
  BY TypeParts DEF IInv, WorkerOK, JobTypes, Crash, Exit
<1>. QED  BY <1>1, <1>2, <1>3, ControlKeeps DEF StepKeeps, Crash

LEMMA CreatePaymentKeeps ==
  ASSUME IInv, NEW w \in Workers, NEW p \in Payments, CreatePayment(w, p)
  PROVE  StepKeeps(w)
<1>1. JobTypes'
  BY TypeParts, SpawnTypes, JobIsJob DEF IInv, WorkerOK, CreatePayment, Emit, Labels
<1>2. OnlyMoves(w)
  BY TypeParts DEF IInv, JobTypes, OnlyMoves, CreatePayment, Spawn
<1>3. WorkerOK(w)'
  BY TypeParts DEF IInv, WorkerOK, JobTypes, RowTypes, CreatePayment, Spawn, Job
<1>4. RowTypes'
  BY TypeParts, EmitTypes DEF IInv, RowTypes, CreatePayment, Statuses, Steps, Events
<1>5. RemoteTypes'
  BY TypeParts DEF IInv, WorkerOK, RemoteTypes, CreatePayment
<1>6. Grows
  BY DEF Grows, Terminal, CreatePayment
<1>7. \A q \in Payments : RowOK(q)'
  BY TypeParts DEF IInv, RowOK, RowTypes, CreatePayment
<1>. QED  BY <1>1, <1>2, <1>3, <1>4, <1>5, <1>6, <1>7 DEF StepKeeps

LEMMA ResumeStaleKeeps ==
  ASSUME IInv, NEW w \in Workers, NEW p \in Payments, ResumeStale(w, p)
  PROVE  StepKeeps(w)
<1>1. JobTypes'
  BY TypeParts, SpawnTypes, JobIsJob DEF IInv, WorkerOK, ResumeStale, Labels
<1>2. OnlyMoves(w)
  BY TypeParts DEF IInv, JobTypes, OnlyMoves, ResumeStale, Spawn
<1>3. WorkerOK(w)'
  BY TypeParts DEF IInv, WorkerOK, JobTypes, ResumeStale, Spawn, Job
<1>. QED  BY <1>1, <1>2, <1>3, ControlKeeps DEF StepKeeps, ResumeStale

LEMMA ExpireStuckSubmissionsKeeps ==
  ASSUME IInv, NEW w \in Workers, NEW p \in Payments, ExpireStuckSubmissions(w, p)
  PROVE  StepKeeps(w)
<1>1. JobTypes'
  BY TypeParts, SpawnTypes, JobIsJob DEF IInv, ExpireStuckSubmissions, Labels
<1>2. OnlyMoves(w)
  BY TypeParts DEF IInv, JobTypes, OnlyMoves, ExpireStuckSubmissions, Spawn
<1>3. WorkerOK(w)'
  BY TypeParts
     DEF IInv, WorkerOK, JobTypes, ExpireStuckSubmissions, StuckSubmission, Spawn,
         Job
<1>. QED  BY <1>1, <1>2, <1>3, ControlKeeps DEF StepKeeps, ExpireStuckSubmissions

LEMMA ExpireStuckCapturesKeeps ==
  ASSUME IInv, NEW w \in Workers, NEW p \in Payments, ExpireStuckCaptures(w, p)
  PROVE  StepKeeps(w)
<1>1. JobTypes'
  BY TypeParts, SpawnTypes, JobIsJob DEF IInv, ExpireStuckCaptures, Labels
<1>2. OnlyMoves(w)
  BY TypeParts DEF IInv, JobTypes, OnlyMoves, ExpireStuckCaptures, Spawn
<1>3. WorkerOK(w)'
  BY TypeParts
     DEF IInv, WorkerOK, JobTypes, ExpireStuckCaptures, StuckCapture, Spawn, Job
<1>. QED  BY <1>1, <1>2, <1>3, ControlKeeps DEF StepKeeps, ExpireStuckCaptures

LEMMA ExpireStaleWalletsKeeps ==
  ASSUME IInv, NEW w \in Workers, NEW p \in Payments, ExpireStaleWallets(w, p)
  PROVE  StepKeeps(w)
<1>1. JobTypes'
  <2>1. CASE UNCHANGED <<pc, job>>
    BY <2>1, TypeParts DEF IInv, JobTypes
  <2>2. CASE Spawn(w, "sweep_load", Job(p, "saga"))
    BY <2>2, TypeParts, SpawnTypes, JobIsJob DEF IInv, Labels
  <2>. QED  BY <2>1, <2>2 DEF ExpireStaleWallets
<1>2. OnlyMoves(w)
  BY TypeParts DEF IInv, JobTypes, OnlyMoves, ExpireStaleWallets, Spawn
<1>3. WorkerOK(w)'
  BY TypeParts DEF IInv, WorkerOK, JobTypes, ExpireStaleWallets, Spawn, Job
<1>. QED  BY <1>1, <1>2, <1>3, ControlKeeps DEF StepKeeps, ExpireStaleWallets, Spawn

LEMMA ResumeAfterStepUpKeeps ==
  ASSUME IInv, NEW w \in Workers, NEW p \in Payments, ResumeAfterStepUp(w, p)
  PROVE  StepKeeps(w)
<1>1. JobTypes'
  <2>1. [Job(p, "saga") EXCEPT !.step = step[p], !.holdId = holdId[p]] \in Jobs
    BY TypeParts DEF IInv, RowTypes, Job, Jobs
  <2>. QED  BY <2>1, TypeParts, SpawnTypes DEF IInv, ResumeAfterStepUp, Labels
<1>2. OnlyMoves(w)
  BY TypeParts DEF IInv, JobTypes, OnlyMoves, ResumeAfterStepUp, Spawn
<1>3. WorkerOK(w)'
  BY TypeParts DEF IInv, WorkerOK, RowOK, JobTypes, ResumeAfterStepUp, Spawn, Job
<1>. QED  BY <1>1, <1>2, <1>3, ControlKeeps DEF StepKeeps, ResumeAfterStepUp

LEMMA DeliverCompletionKeeps ==
  ASSUME IInv, NEW w \in Workers, NEW p \in Payments, DeliverCompletion(w, p)
  PROVE  StepKeeps(w)
<1>1. JobTypes'
  BY TypeParts, SpawnTypes, JobIsJob DEF IInv, WorkerOK, DeliverCompletion, Labels
<1>2. OnlyMoves(w)
  BY TypeParts DEF IInv, JobTypes, OnlyMoves, DeliverCompletion, Spawn
<1>3. WorkerOK(w)'
  BY TypeParts DEF IInv, WorkerOK, RowOK, JobTypes, DeliverCompletion, Spawn, Job
<1>. QED  BY <1>1, <1>2, <1>3, ControlKeeps DEF StepKeeps, DeliverCompletion

LEMMA EnvironmentKeeps ==
  ASSUME IInv, NEW p \in Payments, Environment(p)
  PROVE  /\ RowTypes' /\ RemoteTypes' /\ Grows
         /\ \A q \in Payments : RowOK(q)'
<1>1. CASE ExpireStaleRequiresAction(p)
  BY <1>1, TypeParts DEF IInv, RowTypes, RemoteTypes, Grows, Terminal, RowOK, Statuses,
                         Steps, ExpireStaleRequiresAction
<1>2. CASE PSPResolves(p)
  BY <1>2, TypeParts DEF IInv, RowTypes, RemoteTypes, Grows, RowOK, PSPResolves
<1>3. CASE AccountConsumesFailed(p)
  BY <1>3, TypeParts
     DEF IInv, RowTypes, RemoteTypes, Grows, RowOK, AccountConsumesFailed
<1>. QED  BY <1>1, <1>2, <1>3 DEF Environment

-----------------------------------------------------------------------------
(* Invariance *)

\* The goroutines that did not move rely on what only grows.
LEMMA OthersKeep ==
  ASSUME IInv, NEW v \in Workers, pc'[v] = pc[v], job'[v] = job[v], Grows
  PROVE  WorkerOK(v)'
BY DEF IInv, WorkerOK, Grows

LEMMA StepKeepsInv ==
  ASSUME IInv, NEW w \in Workers, StepKeeps(w) PROVE IInv' /\ Grows
<1>1. TypeOK'
  BY DEF StepKeeps, TypeOK, RowTypes, JobTypes, RemoteTypes
<1>2. ASSUME NEW v \in Workers PROVE WorkerOK(v)'
  BY OthersKeep DEF StepKeeps, OnlyMoves
<1>. QED  BY <1>1, <1>2 DEF IInv, StepKeeps

LEMMA DriveKeeps ==
  ASSUME IInv, NEW w \in Workers, Drive(w) \/ CallFails(w) \/ Crash(w)
  PROVE  StepKeeps(w)
BY AdvanceKeeps, StepFraudKeeps, StepHoldKeeps, HoldTxKeeps,
   StepSubmitKeeps, ApprovedTxKeeps, PendingTxKeeps,
   StepPSPCaptureKeeps, CaptureTxKeeps, StepLedgerCaptureKeeps,
   LedgerTxKeeps, ReleaseHoldKeeps, FailTxKeeps, SweepLoadKeeps,
   StepUpTxKeeps, GatewayLoadKeeps, GatewayTxKeeps, GatewayMarkKeeps,
   StepHoldFailsKeeps, StepSubmitFailsKeeps, StepPSPCaptureFailsKeeps,
   StepLedgerCaptureFailsKeeps, CrashKeeps
   DEF Drive, CallFails

LEMMA StartKeeps ==
  ASSUME IInv, NEW w \in Workers, NEW p \in Payments, Start(w, p)
  PROVE  StepKeeps(w)
BY CreatePaymentKeeps, ResumeStaleKeeps, ExpireStuckSubmissionsKeeps,
   ExpireStuckCapturesKeeps, ExpireStaleWalletsKeeps,
   ResumeAfterStepUpKeeps, DeliverCompletionKeeps
   DEF Start

LEMMA EnvironmentKeepsInv ==
  ASSUME IInv, NEW p \in Payments, Environment(p) PROVE IInv' /\ Grows
<1>1. UNCHANGED <<pc, job>>
  BY DEF Environment, ExpireStaleRequiresAction, PSPResolves, AccountConsumesFailed
<1>2. /\ RowTypes' /\ RemoteTypes' /\ Grows
      /\ \A q \in Payments : RowOK(q)'
  BY EnvironmentKeeps
<1>3. TypeOK'
  BY <1>1, <1>2 DEF IInv, TypeOK, RowTypes, RemoteTypes
<1>4. ASSUME NEW v \in Workers PROVE WorkerOK(v)'
  BY <1>1, <1>2, OthersKeep
<1>. QED  BY <1>2, <1>3, <1>4 DEF IInv

LEMMA InvNext ==
  ASSUME IInv, [Next]_vars PROVE IInv' /\ Grows
<1>1. CASE Next
  BY <1>1, DriveKeeps, StartKeeps, StepKeepsInv, EnvironmentKeepsInv DEF Next
<1>2. CASE UNCHANGED vars
  BY <1>2 DEF IInv, TypeOK, WorkerOK, RowOK, Grows
<1>. QED  BY <1>1, <1>2

\* The inductive invariant holds in every reachable state.
THEOREM Invariance == Spec => []IInv
<1>1. Init => IInv
  BY InvInit
<1>2. IInv /\ [Next]_vars => IInv'
  BY InvNext
<1>. QED  BY <1>1, <1>2, PTL DEF Spec

\* Every state of the saga is well typed.
THEOREM TypeCorrect == Spec => []TypeOK
<1>1. IInv => TypeOK
  BY DEF IInv
<1>. QED  BY <1>1, Invariance, PTL

\* The ledger never books money the processor has not taken.
THEOREM LedgerFollowsProcessor == Spec => []BookedImpliesCollected
<1>1. IInv => BookedImpliesCollected
  BY DEF IInv, RowOK, BookedImpliesCollected
<1>. QED  BY <1>1, Invariance, PTL

\* A payment reported as succeeded was charged and is booked.
THEOREM SuccessIsBooked == Spec => []SucceededIsBooked
<1>1. IInv => SucceededIsBooked
  BY DEF IInv, RowOK, SucceededIsBooked
<1>. QED  BY <1>1, Invariance, PTL

\* No money is taken without an approved authorization.
THEOREM CollectionIsAuthorized == Spec => []CollectedWasAuthorized
<1>1. IInv => CollectedWasAuthorized
  BY DEF IInv, RowOK, CollectedWasAuthorized
<1>. QED  BY <1>1, Invariance, PTL

\* stepLedgerCapture never dereferences a missing hold_id.
THEOREM LedgerKnowsTheHold == Spec => []HoldIdKnown
<1>1. IInv => HoldIdKnown
  BY DEF IInv, WorkerOK, HoldIdKnown
<1>. QED  BY <1>1, Invariance, PTL

\* No goroutine changes the ending of a payment.
THEOREM EndingIsFinal == Spec => TerminalIsFinal
<1>1. IInv /\ [Next]_vars =>
        [\A p \in Payments :
           status[p] \in Terminal => status'[p] = status[p] /\ step'[p] = step[p]]_vars
  BY InvNext DEF Grows
<1>. QED  BY <1>1, Invariance, PTL DEF Spec, TerminalIsFinal
=============================================================================
