# payment-service in TLA+

A verification project for the payment saga of this repository: TLA+ modules
translated from the Go source, TLC configurations that check them on small
instances, and TLAPS proofs that hold for every instance. Paths are relative to
`src/`; `saga.go` is `internal/saga/saga.go`.

    tlc -workers 2 -config concurrent.cfg MCPaymentSaga
    tlc -workers 2 -config consumer.cfg MCCompletionConsumer
    tlc -workers 2 -config edges.cfg MCEdges
    tlapm PaymentSagaProofs.tla

## 1. Inventory of the system

| part | state it keeps | operations | talks to |
|---|---|---|---|
| saga engine, `internal/saga/saga.go` | the `payments` row: status, step, hold_id, psp_reference | `Advance` and its five steps, `failAndCompensate`, six sweepers, step-up, `CompleteFromGateway` | everything below |
| payment creation, `internal/httpapi/server.go` | none of its own | `createPayment`, `executeCreate`, `resumePayment`, `streamEvents` | idempotency store, engine, bus |
| idempotency store, `internal/idempotency` | `idempotency_keys`: hash, response, locked_at | `Begin`, `Complete`, `Purge` | Postgres |
| completion consumer, `internal/consumer` | Kafka offsets, `processed_events` | `Run`, `handle`, `handleWithRetry`, `deadLetter` | `CompleteFromGateway` |
| outbox, `internal/outbox` | `outbox` rows, processed_at | `Write` in a transaction, `drainOnce` | Kafka |
| processor adapters, `internal/psp` | circuit breaker | `Authorize`, `Capture` with retries | the card and wallet processor |
| account client, `internal/accountclient` | none | `Hold`, `Capture`, `Release` by request id | account-service (ledger) |
| fraud client, `internal/fraudclient` | none | `Screen`, failing open below a limit | fraud-service |
| status bus, `internal/pubsub` | subscriber channels of 8 | `Subscribe`, `Publish` | SSE stream |
| reconciler, `internal/saga/reconcile.go` | last snapshot | `Run`: settlement report against booked captures | processor, Postgres |
| start-up, `cmd/server/main.go` | tickers | starts all of the above | |

How they interact. An HTTP request claims its idempotency key, inserts the
payment with its `requested` event and starts a goroutine in `Advance`.
`Advance` loads the row, performs one remote call, writes the next step in one
transaction that is conditional on what it loaded, and loops. Nothing else
coordinates goroutines: `ResumeStale` starts another `Advance` for any
payment whose row has not been touched for a while, sweepers compensate, the
Kafka consumer calls `CompleteFromGateway`, the step-up endpoint re-enters the
loop, and every replica does all of this. The conditional updates (`transition`
checks the step, `transitionWith` checks the status) and the idempotency of the
remote services are all there is against interleaving. Every remote call may
succeed with its answer lost. Every transaction may abort. A process may die
anywhere. Two endings also travel as events: account-service consumes
`payments.payment.failed.v1` and releases a hold that is still active.

What makes each part correct:

* saga: money is taken before it is booked and booked before the customer is
  told; only under an approved authorization that was announced; an ending is final,
  announced once and in the transaction that writes it; a captured payment is never
  compensated; a failed one frees its funds; every payment ends;
* creation: a key has one executor at a time, a stored response is replayed, and
  only the owner of the body hears it;
* consumer: an event is committed only when it is processed or a dead letter, it is
  marked only when the saga has accepted it, and dead-lettered only when its own
  attempts are used up;
* outbox relay: every row is published, after its transaction, and again only after a
  failure (nobody promises an order, and two relays side by side keep none);
* status bus: an ending a subscriber learns of is true, no subscriber makes the saga
  wait, and no publisher sends on a closed channel;
* reconciler: an alarm is raised for drift and only for drift;
* sweepers: what lost its goroutine gets another, what waits too long is ended;
* processor adapters: only unavailability is retried, and neither an outage nor an
  open circuit is ever taken for a decline.

## 2. Modules

`PaymentLifecycle` is the abstract specification: what the rest of the system
may rely on, whatever number of goroutines drive a payment. A payment is
created, parked and un-parked, its money is collected, then booked, then it
succeeds; or it fails; the ending is announced in the step that makes it. Only
a parked payment may end without an announcement, by expiry.

`PaymentSaga` is the saga engine. Its state:

| variable | in the code |
|---|---|
| `status`, `step`, `holdId`, `pspRef` | columns of the payments row; the last two say whether the column is null |
| `outbox` | the types of the payment's outbox rows in the order of their ids |
| `processed` | `processed_events`, one completion event per payment |
| `pc`, `job` | goroutines: the place of each in the code and the row as it loaded it |
| `hold`, `failedSeen` | account-service (external): the hold, and whether `payment.failed` was consumed |
| `auth`, `collected`, `completion` | the processor (external): authorization, money taken, completion event |

A step of a goroutine is one transaction or one remote call, which is where
another goroutine can get in between. `Advance` is the load and the switch;
`StepFraud`, `StepHold`/`HoldTx`, `StepSubmit`/`ApprovedTx`/`PendingTx`,
`StepPSPCapture`/`CaptureTx`, `StepLedgerCapture`/`LedgerTx` are the five steps
with the call and the transaction apart; `...Fails` is the same call answered
by an error, with or without its effect; `ReleaseHold`/`FailTx` is
`failAndCompensate`. Screening a payment has no effect outside, so its call and
its transaction are one step. Sweepers scan (`ResumeStale`,
`ExpireStuckSubmissions`, `ExpireStuckCaptures`, `ExpireStaleWallets`), then
load (`SweepLoad`), then compensate, as the code does;
`ExpireStaleRequiresAction` is the single update it is in the code. The
completion event is delivered as long as it is not marked
(`DeliverCompletion`), possibly to two replicas at once, and `GatewayLoad`,
`GatewayTx`, `GatewayMark` are effect first and mark second. `Crash` ends a
goroutine wherever it is; a replica that dies is several of these.

`Transition`, `TransitionWith` and `Emit` are the where clauses and the outbox
write; each transaction either does all of its writes or, when its update
matches no row or (`"db" \in Faults`) the database refuses, none of them.

`IdempotentCreate` is `POST /payments` under an `Idempotency-Key`. Its state is
the row of each key (`record`), the payments made under it (`made`) and where
each request is (`pc`, `req`, `result`, `reply`). Each statement is an
action: `Claim` (insert on conflict do nothing), `ReadRecord`, `TakeOver` (the
conditional update of an expired lease), `Execute`, `Complete`. `Abandon` is a
cancelled request context or the death of the process. Time is reduced to a
lease being live or expired.

`IdempotencyContract` is its abstract specification: a key is taken by one request at a
time, of one body, unless it has its answer; who serves it pays and then settles the
answer or leaves; an answer names only a payment that was made, is stored once and is
replayed to the same body only; a key may be forgotten when nobody serves it. The
mapping reads `serving` off the program counters and `body` and `answer` off the row.
The contract lets a request leave after paying and another one take the key: this is
what the code does, and `bad_key_pays_twice` shows the price.

`CompletionConsumer` is the Kafka consumer: replicas of one consumer group that
take one partition (records are independent of other partitions). Its state:

| variable | in the code |
|---|---|
| `owner`, `committed` | Kafka (external): who the partition is assigned to, the group's committed offset |
| `cursor` | what a client has polled since the partition was assigned to it |
| `pc`, `task` | `Run` and `handleWithRetry`: the record in hand, the end of its batch, the attempt, `settled` |
| `marked`, `dead` | `processed_events`, the dead-letter topic |
| `accepted`, `errors` | history: records for which `CompleteFromGateway` returned nil; errors of `handle` with each record |

`Poll`, `Validate`, `CheckSeen`, `Effect`, `Mark`, `DeadLetter` and `Commit` are
the calls of `Run`, `handle` and `deadLetter`, one action each; `Retry` and
`NextRecord` are what the two loops do with their answers. A statement that
fails may have had its effect. `Assign`, `Revoke` and `Crash` are the consumer
group: a replica whose partition is taken away goes on with the batch it holds,
and what it commits then is nothing. What completing does to the payment is
`GatewayLoad`/`GatewayTx`/`GatewayMark` of `PaymentSaga`; here `Effect` is its
answer: nil, which the consumer takes for an effect and marks, or an error, which it
retries. A nil need not mean an effect (saga.go:140-141, 610-612): that is for
`PaymentSaga` to say, and `bad_early_completion` says it. The two modules meet at this
answer: `PaymentSaga` delivers a completion as long as it is not marked, and
`CompletionConsumer` says when the consumer really does so.

`OutboxRelay` is the relay: replicas that run `drainOnce` on the same table.

| variable | in the code |
|---|---|
| `outbox`, `marked` | the committed rows, and those with `processed_at`; a row is its rank in the order of ids |
| `todo`, `done` | the batch of each relay: rows to produce, rows produced and not yet marked |
| `locked` | Postgres (external): whether the transaction still holds the row locks |
| `published`, `duplicated` | Kafka (external): rows with a copy, with several |
| `abandoned` | history: rows whose batch failed or lost its locks |

`Lock` is the query with its limit, order and `skip locked`; `Produce` one
`ProduceSync`; `Mark` the update and the commit. A batch can end otherwise
(`ProduceFails`, with or without a stored record, `NoSchema`, `Abort`), and
`LoseConnection` takes the locks from a relay that goes on producing. Ids are drawn
before the commit, so `Write` commits rows in any order.

`StatusStream` is one payment's status feed: goroutines commit an update and
publish it afterwards (`CommitUpdate`, `PublishBegin`, `PublishTo`, `PublishEnd`),
streams load the status, subscribe, receive, unsubscribe and close their channel,
one action each. The two locks of the bus are guards: publishers share it,
`Subscribe` and `Unsubscribe` need it alone (`sending = {}`).
`ExpireParked` is never published, nor is a commit whose answer is lost, for
`transition` and `transitionWith` publish only when the commit returned no error. A
payment is updated any number of times (a redelivered approval writes
`submitted_to_gateway` again and again, saga.go:144), so a channel may be full, and
`PublishTo` then drops. Heartbeats are left out.

`Reconciliation` is `Reconciler.Run` beside payments that are being settled and
booked and a processor that may begin its report anew. A timestamp is the period of
the processor's report it falls into: `report_since`, `captured_at` and the
`updated_at` of a booking are compared only with each other. What the snapshot
counts is kept as the sets that are logged.

`ProcessorClient` is `resilientProcessor` with the HTTP plumbing under it: `Send`,
`Refuse` (the breaker), `Answers` (approved, declined, pending or a 4xx),
`NoAnswer` (a 5xx, a timeout, a broken body), and `retry` after each of them. The
breaker is gobreaker, modelled from the settings in `withResilience` with its
generations, which is how a call that began before the circuit opened does not count
after it; they are that library's and external. `Authorize` and `Capture` have a
breaker each and the same code. The consumer's calls run under the context of the
process, which `Stop` ends: in a backoff `retry` then returns the error of the context,
for which the saga has no case (saga.go:399-408, 455-463), so it is a refusal here as
there.

`SweeperClock` is the sweepers against the clock, which `PaymentSaga` leaves out. A
payment is here only where it waits (`place`) and for how long (`age`, ticks of
`ResumeInterval` since `updated_at`); what an attempt or a compensation does is in
`PaymentSaga`. `Tick` starts every sweeper that finds a row. What a sweep gets done is
any `Batches` of its rows, up to `Limit`, in any order, and none of those whose scan,
load or compensating transaction fails, which may be all of them; the sweep of the
parked payments is one statement and does all of them or none. An attempt makes
progress (`Progress`), fails at a remote service and touches the row (`RemoteFails`,
the three callers of `touch`), or ends without touching it (`StopUntouched`, which
includes a failing `Hold`). The customer (`StepUp`) and the processor's report
(`CompleteFromGateway`) move a payment on as well. Attempts overlap with later ticks
and sweeps run in any order. The alert, which runs once a minute in the code, runs
with the others here, the case that favours it.

`MCPaymentSaga`, `MCIdempotentCreate`, `MCCompletionConsumer` and `MCSweeperClock`
give the constants small values. `MCEdges` holds small instances of the five modules
above: they share no state, so its variable `part` says which one a behaviour moves
while the others rest in their initial states; its states are those of the five
instances, side by side. The modules ending in `Proofs` and `PaymentSagaRefinement`
hold the proofs of section 5.

Each mutated operator in a module (named for what it gets wrong, and placed just
before the definition it imitates) exists to show that a property can fail: put
in place of its definition, it makes TLC find the property violated.

## 3. What the runs check

| run | instance | shows |
|---|---|---|
| `concurrent` | one card or one wallet payment, three goroutines, crashes and aborted transactions | what holds in every interleaving: `BookedImpliesCollected`, `SucceededIsBooked`, `CollectedWasAuthorized`, `CollectedWasAnnounced`, `HoldIdKnown`, `OutboxTellsTheOutcome`, `TerminalIsFinal`, and that the saga implements `PaymentLifecycle` |
| `serial` | a card and a wallet, one goroutine at a time, crashes and aborts | what the comments claim and only one goroutine at a time keeps: `FailedNotBooked`, `AuthorizedAnnouncedOnce`; and that a failed payment frees its funds, also through the event (`FailedFreesFunds`) |
| `card_settles` | a card and a wallet, one goroutine at a time, no crashes | every card payment ends (`CardSettles`), whatever happens to the wallet |
| `create` | four requests, one key, two bodies, abandonment and failing statements | `OneClaimerAtATime`, `RepliesMatchRequest`, and that creation implements `IdempotencyContract` (`ImplementsContract`), by which a key with an answer makes no further payment |
| `consumer` | two replicas, three records, one of them poison, failing statements, two crashes or rebalances | `CommittedIsSettled`, that an event is marked or dead-lettered for a reason (`SettledForAReason`), and that every event is processed or dead-lettered in the end (`EveryEventSettles`) |
| `edges`, relay | two relays, three rows, the last without a schema, batches of two, two disturbances | a marked row is published (`MarkedIsPublished`), side by side relays do not duplicate (`DuplicatesNeedAFailure`), every row before an unframable one is published (`EveryRowIsPublished`) |
| `edges`, stream | two goroutines, one stream with a channel of one, three updates | `NoSendOnClosedChannel`, `EndingToldIsTrue`, and that a publication ends though nobody reads (`SagaIsNotBlocked`) |
| `edges`, reconciler | one capture, a pass at boot beside the ticker's, one restart of the processor | `MissingMoneyIsReal`, `PhantomNeedsARace`, and that money taken for a failed payment is reported (`LostMoneyIsReported`) |
| `edges`, processor client | two calls of three attempts, one of them under the context of a process that may stop, a breaker that trips at three | a call is taken for refused only when the processor refused it or when its context has ended (`DeclinesNeedAnAnswer`); the counts of the breaker are those of its generation (in `ClientTypeOK`) |
| `edges`, clock | a payment to be driven and one parked, a limit of one row | no payment is forgotten, though sweeps fail (`NobodyIsForgotten`), and one whose call failed rests (`RetriesBackOff`) |

Six more runs show where the code does not do what a comment or document of the
repository says; each checks that one claim and TLC prints the behaviour.

| run | claim | what happens |
|---|---|---|
| `bad_hold_released_then_captured` | the hold is never released past the processor's capture (saga.go:467-468) | `failAndCompensate` releases before it records the failure (593, 600). A crash in between leaves the row at `processing`; the resumed saga captures, and the ledger can never book it. One goroutine is enough |
| `bad_stepup_bypassed` | `requires_action` is left only by a second factor (server.go:241-242) | one goroutine parks the payment, another that was past screening writes `funds_held, processing`: `transition` compares the step, and both rows are at `fraud_screened` |
| `bad_early_completion` | an event is marked only when durably applied (saga.go:131-134) | a completion that overtakes the write of `submitted_to_gateway` is taken for a duplicate, and marked |
| `bad_outage_never_ends` | a payment that cannot reach the processor fails past the timeout (saga.go:204-207, 456-457), an unbooked capture becomes loud (485-486), an abandoned wallet is expired (292-295) | `touch` resets `updated_at` on every failed attempt, and all these timeouts are measured from it: retried every half minute, a payment never reaches five minutes, nor a capture the two minutes of the alert. The wallet sweep filters on `method`, a column of `instruments` and not of `payments`, and is refused on every tick. In an outage of both services four payments stay where they are for ever |
| `bad_unsettled_committed` | an unsettled batch is not committed past (consumer.go:71-74) | the offsets are left, but the client polls on from where it is, and the next settled batch commits everything polled |
| `bad_key_pays_twice` | the same key and payload replay the response (idempotency.go:2-3) | payment and response are written in two transactions; a request that dies in between leaves a lease that expires, and the retry pays again |

The models show further consequences of the same lines, which have no run of
their own:

* with two goroutines a captured payment may be failed, and `FailedNotBooked` does
  not hold: a sweeper or a step that loaded the row before the capture still fails it
  afterwards, since `transitionWith` checks the status and not the step
  (saga.go:565-577). `HoldKeptAtCheckpoint` is the same hazard with a crash;
* a capture whose answer was lost leaves the payment at
  `submitted_to_gateway` with the money taken; `ExpireStuckCaptures` then
  fails it (saga.go:236-271), although its comment (237-239) assumes the money
  was not taken;
* a late `stepFraud` verdict parks a payment whose funds are already held, and
  `ExpireStaleRequiresAction` then fails it with the hold active and without an
  event, although saga.go:184-185 says no funds are held at that point
  (`PaymentLifecycle` allows the silent expiry and knows of no holds);
* a declined completion is marked as processed even when the failure could not be
  written, for `failAndCompensate` only logs that error (saga.go:610-612);
* a goroutine that calls `Hold` after the failed event was consumed leaves a hold
  that nothing releases; it takes two goroutines;
* a poll that reports an error of some partition skips the records it brought for
  the others (consumer.go:58-63), with the effect of `bad_unsettled_committed`
  (`Faults = {"fetch"}`);
* a request slower than a lease (`"slow"`) makes a key execute twice, and its
  `Complete`, which is not fenced, replaces the response of its successor; the
  take-over does not compare `request_hash` (idempotency.go:87-92), so a reader of
  an older claim may even take over one of another body;
* a row whose topic has no schema (outbox.go:98-101) fails its whole batch: the rows
  before it are produced again on every poll, the rows behind it in the batch wait,
  and fifty such rows stop the relay. `EveryRowIsPublished` is stated for
  the rows before the first of them;
* a stream that subscribes after the ending was published, though it loaded the
  status before, never closes (server.go:311, 333); nor does one whose channel was full
  (pubsub.go:47), or whose ending was committed by a transaction that returned an error
  (saga.go:551, 583), or by the expiry of a parked payment, which is not published at
  all. So no property says that a stream closes. Updates of two goroutines may also reach
  it out of order: told `failed`, it is right; told `processing`, it may be late;
* "BOOKED BUT NEVER SETTLED", which reconcile.go:146-148 takes for a broken invariant,
  is also raised when the payment was booked between the fetch of the report and the
  query for the bookings, and when its money was taken before `report_since` and
  booked after. `PhantomNeedsARace` says that there is no third way;
* a sweep takes its rows without an order (saga.go:112), and waiting wallets stay
  stale: with more of them than the limit the others may wait for ever.
  `NobodyIsForgotten` is about the payments a sweep has room for;
* a failing `Hold` does not touch the row (saga.go:380): the payment is tried again
  on every tick, and no sweeper bounds that;
* a 4xx is an error for the breaker as well (`withResilience` sets no
  `IsSuccessful`), so refused requests can open the circuit for the others; and a
  context that ends during a backoff returns `context.Canceled` (psp.go:123), which
  the saga reads as a refusal. Only the Kafka path passes a context that can be
  cancelled (saga.go:150), when the process is stopping. What the saga then does runs
  under that same context: its release and its transaction fail as well, and so does
  the mark of the event, so the payment is taken up again after the restart;
* the database of a sweep may be out of order for as long as it likes: a payment is
  then neither resumed nor expired, however old.

### Bounds, and why they are enough

Payments share nothing but the slots for goroutines, so one payment with three
goroutines shows the interleavings of a payment; `OnePaymentCreated` stops
exploring states with a second one in `concurrent`, while both kinds are
explored. Three goroutines are one that drives, one that races it and one that
compensates or completes. The steps of the row only move forward, or back to
`fraud_screened` through a second factor, so the state space is finite without
any counter: retries, redeliveries and crashes are unbounded. In `serial` and
`card_settles` one slot serves two payments in turn, so a goroutine may die or
return at any point and another one take over; two overlapping goroutines for one
payment are what they leave out, on purpose, and `concurrent` puts in. In
`create` requests never return, so the number of requests bounds it: four are
a first one, its retry, and two that race the retry, also after a purge; two
bodies make a mismatch possible. Its behaviours end when all have been answered, hence
`CHECK_DEADLOCK FALSE` there; the saga is checked for deadlock.

In `consumer` three records give a batch before, of and after the poison one in
every division into polls, two replicas a handling that overlaps with its own
redelivery, and `MaxInterruptions = 2` one crash or rebalance during the recovery
from another. `MaxAttempts` is 3, as in the code. The log is finite and is
consumed in the end, hence `CHECK_DEADLOCK FALSE`. The dead-letter queue accepts
and polls bring no errors in this run: `bad_unsettled_committed` shows what
happens otherwise.

In `edges`, two relays are one that holds the locks and one that must skip them,
three rows and batches of two a batch cut short, a second batch, and an unframable
row behind a good one; two disturbances a failure while recovering from another
(they are bounded because relays that fail for ever publish for ever). One stream and two
publishers show the races of a channel, three updates a park, a return and an
ending, and a channel of one is full before the ending comes (the code's has eight
places, and updates have no bound); more streams share nothing but the lock. One capture is enough for the
reconciler, which compares payment by payment. `MaxRestarts = 1` gives a payment
settled before and booked after a restart. `MaxCounted` bounds the requests the
breaker counts before its interval clears them; the code trips at five, the instance
at three with two callers of three attempts, so that the circuit opens from one call's
retries, half-opens and closes or opens again while the other call is in flight.
One of the two callers is the consumer's (`Cancellable`), for the others are detached
from the context of the process.
Ages are not told apart past `Oldest`, which is not below any timeout; the code's
timeouts are 2 ticks for a stale row, 20 for the gateway, 60 for a second factor and
8 for the alert, and the instances keep their order (stale before all others), which is
what the behaviours depend on. Parts stop when their work is done, hence
`CHECK_DEADLOCK FALSE`.

The other modules have no clock. A row may be stale whenever a sweeper looks, and a lease may
expire once nobody works under it (`"slow" \in Faults` lifts that). This is
sound for safety: every timing is among the behaviours. What depends on the
relation of two timeouts is `SweeperClock`.

### Fairness

`FairSpec` assumes what the program's scheduling gives:

* a goroutine that can take its next local step does (weak fairness of
  `GoesOn`): the Go runtime and Postgres;
* a remote service that is called again and again answers at last (strong
  fairness of the four calls): each may fail any finite number of times;
* the tickers of `cmd/server/main.go:102-107` run for ever: a sweeper that finds a
  payment on tick after tick gets a goroutine for it. Fairness is strong because
  a model slot may be busy when the ticker fires, and the program's slots are not
  limited. With two payments no sweep is full; what its limit of 20 does is in
  `SweeperClock`;
* expiry and the consumption of `payment.failed` happen when they stay possible
  (weak fairness).

For the consumer: the loop of `Run` goes on (weak fairness of `Work`, which
includes that a registry outage ends), and the group assigns a partition nobody
has. Statements may fail for ever: the retry budget ends in the dead-letter queue.

For the edges: the poll of a relay goes on (`RelayFairness`: the ticker of
`Relay.Run`); a publisher inside `Publish` goes on (`StreamFairness`: the Go runtime),
while the handler of a stream need not, for its client may be as slow as it likes; the
reconciler's
ticker fires for ever and the report and the query succeed again and again (strong
fairness of `FetchSettlement` and `Compare`, for `ReportUnavailable` may come in
between), and a settled capture outgrows the grace period. In the clock, time goes on,
a due sweep is over some time and an attempt ends, one way or another (weak fairness
of `GoesOn`), and a sweep that runs again and again does not fail every time (strong
fairness of `ResumeWorks` and `ParkedSweepWorks`, in `OutageSpec` of `OtherSweepsWork`
too): each may fail any finite number of times, for it is a statement of Postgres, and
nothing but the next tick repeats it. In `OutageSpec` nothing is assumed of the services,
which are down.

The processor is not assumed to report a wallet, nor a customer to give a second
factor. `CardSettles` is checked without crashes: one that strikes for ever would
keep any goroutine from finishing.
`FailedFreesFunds` holds with crashes, since the failure and its event are one
transaction and account-service does the rest.

## 4. Hazards

`PROJECT.json` lists, at the line where each bites, what is hard to test in this
code and which property covers it. Those without a property are not kept by the code,
or only as long as nothing takes longer than a lease: the swallowed error of a failure
transaction, the late and the unknown hold, the ending a stream misses, the completion
and the take-over of a request slower than its lease. Section 3 describes each.

## 5. What is proved

### The saga

The theorems of `PaymentSagaProofs` and `PaymentSagaRefinement` hold for any set of
payments, any number of goroutines and any faults, from `SagaAssumption` alone (wallet payments are
payments, and an idle slot names none).

`IInv` is the inductive invariant. None of the safety invariants is inductive:
that a booked payment was collected depends on where goroutines are. `IInv` says

* of a row (`RowOK`): which steps go with which status; that from `funds_held` on
  the hold_id is stored; that `psp_captured` means collected and `captured`
  booked; that a psp_reference, money taken or an approving event mean an
  approved authorization;
* of a goroutine (`WorkerOK`): the step it loaded is the one its place in the
  code supposes, and what it has learnt from a remote service is still so: it
  writes `psp_captured` only if the money was taken, it enters the ledger step
  only with a hold_id, and it writes `succeeded` only if the hold is captured.

A goroutine may act on facts it learnt long ago because those facts never cease
to hold: `Grows` states it of every step (a payment exists, hold_id, approval,
collection, booking, an ending). For each action one lemma
(`<Action>Keeps`) shows that it moves only its own goroutine, `Grows`, and the
parts of `IInv` for its goroutine and the rows; `OthersKeep` concludes for the
other goroutines from `Grows` alone. `InvInit`, `InvNext` and `Invariance` combine
them, and the named theorems follow: `TypeCorrect`, `LedgerFollowsProcessor`,
`SuccessIsBooked`, `CollectionIsAuthorized`, `LedgerKnowsTheHold` and
`EndingIsFinal` (an action property, from `Grows`).

`PaymentSagaRefinement` adds three results. `OutboxIsTruthful` is the invariant
`OutboxTellsTheOutcome`: it needs one more strengthening, `OutboxOK`, which ties
the events of a payment to its row, and `StatusMoves`, the moves a row can make.
`SagaImplementsLifecycle` is the refinement: `LifecycleStep` says when a step of
the saga is one of `PaymentLifecycle`, and the steps fall into five classes,
each with a lemma of its own: quiet ones, moves of the row that end nothing
(progress, parking, un-parking), endings with their event, the two edges
(creation and expiry), and money at the remote services. `CollectionIsAnnounced` is
`CollectedWasAnnounced`: a psp_reference is stored together with the `authorized` event
or upon the processor's approving one, and a goroutine that captures has loaded one, so
`AnnouncedOK` travels with the row and the goroutines.

### Creation

`IdempotentCreateProofs` holds for any requests, keys and bodies, with crashes and
failing statements. The types hold without any assumption (`CreateTypes`, from
`TypeInv`: a request has a key and a body once it arrived, and a result once it is
about to complete). The rest assumes that no request outlasts its lease (`"slow" \notin
Faults`: the code has no fence against that, so the assumption is needed). `IInv` says
that a claim has one holder and a live lease, without a response (`ClaimOK`), that a
stored response is of a request with the key and body of the row, and so is a claim
about to be taken over (`RecordOK`). From it follow `ClaimIsExclusive`,
`ReplaysAreOfTheRequest`, and, since whoever could change a completed key would hold a
claim on it (`CompletedKeyStep`), `CompletedKeyPaysNoMore`.

`CreateImplementsContract` is the refinement. `AnswersOK` adds that what a request is
about to answer is so: its payment, if it names one, is made. One lemma per statement
names the step of the contract it is (`ClaimTakes`, `TakeOverTakes`, `ReadReplays`,
`ExecutePays`, `CompleteSettles`, `EndLeaves`, `ArriveAsks`, `TimeForgets`); a take-over
is a `Take` because of `RecordOK`, and a `Complete` is a `Settle` because of `ClaimOK`.

### The consumer

`CompletionConsumerProofs` holds for any number of replicas, records and attempts.
`SettlementHasAReason` needs that a replica about to mark has the saga's nil, and that
the attempts of a replica at a record are errors of that record (`EffectInv`).
`NothingIsCommittedAway` assumes that dead letters are accepted and
that polls report no errors, the two places where the code does lose records. Its
`CommitInv` says that all a replica has polled is settled, except what is in its
hands from the present record on; this survives another replica's work, a
rebalance and a crash, because a commit is of what was polled under the present
assignment.

### The edges

* `OutboxRelayProofs`, for any relays, rows and disturbances: a row that was published
  is marked, abandoned, or done in a batch that still has its locks
  (`PublishedAccounted`), and locked batches are disjoint and unmarked
  (`LocksExclude`). So a row read again was abandoned: `ReplicasDoNotDuplicate`; and
  what is marked was produced: `NoEventIsLost`.
* `StatusStreamProofs`, for any publishers, streams and buffer: a publisher serves
  only channels still in the bus (`PublisherOK`), for leaving it waits for the
  publishers: `SendsAreSafe`. Every update on its way that tells of an ending is the row
  itself (`Lasts`): `EndingsAreTrue`.
* `ProcessorProofs`, two modules about the processor. For any captures, runners and
  restarts of `Reconciliation`: the report has a capture exactly when its money was taken
  in its period, and a booking is not earlier (`PaymentOK`); a report in hand stays true
  of its period (`ReportOK`). Hence `MissingIsNeverFalse` and `PhantomsAreRaces`. For any
  calls, attempts and thresholds of `ProcessorClient`: the requests a breaker counts are
  those of its generation that failed, succeeded or are in flight (`BreakerOK`,
  `CallsOK`), hence `ClientTypes`; and a call is told an answer only if the
  processor gave it, but for a refusal when its context has ended: `DeclinesAreAnswers`.
* `SweeperClockProofs`, for any payments, timeouts and limit, from `ClockAssumption`
  (finitely many payments, positive timeouts, `Oldest` not below them): a payment whose
  attempt gave up is no older than it has rested (`RestingOK`), however sweeps fail and
  attempts overlap. Hence `FailedCallsRest`.

### Only model-checked

Liveness (`CardSettles`, `FailedFreesFunds`, `EveryEventSettles`,
`EveryRowIsPublished`, `SagaIsNotBlocked`, `LostMoneyIsReported`, `NobodyIsForgotten`)
is out of the prover's
reach. So is what `serial` says of one goroutine at a time (`FailedNotBooked`,
`AuthorizedAnnouncedOnce`): nothing in the code keeps a second goroutine away, so a
theorem would have to suppose what no lock or lease grants. Every other invariant,
action property and refinement of a passing run is proved.

## 6. Plan

In this order, most important first; done modules are marked.

1. `PaymentLifecycle`, `PaymentSaga`, `PaymentSagaProofs` (done): the saga.
2. `PaymentSagaRefinement` (done): the saga implements its lifecycle.
3. `IdempotentCreate`, `CompletionConsumer` and their proofs, `IdempotencyContract` and
   the proof that creation implements it (done).
4. `OutboxRelay`, `StatusStream`, `Reconciliation`, `SweeperClock` with their
   proofs, and `ProcessorClient` (done): the edges of the saga.

What could follow: an abstract at-least-once log that `OutboxRelay` and
`CompletionConsumer` implement, and one instance in which relay and consumer meet.

## 7. What is not modelled

* `gatewayauth` and `stepup.go` decide about one request from its headers and
  keep no state; the verdict of the step-up policy is a precondition of
  `ResumeAfterStepUp`.
* The envelope and its validation work on single messages. That a topic may have no
  schema, or the registry no answer, is in `OutboxRelay` and `CompletionConsumer`.
* `main.go` and `config.go` beyond tickers and timeouts are wiring: migrations run
  before anything else, and a shutdown is a crash as far as goroutines go.
* In `Reconciliation`, timestamps cut to seconds and clocks that differ between the
  processor and Postgres.
* In `SweeperClock`, waiting for a database: a sweep does not last a tick, nor an
  attempt two.
* `Reverse` of the processor adapters has no caller.
* Amounts, currencies, quotes and failure codes do not steer the saga; the one
  place an amount matters, the fail-open limit of the fraud client, is a choice
  of verdict in `StepFraud`.
* A payment is created by `executeCreate` for an instrument that exists, so an
  unknown method (`psps.For`) fails like a declined authorization; this is the
  refused branch of `StepSubmit`.
* account-service and the processors are external: they are modelled by how this
  code uses them, idempotent by request id and by reference, a hold released or
  captured once. A hold expiring by itself in account-service is left out.
