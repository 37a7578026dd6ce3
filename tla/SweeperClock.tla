----------------------------- MODULE SweeperClock -----------------------------
(***************************************************************************)
(* The sweepers of the saga against the clock: what their timeouts bound,  *)
(* when every attempt and every sweep may fail and a failed attempt        *)
(* touches updated_at.  A tick is the sweepers' interval (ResumeInterval); *)
(* PaymentSaga has what an attempt and a compensation do, here a payment   *)
(* is only where it waits, and for how long.                               *)
(***************************************************************************)
EXTENDS Naturals, FiniteSets

CONSTANTS
  SweptPayments,
  Origins,        \* the places where each of them may be at first
  Down,           \* services out of order for good: "processor", "accounts"
  Limit,          \* rows a sweeper takes at a time
  StaleAfter,     \* in ticks: the age at which ResumeStale takes a payment up,
  GatewayTimeout, \* GatewaySubmitTimeout and GatewayCaptureTimeout,
  ParkedTimeout,  \* RequiresActionTimeout,
  AlertAfter,     \* and the age of a stalled ledger capture
  Oldest          \* bound: ages are not told apart from here on

\* Before the hold is recorded; at the processor for the authorization and for
\* the capture; a wallet without an answer; collected and not in the ledger;
\* waiting for a second factor; at an end.
Places == {"early", "funds_held", "capturing", "wallet", "psp_captured", "parked", "ended"}

ASSUME ClockAssumption ==
  /\ IsFiniteSet(SweptPayments)
  /\ Origins \in [SweptPayments -> SUBSET Places]
  /\ {Limit, StaleAfter, GatewayTimeout, ParkedTimeout, AlertAfter, Oldest} \subseteq Nat
  /\ 0 < StaleAfter
  /\ StaleAfter <= Oldest /\ GatewayTimeout <= Oldest
  /\ ParkedTimeout <= Oldest /\ AlertAfter <= Oldest

VARIABLES
  place,    \* where each payment waits
  age,      \* ticks since its updated_at
  driver,   \* its goroutine: none, one that gave up, of this tick, of the last
  due,      \* sweepers that have yet to run in this tick
  alerted,  \* payments reported as collected and unbooked
  unserved  \* history: ticks since the payment lost its goroutine

clockVars == <<place, age, driver, due, alerted, unserved>>

Sweepers == {"resume", "submissions", "captures", "wallets", "parked", "alert"}

ClockTypeOK ==
  /\ place \in [SweptPayments -> Places]
  /\ age \in [SweptPayments -> 0..Oldest]
  /\ unserved \in [SweptPayments -> 0..StaleAfter]
  /\ driver \in [SweptPayments -> {"none", "gave_up", "new", "old"}]
  /\ due \subseteq Sweepers
  /\ alerted \subseteq SweptPayments

ClockInit ==
  /\ place \in [SweptPayments -> Places]
  /\ \A p \in SweptPayments : place[p] \in Origins[p]
  /\ age = [p \in SweptPayments |-> 0]
  /\ unserved = [p \in SweptPayments |-> 0]
  /\ driver = [p \in SweptPayments |-> "none"]
  /\ due = {} /\ alerted = {}

Processing(p) == place[p] \notin {"parked", "ended"}

Driven(p) == driver[p] \in {"new", "old"}

-----------------------------------------------------------------------------

Older(ages, unless, bound) ==
  [p \in SweptPayments |-> IF p \in unless \/ place[p] = "ended" THEN 0
                           ELSE IF ages[p] < bound THEN ages[p] + 1 ELSE bound]

\* The rows of payments at the checkpoint are left out of the scan.
StaleBeforeCheckpoint(ages) ==
  {p \in SweptPayments :
     Processing(p) /\ place[p] # "psp_captured" /\ ages[p] >= StaleAfter}

Stale(ages) == {p \in SweptPayments : Processing(p) /\ ages[p] >= StaleAfter}

\* The rows each sweeper's query finds among payments of these ages.  That of the
\* wallets names a column its table does not have: Postgres refuses it.
Finds(sweeper, ages) ==
  LET Overdue(where, timeout) ==
        {p \in SweptPayments : place[p] = where /\ ages[p] >= timeout}
  IN
  CASE sweeper = "resume"      -> Stale(ages)
    [] sweeper = "submissions" -> Overdue("funds_held", GatewayTimeout)
    [] sweeper = "captures"    -> Overdue("capturing", GatewayTimeout)
    [] sweeper = "wallets"     -> {}
    [] sweeper = "parked"      -> Overdue("parked", ParkedTimeout)
    [] sweeper = "alert"       -> Overdue("psp_captured", AlertAfter)

\* The tickers fire together, and a sweep that finds nothing is over at once: rows
\* do not age within a tick.  A sweep does not last a tick, and an attempt (three
\* calls of five seconds at most) not two.  A tick at which the service is down is
\* one whose sweeps all fail.
Tick ==
  /\ due = {}
  /\ \A p \in SweptPayments : driver[p] # "old"
  /\ age' = Older(age, {}, Oldest)
  /\ unserved' = Older(unserved, {p \in SweptPayments : Driven(p)}, StaleAfter)
  /\ driver' = [p \in SweptPayments |-> IF driver[p] = "new" THEN "old" ELSE driver[p]]
  /\ due' = {s \in Sweepers : Finds(s, age') # {}}
  /\ UNCHANGED <<place, alerted>>

\* What a sweep gets done: no more rows than its limit, in no order, and none
\* whose scan, load or compensating transaction fails, as all of them may.
Batches(rows) == {batch \in SUBSET rows : Cardinality(batch) <= Limit}

\* What it gets done when nothing fails.
FullBatches(rows) ==
  {batch \in Batches(rows) : batch = rows \/ Cardinality(batch) = Limit}

Runs(sweeper) == sweeper \in due /\ due' = due \ {sweeper}

\* A payment may get a second goroutine beside one that is slow.
ResumeStale(batch) ==
  /\ Runs("resume")
  /\ driver' = [p \in SweptPayments |-> IF p \in batch THEN "new" ELSE driver[p]]
  /\ UNCHANGED <<place, age, alerted, unserved>>

\* failAndCompensate, or the update of the parked payments.
Fails(batch) ==
  /\ place' = [p \in SweptPayments |-> IF p \in batch THEN "ended" ELSE place[p]]
  /\ age' = [p \in SweptPayments |-> IF p \in batch THEN 0 ELSE age[p]]
  /\ UNCHANGED <<driver, alerted, unserved>>

ExpireStuckSubmissions(batch) ==
  /\ Runs("submissions")
  /\ Fails(batch)

ExpireStuckCaptures(batch) ==
  /\ Runs("captures")
  /\ Fails(batch)

\* One update statement, without a limit: all of the rows, or none.
ExpireStaleRequiresAction(batch) ==
  /\ Runs("parked")
  /\ Fails(batch)

\* So is the count.
AlertStalledLedgerCaptures(batch) ==
  /\ Runs("alert")
  /\ alerted' = alerted \union batch
  /\ UNCHANGED <<place, age, driver, unserved>>

\* The goroutine goes on for as long as the services let it: what a payment that
\* waits here needs next, and where that may take it.
Needs(where) ==
  CASE where \in {"funds_held", "capturing"} -> {"processor"}
    [] where \in {"early", "psp_captured"}   -> {"accounts"}
    [] OTHER                                 -> {}

Leads(where) ==
  CASE where = "early"        -> {"funds_held", "parked", "ended"}
    [] where = "funds_held"   -> {"capturing", "wallet", "ended"}
    [] where = "capturing"    -> {"psp_captured", "ended"}
    [] where = "psp_captured" -> {"ended"}
    [] OTHER                  -> {}

Progress(p) ==
  /\ Driven(p)
  /\ Needs(place[p]) \intersect Down = {}
  /\ \E where \in Leads(place[p]) : place' = [place EXCEPT ![p] = where]
  /\ age' = [age EXCEPT ![p] = 0]
  /\ driver' = [driver EXCEPT ![p] = "new"]
  /\ UNCHANGED <<due, alerted, unserved>>

Stops(p, how) ==
  /\ Driven(p)
  /\ driver' = [driver EXCEPT ![p] = how]
  /\ unserved' = [unserved EXCEPT ![p] = 0]
  /\ UNCHANGED <<place, due, alerted>>

CallsRemote(p) == place[p] \in {"funds_held", "capturing", "psp_captured"}

\* The row is not touched.
RemoteFailsUntouched(p) ==
  /\ CallsRemote(p)
  /\ Stops(p, "gave_up")
  /\ UNCHANGED age

\* The touch puts updated_at ahead of the clock, so that the row rests longer.
RemoteFailsAhead(p) ==
  /\ CallsRemote(p)
  /\ Stops(p, "gave_up")
  /\ age' = [age EXCEPT ![p] = 0 - StaleAfter]

\* The processor or the ledger does not answer: the row is touched.
RemoteFails(p) ==
  /\ CallsRemote(p)
  /\ Stops(p, "gave_up")
  /\ age' = [age EXCEPT ![p] = 0]

\* The goroutine is lost, a statement of it fails (the touch, too), it could not
\* place the hold, or the payment has ended or waits for somebody else.
StopUntouched(p) ==
  /\ Stops(p, "none")
  /\ UNCHANGED age

\* Somebody else moves a payment on, and drives it from there.
Handed(p, where) ==
  /\ place' = [place EXCEPT ![p] = where]
  /\ age' = [age EXCEPT ![p] = 0]
  /\ driver' = [driver EXCEPT ![p] = "new"]
  /\ UNCHANGED <<due, alerted, unserved>>

\* The second factor comes in.
StepUp(p) == place[p] = "parked" /\ Handed(p, "early")

\* The outcome of a wallet comes in; an approval that is delivered again before it
\* is marked drives the payment again, also when it already is at the capture.
CompleteFromGateway(p) ==
  /\ "processor" \notin Down
  /\ \/ place[p] \in {"wallet", "capturing"} /\ Handed(p, "capturing")
     \/ place[p] = "wallet" /\ Handed(p, "ended")

Sweep ==
  \/ \E batch \in Batches(Finds("resume", age)) : ResumeStale(batch)
  \/ \E batch \in Batches(Finds("submissions", age)) : ExpireStuckSubmissions(batch)
  \/ \E batch \in Batches(Finds("captures", age)) : ExpireStuckCaptures(batch)
  \/ \E batch \in {{}, Finds("parked", age)} : ExpireStaleRequiresAction(batch)
  \/ \E batch \in {{}, Finds("alert", age)} : AlertStalledLedgerCaptures(batch)

ClockNext ==
  \/ Tick
  \/ Sweep
  \/ \E p \in SweptPayments :
       \/ Progress(p) \/ RemoteFails(p) \/ StopUntouched(p)
       \/ StepUp(p)   \/ CompleteFromGateway(p)

ClockSpec == ClockInit /\ [][ClockNext]_clockVars

\* Time goes on, a goroutine does or is lost, and a sweep is over some time.
GoesOn ==
  /\ WF_clockVars(Tick) /\ WF_clockVars(Sweep)
  /\ \A p \in SweptPayments : WF_clockVars(Progress(p) \/ RemoteFails(p) \/ StopUntouched(p))

\* A sweep that runs again and again does not fail every time.
ResumeWorks ==
  SF_clockVars(\E batch \in FullBatches(Finds("resume", age)) : ResumeStale(batch))

ParkedSweepWorks == SF_clockVars(ExpireStaleRequiresAction(Finds("parked", age)))

OtherSweepsWork ==
  /\ SF_clockVars(\E batch \in FullBatches(Finds("submissions", age)) :
                    ExpireStuckSubmissions(batch))
  /\ SF_clockVars(\E batch \in FullBatches(Finds("captures", age)) :
                    ExpireStuckCaptures(batch))
  /\ SF_clockVars(AlertStalledLedgerCaptures(Finds("alert", age)))

-----------------------------------------------------------------------------
(* Properties *)

\* No payment is forgotten: one that grows old is taken up or ends, although its
\* goroutines die and sweeps fail, unless it is one of more stale payments than a
\* sweep takes, in no order (ResumeStale, ExpireStaleRequiresAction).
NobodyIsForgotten ==
  \A p \in SweptPayments :
    age[p] >= StaleAfter ~> \/ Driven(p) \/ place[p] = "ended"
                            \/ p \in Stale(age) /\ Cardinality(Stale(age)) > Limit

\* "not re-picked by ResumeStale on the very next tick": a payment whose call
\* failed at a remote service rests until it is stale again (touch).
RetriesBackOff ==
  [][\A p \in SweptPayments :
       driver[p] = "gave_up" /\ driver'[p] = "new" /\ "resume" \in due \ due' =>
         unserved[p] >= StaleAfter]_clockVars

\* "past the timeout it fails", "AlertStalledLedgerCaptures makes it loud": when
\* the services are out of order for good, some payment is failed or reported.
OutageEnds ==
  <>(\E p \in SweptPayments : place[p] = "ended" \/ p \in alerted)
=============================================================================
