---------------------------- MODULE Reconciliation ----------------------------
(***************************************************************************)
(* The reconciler (saga.Reconciler): it compares the settlement report of  *)
(* the processor with the captures the service has booked.  The two are    *)
(* read one after the other, while payments go on, and the processor may   *)
(* begin its report anew in between.                                       *)
(***************************************************************************)
EXTENDS Naturals

CONSTANTS
  Captures,     \* payments with a psp_reference
  Runners,      \* goroutines that run the comparison
  Periodic,     \* the runners driven by a ticker; the others run once, at boot
  MaxRestarts   \* bound: restarts of the processor

ASSUME ReconAssumption ==
  /\ MaxRestarts \in Nat
  /\ Periodic \subseteq Runners

VARIABLES
  reportSince,  \* the report's period: how often the processor has begun anew
  settled,      \* the report: how often each capture was settled
  ripe,         \* captures older than the grace period
  takenAt,      \* the period in which the money of a payment was first taken
  bookedAt,     \* the period in which it was booked (step captured)
  failed,       \* payments that failed
  stage,        \* where each runner is
  report,       \* the report in its hands
  result,       \* the snapshot it is about to record
  snapshot,     \* Reconciler.last
  knewBooked    \* history: what was booked when each runner fetched its report

processor == <<reportSince, settled, ripe, takenAt>>
ledger    == <<bookedAt, failed>>
pass      == <<stage, report, result, knewBooked>>
reconVars == <<processor, ledger, pass, snapshot>>

Periods == 0..MaxRestarts

Never == MaxRestarts + 1

Reports == [since : Periods, settled : [Captures -> 0..2]]

Snapshots ==
  [status : {"none", "clean", "drift_detected", "coverage_gap", "unavailable"},
   missing : SUBSET Captures, phantom : SUBSET Captures]

Plain(status) == [status |-> status, missing |-> {}, phantom |-> {}]

ReconTypeOK ==
  /\ reportSince \in Periods
  /\ settled \in [Captures -> 0..2]
  /\ ripe \subseteq Captures /\ failed \subseteq Captures
  /\ takenAt \in [Captures -> Periods \union {Never}]
  /\ bookedAt \in [Captures -> Periods \union {Never}]
  /\ stage \in [Runners -> {"idle", "fetched", "compared", "done"}]
  /\ report \in [Runners -> Reports]
  /\ result \in [Runners -> Snapshots]
  /\ snapshot \in Snapshots
  /\ knewBooked \in [Runners -> SUBSET Captures]

ReconInit ==
  /\ reportSince = 0
  /\ settled = [p \in Captures |-> 0]
  /\ ripe = {} /\ failed = {}
  /\ takenAt = [p \in Captures |-> Never]
  /\ bookedAt = [p \in Captures |-> Never]
  /\ stage = [r \in Runners |-> "idle"]
  /\ report = [r \in Runners |-> [since |-> 0, settled |-> settled]]
  /\ result = [r \in Runners |-> Plain("none")]
  /\ snapshot = Plain("none")
  /\ knewBooked = [r \in Runners |-> {}]

Booked(p) == bookedAt[p] # Never

-----------------------------------------------------------------------------
(* What the payments and the processor do meanwhile *)

\* A capture in flight may take the money of a payment that has failed.
Settle(p) ==
  /\ takenAt[p] = Never
  /\ takenAt' = [takenAt EXCEPT ![p] = reportSince]
  /\ settled' = [settled EXCEPT ![p] = 1]
  /\ UNCHANGED <<reportSince, ripe, ledger, pass, snapshot>>

\* The assertion of the reconciler: a repeated capture is not free of charge.
SettleTwice(p) ==
  /\ settled[p] = 1
  /\ settled' = [settled EXCEPT ![p] = 2]
  /\ UNCHANGED <<reportSince, ripe, takenAt, ledger, pass, snapshot>>

Ripen(p) ==
  /\ takenAt[p] # Never /\ p \notin ripe
  /\ ripe' = ripe \union {p}
  /\ UNCHANGED <<reportSince, settled, takenAt, ledger, pass, snapshot>>

\* The saga books a payment once its money was taken.
Book(p) ==
  /\ takenAt[p] # Never /\ p \notin failed /\ ~Booked(p)
  /\ bookedAt' = [bookedAt EXCEPT ![p] = reportSince]
  /\ UNCHANGED <<processor, failed, pass, snapshot>>

GiveUp(p) ==
  /\ p \notin failed /\ ~Booked(p)
  /\ failed' = failed \union {p}
  /\ UNCHANGED <<processor, bookedAt, pass, snapshot>>

\* The processor comes back with an empty report that begins now.
ProcessorRestarts ==
  /\ reportSince < MaxRestarts
  /\ reportSince' = reportSince + 1
  /\ settled' = [p \in Captures |-> 0]
  /\ UNCHANGED <<ripe, takenAt, ledger, pass, snapshot>>

-----------------------------------------------------------------------------
(* One pass *)

Finish(r, s) ==
  /\ stage' = [stage EXCEPT ![r] = IF r \in Periodic THEN "idle" ELSE "done"]
  /\ snapshot' = s

\* A report whose report_since is empty or malformed is taken for one that covers
\* everything up to now.
FetchWithoutPeriod(r) ==
  /\ stage[r] = "idle"
  /\ \E since \in {reportSince, Never} :
       report' = [report EXCEPT ![r] = [since |-> since, settled |-> settled]]
  /\ knewBooked' = [knewBooked EXCEPT ![r] = {p \in Captures : Booked(p)}]
  /\ stage' = [stage EXCEPT ![r] = "fetched"]
  /\ UNCHANGED <<processor, ledger, result, snapshot>>

FetchSettlement(r) ==
  /\ stage[r] = "idle"
  /\ report' = [report EXCEPT ![r] = [since |-> reportSince, settled |-> settled]]
  /\ knewBooked' = [knewBooked EXCEPT ![r] = {p \in Captures : Booked(p)}]
  /\ stage' = [stage EXCEPT ![r] = "fetched"]
  /\ UNCHANGED <<processor, ledger, result, snapshot>>

\* No answer, no 200, no usable report_since; or the query for the bookings fails.
ReportUnavailable(r) ==
  /\ stage[r] \in {"idle", "fetched"}
  /\ Finish(r, Plain("unavailable"))
  /\ UNCHANGED <<processor, ledger, report, result, knewBooked>>

\* bookedReferences without step = 'captured'.
AnyReference(r) == {p \in Captures : (Booked(p) \/ p \in failed) /\ bookedAt[p] >= report[r].since}

\* A booking at the very beginning of the report is left out.
StrictlyInScope(r) == {p \in Captures : Booked(p) /\ bookedAt[p] > report[r].since}

\* Bookings of any period are looked for in the report.
EveryBooking(r) == {p \in Captures : Booked(p)}

\* bookedReferences: what was booked within the period of the report.
InScope(r) == {p \in Captures : Booked(p) /\ bookedAt[p] >= report[r].since}

\* The bookings are read, and compared with the report at once.
Compare(r) ==
  LET inReport == {p \in Captures : report[r].settled[p] > 0}
      missing  == (inReport \intersect ripe) \ InScope(r)
      phantom  == InScope(r) \ inReport
      double   == {p \in Captures : report[r].settled[p] > 1}
      outside  == {p \in Captures : Booked(p)} \ InScope(r)
      status   == IF missing \union phantom \union double # {} THEN "drift_detected"
                  ELSE IF outside # {} THEN "coverage_gap" ELSE "clean"
  IN
  /\ stage[r] = "fetched"
  /\ result' = [result EXCEPT ![r] =
       [status |-> status, missing |-> missing, phantom |-> phantom]]
  /\ stage' = [stage EXCEPT ![r] = "compared"]
  /\ UNCHANGED <<processor, ledger, report, knewBooked, snapshot>>

Record(r) ==
  /\ stage[r] = "compared"
  /\ Finish(r, result[r])
  /\ UNCHANGED <<processor, ledger, report, result, knewBooked>>

ReconNext ==
  \/ \E p \in Captures :
       Settle(p) \/ SettleTwice(p) \/ Ripen(p) \/ Book(p) \/ GiveUp(p)
  \/ ProcessorRestarts
  \/ \E r \in Runners :
       FetchSettlement(r) \/ ReportUnavailable(r) \/ Compare(r) \/ Record(r)

ReconSpec == ReconInit /\ [][ReconNext]_reconVars

\* The ticker fires for ever, and the report and the database answer in the end.
ReconFairness ==
  /\ \A p \in Captures : WF_reconVars(Ripen(p))
  /\ \A r \in Periodic :
       /\ SF_reconVars(FetchSettlement(r)) /\ SF_reconVars(Compare(r))
       /\ WF_reconVars(Record(r))

-----------------------------------------------------------------------------
(* Properties *)

\* "MONEY COLLECTED BUT NOT BOOKED" is said only of a payment whose money was
\* taken and that is not booked when the bookings are read, although the report
\* and the bookings are read at different moments and cover different periods.
MissingMoneyIsReal ==
  [][\A r \in Runners : stage[r] = "fetched" /\ stage'[r] = "compared" =>
       \A p \in result'[r].missing : takenAt[p] # Never /\ ~Booked(p)]_reconVars

\* "BOOKED BUT NEVER SETTLED" is said of a payment the processor did collect only
\* when it was booked between the two reads, or when its money was taken before
\* the report began and booked after.
PhantomNeedsARace ==
  [][\A r \in Runners : stage[r] = "fetched" /\ stage'[r] = "compared" =>
       \A p \in result'[r].phantom :
         \/ p \notin knewBooked[r]
         \/ takenAt[p] < report[r].since /\ report[r].since <= bookedAt[p]]_reconVars

\* Money taken for a payment that failed is reported in the end, as long as the
\* processor still has it in its report.
LostMoneyIsReported ==
  \A p \in Captures :
    (p \in failed /\ settled[p] > 0) ~> (p \in snapshot.missing \/ settled[p] = 0)
=============================================================================
