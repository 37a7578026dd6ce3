---------------------------- MODULE ProcessorProofs ----------------------------
(***************************************************************************)
(* The two readers of what the processor says: the decorated client, for   *)
(* any number of calls and any settings of its breaker, and the            *)
(* reconciler, for any number of payments, passes and restarts.            *)
(***************************************************************************)
EXTENDS ProcessorClient, Reconciliation, FiniteSetTheorems, TLAPS

-----------------------------------------------------------------------------
(* The client: the inductive invariant *)

\* Until the saga is told, no answer has been heard; what it is told is the answer,
\* or that there is none, or the end of its own context.
CallerOK(c) ==
  \/ heard[c] = "nothing" /\ callStage[c] # "told"
  \/ heard[c] = "nothing" /\ outcome[c] = "unavailable"
  \/ heard[c] = "nothing" /\ outcome[c] = "rejected" /\ c \in Cancellable /\ stopping
  \/ callStage[c] = "told" /\ heard[c] = outcome[c]

\* What the breaker keeps of its counts and of the calls it will count, which are
\* finitely many whatever the number of the callers.
BreakerOK ==
  /\ breaker \in {"closed", "open", "half-open"}
  /\ counts \in [requests : 0..MaxCounted, failures : 0..MaxCounted, successes : 0..MaxCounted]
  /\ counts.failures + counts.successes + Cardinality(counted) = counts.requests
  /\ IsFiniteSet(counted)

CallsOK ==
  /\ counted \subseteq {c \in Callers : callStage[c] = "sent"}
  /\ callStage \in [Callers -> {"idle", "trying", "sent", "told"}]
  /\ attempt \in [Callers -> 1..Attempts]
  /\ heard \in [Callers -> {"nothing", "ok", "rejected"}]
  /\ outcome \in [Callers -> {"none", "ok", "rejected", "unavailable"}]
  /\ stopping \in BOOLEAN
  /\ \A c \in Callers : CallerOK(c)

ClientInv == BreakerOK /\ CallsOK

-----------------------------------------------------------------------------
(* It is preserved *)

LEMMA ClearedIsOK ==
  ASSUME NEW state \in {"closed", "open", "half-open"}, NewGeneration(state)
  PROVE  BreakerOK' /\ counted' = {}
BY ClientAssumption, FS_EmptySet DEF NewGeneration, Cleared, BreakerOK

\* A result is counted once: the call is no longer one the breaker waits for.
LEMMA CountedOnce ==
  ASSUME BreakerOK, NEW c \in Callers, NEW success \in BOOLEAN, Count(c, success)
  PROVE  BreakerOK' /\ counted' \subseteq counted \ {c}
<1>1. CASE c \notin counted
  BY <1>1 DEF Count, BreakerOK
<1>2. CASE \E state \in {"closed", "open", "half-open"} : NewGeneration(state)
  BY <1>2, ClearedIsOK
<1>3. CASE /\ c \in counted /\ counted' = counted \ {c} /\ UNCHANGED breaker
           /\ counts' = IF success THEN [counts EXCEPT !.successes = @ + 1]
                                   ELSE [counts EXCEPT !.failures = @ + 1]
  <2>1. /\ Cardinality(counted) \in Nat /\ Cardinality(counted') \in Nat
        /\ Cardinality(counted') = Cardinality(counted) - 1
        /\ IsFiniteSet(counted')
    BY <1>3, FS_RemoveElement, FS_CardinalityType DEF BreakerOK
  <2>2. /\ counts'.requests = counts.requests
        /\ counts'.failures = counts.failures + (IF success THEN 0 ELSE 1)
        /\ counts'.successes = counts.successes + (IF success THEN 1 ELSE 0)
        /\ counts' \in [requests : 0..MaxCounted, failures : Nat, successes : Nat]
    BY <1>3 DEF BreakerOK
  <2>3. counts'.failures + counts'.successes + Cardinality(counted') = counts'.requests
    BY <2>1, <2>2 DEF BreakerOK
  <2>4. counts'.failures \in 0..MaxCounted /\ counts'.successes \in 0..MaxCounted
    BY <2>1, <2>2, <2>3, ClientAssumption
  <2>. QED
    BY <1>3, <2>1, <2>2, <2>3, <2>4 DEF BreakerOK
<1>. QED
  BY <1>1, <1>2, <1>3 DEF Count

LEMMA ClientInvInit == ClientInit => ClientInv
<1>. SUFFICES ASSUME ClientInit PROVE ClientInv
  OBVIOUS
<1>1. BreakerOK
  BY ClientAssumption, FS_EmptySet DEF ClientInit, Cleared, BreakerOK
<1>2. stopping \in BOOLEAN
  BY Zenon DEF ClientInit
<1>. QED
  BY <1>1, <1>2, ClientAssumption DEF ClientInv, CallsOK, ClientInit, CallerOK

LEMMA ClientInvTimes == ClientInv /\ BreakerTimes => ClientInv'
<1>. SUFFICES ASSUME ClientInv, BreakerTimes PROVE ClientInv'
  OBVIOUS
<1>1. BreakerOK' /\ counted' = {}
  BY ClearedIsOK DEF BreakerTimes
<1>. QED
  BY <1>1 DEF ClientInv, CallsOK, BreakerTimes, CallerOK

\* Who has been told the end of its context was told it after the signal.
LEMMA ClientInvStop == ClientInv /\ Stop => ClientInv'
<1>. SUFFICES ASSUME ClientInv, Stop PROVE ClientInv'
  OBVIOUS
<1>1. stopping' \in BOOLEAN
  BY Zenon DEF Stop
<1>2. \A c \in Callers : CallerOK(c)'
  BY DEF ClientInv, CallsOK, Stop, CallerOK
<1>. QED
  BY <1>1, <1>2 DEF ClientInv, CallsOK, Stop, BreakerOK

LEMMA ClientInvCall ==
  ASSUME ClientInv, NEW c \in Callers, Call(c)
  PROVE  ClientInv'
BY DEF ClientInv, CallsOK, Call, CallerOK, BreakerOK

LEMMA ClientInvSend ==
  ASSUME ClientInv, NEW c \in Callers, Send(c)
  PROVE  ClientInv'
<1>1. /\ c \notin counted /\ IsFiniteSet(counted)
      /\ counts.requests < MaxCounted
      /\ counts' = [counts EXCEPT !.requests = @ + 1]
      /\ counted' = counted \union {c} /\ UNCHANGED breaker
  BY DEF ClientInv, CallsOK, Send, BreakerOK
<1>2. /\ Cardinality(counted) \in Nat /\ IsFiniteSet(counted')
      /\ Cardinality(counted') = Cardinality(counted) + 1
  BY <1>1, FS_AddElement, FS_CardinalityType
<1>3. BreakerOK'
  BY <1>1, <1>2, ClientAssumption DEF ClientInv, CallsOK, BreakerOK
<1>. QED
  BY <1>1, <1>3 DEF ClientInv, CallsOK, Send, CallerOK

\* A call that has heard nothing tries again, gives up or sees its context end.
LEMMA UnavailableKeeps ==
  ASSUME CallsOK, NEW c \in Callers, Unavailable(c),
         callStage[c] # "told", counted' \subseteq counted \ {c}, UNCHANGED heard
  PROVE  CallsOK'
<1>1. CASE attempt[c] < Attempts /\ attempt' = [attempt EXCEPT ![c] = @ + 1]
           /\ callStage' = [callStage EXCEPT ![c] = "trying"] /\ UNCHANGED <<stopping, outcome>>
  BY <1>1, ClientAssumption DEF CallsOK, CallerOK
<1>2. CASE attempt[c] = Attempts /\ Return(c, "unavailable")
  BY <1>2 DEF CallsOK, Return, CallerOK
<1>3. CASE c \in Cancellable /\ stopping /\ Return(c, "rejected")
  BY <1>3 DEF CallsOK, Return, CallerOK
<1>. QED
  BY <1>1, <1>2, <1>3, Zenon DEF Unavailable

LEMMA ClientInvRefuse ==
  ASSUME ClientInv, NEW c \in Callers, Refuse(c)
  PROVE  ClientInv'
<1>1. BreakerOK'
  BY DEF ClientInv, Refuse, BreakerOK
<1>2. callStage[c] = "trying" /\ counted' = counted /\ Unavailable(c) /\ UNCHANGED heard
  BY DEF Refuse
<1>. QED
  BY <1>1, <1>2, UnavailableKeeps DEF ClientInv, CallsOK

LEMMA ClientInvAnswers ==
  ASSUME ClientInv, NEW c \in Callers, Answers(c)
  PROVE  ClientInv'
<1>1. PICK answer \in {"ok", "rejected"} :
        /\ Count(c, answer = "ok")
        /\ heard' = [heard EXCEPT ![c] = answer]
        /\ Return(c, answer)
  BY DEF Answers
<1>2. BreakerOK' /\ counted' \subseteq counted \ {c}
  BY <1>1, CountedOnce DEF ClientInv, CallsOK
<1>. QED
  BY <1>1, <1>2 DEF ClientInv, CallsOK, Return, CallerOK

LEMMA ClientInvNoAnswer ==
  ASSUME ClientInv, NEW c \in Callers, NoAnswer(c)
  PROVE  ClientInv'
<1>1. BreakerOK' /\ counted' \subseteq counted \ {c}
  BY CountedOnce DEF ClientInv, NoAnswer
<1>2. callStage[c] = "sent" /\ Unavailable(c) /\ UNCHANGED heard
  BY DEF NoAnswer
<1>. QED
  BY <1>1, <1>2, UnavailableKeeps DEF ClientInv

LEMMA ClientInvNext == ClientInv /\ [ClientNext]_clientVars => ClientInv'
<1>. SUFFICES ASSUME ClientInv, [ClientNext]_clientVars PROVE ClientInv'
  OBVIOUS
<1>1. CASE UNCHANGED clientVars
  BY <1>1 DEF ClientInv, CallsOK, clientVars, CallerOK, BreakerOK
<1>2. CASE ClientNext
  BY <1>2, ClientInvTimes, ClientInvStop, ClientInvCall, ClientInvSend, ClientInvRefuse,
     ClientInvAnswers, ClientInvNoAnswer
     DEF ClientNext
<1>. QED
  BY <1>1, <1>2

-----------------------------------------------------------------------------

\* The counts of the breaker add up and every call is in a known place, with any
\* number of goroutines (withResilience, retry).
THEOREM ClientInvariance == ClientSpec => []ClientInv
BY ClientInvInit, ClientInvNext, PTL DEF ClientSpec

\* Every request the breaker let through is a failure, a success or a call in
\* flight, and there are never more than the counts can hold (gobreaker's counts).
THEOREM ClientTypes == ClientSpec => []ClientTypeOK
<1>1. ClientInv => ClientTypeOK
  BY DEF ClientInv, BreakerOK, CallsOK, ClientTypeOK
<1>. QED
  BY <1>1, ClientInvariance, PTL

\* For any number of attempts, callers and breaker settings, a call is taken for
\* refused only if the processor refused it or the context of its process is done,
\* and no answer is lost (asUnavailable, retry).
THEOREM DeclinesAreAnswers == ClientSpec => []DeclinesNeedAnAnswer
<1>1. ClientInv => DeclinesNeedAnAnswer
  BY DEF ClientInv, CallsOK, CallerOK, DeclinesNeedAnAnswer
<1>. QED
  BY <1>1, ClientInvariance, PTL

-----------------------------------------------------------------------------
(* The reconciler: the inductive invariant *)

\* The report has a capture exactly when its money was taken in the period of
\* the report; a booking follows the taking of the money.
PaymentOK(p) ==
  /\ settled[p] > 0 <=> takenAt[p] = reportSince
  /\ takenAt[p] # Never => takenAt[p] <= reportSince
  /\ Booked(p) => /\ takenAt[p] # Never
                  /\ takenAt[p] <= bookedAt[p] /\ bookedAt[p] <= reportSince

\* A report in hand goes on being true of its period, and it has every payment
\* that was booked when it was fetched and whose money was taken since it began.
ReportOK(r) ==
  \A p \in Captures :
    /\ report[r].settled[p] > 0 => takenAt[p] = report[r].since
    /\ p \in knewBooked[r] =>
         Booked(p) /\ (report[r].settled[p] = 0 => takenAt[p] < report[r].since)

ReconInv ==
  /\ ReconTypeOK
  /\ \A p \in Captures : PaymentOK(p)
  /\ \A r \in Runners : ReportOK(r)

USE DEF processor, ledger, pass

-----------------------------------------------------------------------------
(* It is preserved *)

LEMMA ReconInvInit == ReconInit => ReconInv
BY ReconAssumption
   DEF ReconInit, ReconInv, ReconTypeOK, PaymentOK, ReportOK, Booked, Never, Periods,
       Reports, Snapshots, Plain

LEMMA ReconInvSettle ==
  ASSUME ReconInv, NEW p \in Captures, Settle(p)
  PROVE  ReconInv'
<1>1. /\ takenAt[p] = Never
      /\ takenAt' = [takenAt EXCEPT ![p] = reportSince]
      /\ settled' = [settled EXCEPT ![p] = 1]
      /\ UNCHANGED <<reportSince, ripe, ledger, pass, snapshot>>
  BY DEF Settle
<1>2. ReconTypeOK'
  BY <1>1 DEF ReconInv, ReconTypeOK
<1>3. \A q \in Captures : PaymentOK(q)'
  BY <1>1, ReconAssumption DEF ReconInv, ReconTypeOK, PaymentOK, Booked, Periods, Never
<1>4. ASSUME NEW r \in Runners
      PROVE  ReportOK(r)'
  <2>1. report[r].since \in Periods
    BY DEF ReconInv, ReconTypeOK, Reports
  <2>2. ~(report[r].settled[p] > 0) /\ p \notin knewBooked[r]
    BY <1>1, <2>1, ReconAssumption
       DEF ReconInv, ReconTypeOK, ReportOK, PaymentOK, Booked, Periods, Never
  <2>. QED
    BY <1>1, <2>2 DEF ReconInv, ReconTypeOK, ReportOK, Booked
<1>. QED
  BY <1>2, <1>3, <1>4 DEF ReconInv

LEMMA ReconInvSettleTwice ==
  ASSUME ReconInv, NEW p \in Captures, SettleTwice(p)
  PROVE  ReconInv'
BY ReconAssumption
   DEF SettleTwice, ReconInv, ReconTypeOK, PaymentOK, ReportOK, Booked

LEMMA ReconInvRipen ==
  ASSUME ReconInv, NEW p \in Captures, Ripen(p)
  PROVE  ReconInv'
BY DEF Ripen, ReconInv, ReconTypeOK, PaymentOK, ReportOK, Booked

LEMMA ReconInvGiveUp ==
  ASSUME ReconInv, NEW p \in Captures, GiveUp(p)
  PROVE  ReconInv'
BY DEF GiveUp, ReconInv, ReconTypeOK, PaymentOK, ReportOK, Booked

LEMMA ReconInvBook ==
  ASSUME ReconInv, NEW p \in Captures, Book(p)
  PROVE  ReconInv'
<1>1. /\ takenAt[p] # Never /\ ~Booked(p)
      /\ bookedAt' = [bookedAt EXCEPT ![p] = reportSince]
      /\ UNCHANGED <<processor, failed, pass, snapshot>>
  BY DEF Book
<1>2. ReconTypeOK'
  BY <1>1 DEF ReconInv, ReconTypeOK
<1>3. \A q \in Captures : PaymentOK(q)'
  BY <1>1, ReconAssumption DEF ReconInv, ReconTypeOK, PaymentOK, Booked, Periods, Never
<1>4. \A r \in Runners : ReportOK(r)'
  BY <1>1 DEF ReconInv, ReconTypeOK, ReportOK, Booked
<1>. QED
  BY <1>2, <1>3, <1>4 DEF ReconInv

LEMMA ReconInvRestart ==
  ASSUME ReconInv, ProcessorRestarts
  PROVE  ReconInv'
<1>1. /\ reportSince < MaxRestarts
      /\ reportSince' = reportSince + 1
      /\ settled' = [p \in Captures |-> 0]
      /\ UNCHANGED <<ripe, takenAt, ledger, pass, snapshot>>
  BY DEF ProcessorRestarts
<1>2. ReconTypeOK'
  BY <1>1, ReconAssumption DEF ReconInv, ReconTypeOK, Periods
<1>3. \A q \in Captures : PaymentOK(q)'
  BY <1>1, ReconAssumption DEF ReconInv, ReconTypeOK, PaymentOK, Booked, Periods, Never
<1>4. \A r \in Runners : ReportOK(r)'
  BY <1>1 DEF ReconInv, ReportOK, Booked
<1>. QED
  BY <1>2, <1>3, <1>4 DEF ReconInv

LEMMA ReconInvFetch ==
  ASSUME ReconInv, NEW r \in Runners, FetchSettlement(r)
  PROVE  ReconInv'
<1>1. /\ report' = [report EXCEPT ![r] = [since |-> reportSince, settled |-> settled]]
      /\ knewBooked' = [knewBooked EXCEPT ![r] = {p \in Captures : Booked(p)}]
      /\ stage' = [stage EXCEPT ![r] = "fetched"]
      /\ UNCHANGED <<processor, ledger, result, snapshot>>
  BY DEF FetchSettlement
<1>2. ReconTypeOK'
  BY <1>1 DEF ReconInv, ReconTypeOK, Reports
<1>3. \A q \in Captures : PaymentOK(q)'
  BY <1>1 DEF ReconInv, PaymentOK, Booked
<1>4. ASSUME NEW x \in Runners
      PROVE  ReportOK(x)'
  <2>1. CASE x # r
    BY <1>1, <2>1 DEF ReconInv, ReconTypeOK, ReportOK, Booked
  <2>2. CASE x = r
    <3>1. /\ report'[r].since = reportSince /\ report'[r].settled = settled
          /\ knewBooked'[r] = {p \in Captures : Booked(p)}
      BY <1>1 DEF ReconInv, ReconTypeOK
    <3>2. \A p \in Captures :
            settled[p] = 0 /\ takenAt[p] # Never => takenAt[p] < reportSince
      BY ReconAssumption DEF ReconInv, ReconTypeOK, PaymentOK, Periods, Never
    <3>. QED
      BY <1>1, <2>2, <3>1, <3>2 DEF ReconInv, PaymentOK, ReportOK, Booked
  <2>. QED
    BY <2>1, <2>2
<1>. QED
  BY <1>2, <1>3, <1>4 DEF ReconInv

LEMMA ReconInvUnavailable ==
  ASSUME ReconInv, NEW r \in Runners, ReportUnavailable(r)
  PROVE  ReconInv'
BY DEF ReportUnavailable, Finish, Plain, Snapshots, ReconInv, ReconTypeOK, PaymentOK,
       ReportOK, Booked

LEMMA ReconInvCompare ==
  ASSUME ReconInv, NEW r \in Runners, Compare(r)
  PROVE  ReconInv'
<1>. DEFINE inReport == {p \in Captures : report[r].settled[p] > 0}
            missing  == (inReport \intersect ripe) \ InScope(r)
            phantom  == InScope(r) \ inReport
<1>1. PICK s \in Snapshots : result' = [result EXCEPT ![r] = s]
  <2>1. PICK status \in {"clean", "drift_detected", "coverage_gap"} :
          result' = [result EXCEPT ![r] =
            [status |-> status, missing |-> missing, phantom |-> phantom]]
    BY Zenon DEF Compare
  <2>2. missing \in SUBSET Captures /\ phantom \in SUBSET Captures
    BY DEF InScope
  <2>. HIDE DEF missing, phantom
  <2>3. [status |-> status, missing |-> missing, phantom |-> phantom] \in Snapshots
    BY <2>1, <2>2 DEF Snapshots
  <2>. QED
    BY <2>1, <2>3
<1>2. /\ stage' = [stage EXCEPT ![r] = "compared"]
      /\ UNCHANGED <<processor, ledger, report, knewBooked, snapshot>>
  BY DEF Compare
<1>. QED
  BY <1>1, <1>2 DEF ReconInv, ReconTypeOK, PaymentOK, ReportOK, Booked

LEMMA ReconInvRecord ==
  ASSUME ReconInv, NEW r \in Runners, Record(r)
  PROVE  ReconInv'
BY DEF Record, Finish, ReconInv, ReconTypeOK, PaymentOK, ReportOK, Booked

LEMMA ReconInvNext == ReconInv /\ [ReconNext]_reconVars => ReconInv'
<1>. SUFFICES ASSUME ReconInv, [ReconNext]_reconVars PROVE ReconInv'
  OBVIOUS
<1>1. CASE UNCHANGED reconVars
  BY <1>1 DEF reconVars, ReconInv, ReconTypeOK, PaymentOK, ReportOK, Booked
<1>2. CASE ReconNext
  BY <1>2, ReconInvSettle, ReconInvSettleTwice, ReconInvRipen, ReconInvBook,
     ReconInvGiveUp, ReconInvRestart, ReconInvFetch, ReconInvUnavailable,
     ReconInvCompare, ReconInvRecord
     DEF ReconNext
<1>. QED
  BY <1>1, <1>2

-----------------------------------------------------------------------------
(* What a comparison says *)

\* Only the comparison itself takes a runner from a report to a result.
LEMMA OnlyCompareCompares ==
  ASSUME ReconInv, [ReconNext]_reconVars, NEW r \in Runners,
         stage[r] = "fetched", stage'[r] = "compared"
  PROVE  Compare(r)
<1>1. ReconNext
  BY DEF reconVars
<1>2. stage' # stage
  OBVIOUS
<1>3. PICK x \in Runners :
        FetchSettlement(x) \/ ReportUnavailable(x) \/ Compare(x) \/ Record(x)
  BY <1>1, <1>2
     DEF ReconNext, Settle, SettleTwice, Ripen, Book, GiveUp, ProcessorRestarts
<1>4. \A y \in Runners \ {x} : stage'[y] = stage[y]
  BY <1>3
     DEF FetchSettlement, ReportUnavailable, Compare, Record, Finish, ReconInv,
         ReconTypeOK
<1>5. x = r
  BY <1>4
<1>. QED
  BY <1>3, <1>5
     DEF FetchSettlement, ReportUnavailable, Record, Finish, ReconInv, ReconTypeOK

LEMMA WhatCompareSays ==
  ASSUME ReconInv, NEW r \in Runners, Compare(r), NEW p \in Captures
  PROVE  /\ p \in result'[r].missing => takenAt[p] # Never /\ ~Booked(p)
         /\ p \in result'[r].phantom =>
              \/ p \notin knewBooked[r]
              \/ takenAt[p] < report[r].since /\ report[r].since <= bookedAt[p]
<1>. DEFINE inReport == {q \in Captures : report[r].settled[q] > 0}
<1>1. /\ result'[r].missing = (inReport \intersect ripe) \ InScope(r)
      /\ result'[r].phantom = InScope(r) \ inReport
  BY DEF Compare, ReconInv, ReconTypeOK
<1>2. /\ report[r].since \in Periods /\ report[r].settled[p] \in 0..2
      /\ takenAt[p] \in Periods \union {Never} /\ bookedAt[p] \in Periods \union {Never}
  BY DEF ReconInv, ReconTypeOK, Reports
<1>3. PaymentOK(p) /\ ReportOK(r)
  BY DEF ReconInv
<1>4. ASSUME p \in result'[r].missing
      PROVE  takenAt[p] # Never /\ ~Booked(p)
  BY <1>1, <1>2, <1>3, <1>4, ReconAssumption
     DEF PaymentOK, ReportOK, InScope, Periods, Never
<1>5. ASSUME p \in result'[r].phantom, p \in knewBooked[r]
      PROVE  takenAt[p] < report[r].since /\ report[r].since <= bookedAt[p]
  BY <1>1, <1>2, <1>3, <1>5, ReconAssumption
     DEF ReportOK, InScope, Periods, Never
<1>. QED
  BY <1>4, <1>5

\* The compared captures are payments.
LEMMA ResultIsOfPayments ==
  ASSUME ReconInv', NEW r \in Runners
  PROVE  result'[r].missing \subseteq Captures /\ result'[r].phantom \subseteq Captures
BY DEF ReconInv, ReconTypeOK, Snapshots

-----------------------------------------------------------------------------

\* Reports and bookings fit together in every reachable state (Reconciler.Run).
THEOREM ReconInvariance == ReconSpec => []ReconInv
BY ReconInvInit, ReconInvNext, PTL DEF ReconSpec

\* Reports, results and the snapshot are well typed: a report has a period, and a
\* snapshot names payments (Reconciler.Run, record).
THEOREM ReconTypes == ReconSpec => []ReconTypeOK
BY ReconInvariance, PTL DEF ReconInv

\* The alarm for collected money without a booking is never a false one, although
\* the report is read before the bookings (Reconciler.Run).
THEOREM MissingIsNeverFalse == ReconSpec => MissingMoneyIsReal
<1>1. ReconInv /\ ReconInv' /\ [ReconNext]_reconVars =>
        [\A r \in Runners : stage[r] = "fetched" /\ stage'[r] = "compared" =>
           \A p \in result'[r].missing : takenAt[p] # Never /\ ~Booked(p)]_reconVars
  BY OnlyCompareCompares, WhatCompareSays, ResultIsOfPayments
<1>. QED
  BY <1>1, ReconInvariance, PTL DEF ReconSpec, MissingMoneyIsReal

\* The alarm for a booking without collected money is false in two races only: the
\* booking came between the two reads, or straddled a restart of the processor
\* (Reconciler.Run, bookedReferences).
THEOREM PhantomsAreRaces == ReconSpec => PhantomNeedsARace
<1>1. ReconInv /\ ReconInv' /\ [ReconNext]_reconVars =>
        [\A r \in Runners : stage[r] = "fetched" /\ stage'[r] = "compared" =>
           \A p \in result'[r].phantom :
             \/ p \notin knewBooked[r]
             \/ takenAt[p] < report[r].since /\ report[r].since <= bookedAt[p]]_reconVars
  BY OnlyCompareCompares, WhatCompareSays, ResultIsOfPayments
<1>. QED
  BY <1>1, ReconInvariance, PTL DEF ReconSpec, PhantomNeedsARace
=============================================================================
