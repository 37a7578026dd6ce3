---------------------------- MODULE ProcessorClient ----------------------------
(***************************************************************************)
(* The resilience decorator around a processor (psp.resilientProcessor):   *)
(* each call is tried three times through a circuit breaker that all the   *)
(* goroutines share.  The breaker is gobreaker, modelled from its settings *)
(* in withResilience.                                                      *)
(***************************************************************************)
EXTENDS Naturals, FiniteSets

CONSTANTS
  Callers,      \* goroutines with one call each to the processor
  Cancellable,  \* those that run under the context of the process: the Kafka
                \* consumer's; the others are detached from any (WithoutCancel)
  Attempts,     \* attempts of a call
  TripAfter,    \* requests before the failure rate counts
  MaxRequests,  \* requests let through half-open
  MaxCounted    \* bound: requests counted before the counts are cleared

ASSUME ClientAssumption ==
  /\ Cancellable \subseteq Callers
  /\ {Attempts, TripAfter, MaxRequests, MaxCounted} \subseteq Nat \ {0}

VARIABLES
  breaker,   \* its state
  counts,    \* its requests, failures and successes since they were cleared
  counted,   \* calls in flight that its counts will still take in
  callStage, \* where each call is
  attempt,   \* which attempt it makes
  stopping,  \* the process has been told to stop: its context is done
  heard,     \* history: what the processor has answered it
  outcome    \* what the saga takes the result for

clientVars == <<breaker, counts, counted, callStage, attempt, stopping, heard, outcome>>

Cleared == [requests |-> 0, failures |-> 0, successes |-> 0]

ClientTypeOK ==
  /\ breaker \in {"closed", "open", "half-open"}
  /\ counts \in [requests : 0..MaxCounted, failures : 0..MaxCounted, successes : 0..MaxCounted]
  /\ counts.failures + counts.successes + Cardinality(counted) = counts.requests
  /\ counted \subseteq {c \in Callers : callStage[c] = "sent"}
  /\ callStage \in [Callers -> {"idle", "trying", "sent", "told"}]
  /\ attempt \in [Callers -> 1..Attempts]
  /\ stopping \in BOOLEAN
  /\ heard \in [Callers -> {"nothing", "ok", "rejected"}]
  /\ outcome \in [Callers -> {"none", "ok", "rejected", "unavailable"}]

ClientInit ==
  /\ breaker = "closed" /\ counts = Cleared /\ counted = {}
  /\ callStage = [c \in Callers |-> "idle"]
  /\ attempt = [c \in Callers |-> 1]
  /\ stopping = FALSE
  /\ heard = [c \in Callers |-> "nothing"]
  /\ outcome = [c \in Callers |-> "none"]

-----------------------------------------------------------------------------
(* The breaker *)

\* The results of calls sent before the counts were cleared are counted still.
NewGenerationCountsOldCalls(state) ==
  /\ breaker' = state
  /\ counts' = Cleared
  /\ UNCHANGED counted

\* A new state or a new interval is a new generation: the counts begin anew, and
\* the results of the calls in flight are none of its business.
NewGeneration(state) ==
  /\ breaker' = state
  /\ counts' = Cleared
  /\ counted' = {}

\* The 10 s of Timeout, or the 30 s of Interval, are over.
BreakerTimes ==
  /\ \/ breaker = "open" /\ NewGeneration("half-open")
     \/ breaker = "closed" /\ counts.requests > 0 /\ NewGeneration("closed")
  /\ UNCHANGED <<callStage, attempt, stopping, heard, outcome>>

Admits ==
  \/ breaker = "closed"
  \/ breaker = "half-open" /\ counts.requests < MaxRequests

ReadyToTrip(c) == c.requests >= TripAfter /\ 2 * c.failures > c.requests

\* The result of a call: an error of any kind is a failure.
Count(c, success) ==
  LET new == IF success THEN [counts EXCEPT !.successes = @ + 1]
                        ELSE [counts EXCEPT !.failures = @ + 1]
  IN
  IF c \notin counted THEN UNCHANGED <<breaker, counts, counted>>
  ELSE IF ~success /\ (breaker = "half-open" \/ ReadyToTrip(new)) THEN NewGeneration("open")
  ELSE IF success /\ breaker = "half-open" /\ new.successes >= MaxRequests
       THEN NewGeneration("closed")
  ELSE counts' = new /\ counted' = counted \ {c} /\ UNCHANGED breaker

-----------------------------------------------------------------------------
(* A call *)

Return(c, result) ==
  /\ callStage' = [callStage EXCEPT ![c] = "told"]
  /\ outcome' = [outcome EXCEPT ![c] = result]
  /\ UNCHANGED <<attempt, stopping>>

\* retry: after a backoff another attempt, and the error after the last; or the
\* context is done in the backoff, and its error is not ErrUnavailable: the saga
\* has no case for context.Canceled and takes it for a refusal.
Unavailable(c) ==
  \/ /\ attempt[c] < Attempts
     /\ callStage' = [callStage EXCEPT ![c] = "trying"]
     /\ attempt' = [attempt EXCEPT ![c] = @ + 1]
     /\ UNCHANGED <<stopping, outcome>>
  \/ attempt[c] = Attempts /\ Return(c, "unavailable")
  \/ c \in Cancellable /\ stopping /\ Return(c, "rejected")

\* The signal to stop.
Stop ==
  /\ stopping' = TRUE
  /\ UNCHANGED <<breaker, counts, counted, callStage, attempt, heard, outcome>>

Call(c) ==
  /\ callStage[c] = "idle"
  /\ callStage' = [callStage EXCEPT ![c] = "trying"]
  /\ UNCHANGED <<breaker, counts, counted, attempt, stopping, heard, outcome>>

Send(c) ==
  /\ callStage[c] = "trying" /\ Admits /\ counts.requests < MaxCounted
  /\ counts' = [counts EXCEPT !.requests = @ + 1]
  /\ counted' = counted \union {c}
  /\ callStage' = [callStage EXCEPT ![c] = "sent"]
  /\ UNCHANGED <<breaker, attempt, stopping, heard, outcome>>

\* The refusal of the breaker surfaces as it is: no error the saga retries.
RefuseUnmapped(c) ==
  /\ callStage[c] = "trying" /\ ~Admits
  /\ Return(c, "rejected")
  /\ UNCHANGED <<breaker, counts, counted, heard>>

\* ErrOpenState and ErrTooManyRequests mean that the processor is unavailable.
Refuse(c) ==
  /\ callStage[c] = "trying" /\ ~Admits
  /\ Unavailable(c)
  /\ UNCHANGED <<breaker, counts, counted, heard>>

\* Approved, declined or pending are all answers; so is a 4xx, which is an error.
Answers(c) ==
  /\ callStage[c] = "sent"
  /\ \E result \in {"ok", "rejected"} :
       /\ Count(c, result = "ok")
       /\ heard' = [heard EXCEPT ![c] = result]
       /\ Return(c, result)

\* A 5xx, no response within 5 s, or one that cannot be read.
NoAnswer(c) ==
  /\ callStage[c] = "sent"
  /\ Count(c, FALSE)
  /\ Unavailable(c)
  /\ UNCHANGED heard

ClientNext ==
  \/ BreakerTimes \/ Stop
  \/ \E c \in Callers : Call(c) \/ Send(c) \/ Refuse(c) \/ Answers(c) \/ NoAnswer(c)

ClientSpec == ClientInit /\ [][ClientNext]_clientVars

-----------------------------------------------------------------------------
(* Properties *)

\* "Unreachable is NOT declined": the saga takes a call for refused only when the
\* processor has refused it, or when the call runs under the context of a process
\* that is stopping; and a success or an answer is never made up or lost in a
\* retry, an open circuit or a backoff (asUnavailable, retry).
DeclinesNeedAnAnswer ==
  \A c \in Callers : callStage[c] = "told" =>
    \/ heard[c] = outcome[c]
    \/ heard[c] = "nothing" /\ outcome[c] = "unavailable"
    \/ heard[c] = "nothing" /\ outcome[c] = "rejected" /\ stopping /\ c \in Cancellable
=============================================================================
