-------------------------- MODULE CompletionConsumer --------------------------
(***************************************************************************)
(* The Kafka consumer of gateway.psp.completed.v1 (internal/consumer): how *)
(* replicas of one consumer group take a partition through retries, dead   *)
(* letters and offset commits.  What CompleteFromGateway does to a payment *)
(* is in PaymentSaga; here only whether it returns nil or an error counts. *)
(***************************************************************************)
EXTENDS Naturals

CONSTANTS
  Consumers,         \* replicas of the service, one consumer group
  NoConsumer,        \* the owner of an unassigned partition
  LogEnd,            \* number of records in the partition
  Poison,            \* records that can never be handled
  MaxAttempts,       \* maxAttempts of consumer.go
  MaxInterruptions,  \* bound: crashes and rebalances in one behaviour
  Faults             \* {"db"}: statements fail; {"dlq"}: dead letters are not
                     \* accepted; {"fetch"}: polls report partition errors

ASSUME ConsumerAssumption ==
  /\ NoConsumer \notin Consumers
  /\ LogEnd \in Nat /\ MaxInterruptions \in Nat
  /\ MaxAttempts \in Nat \ {0}
  /\ Poison \subseteq 1..LogEnd

VARIABLES
  owner,          \* the consumer the group has assigned the partition to
  committed,      \* the group's committed offset: records 1..committed are done
  cursor,         \* what each consumer has polled under its assignment
  pc, task,       \* where each consumer is, and the batch in its hands
  marked,         \* processed_events
  dead,           \* records in the dead-letter topic
  interruptions,
  accepted,       \* history: records for which CompleteFromGateway returned nil
  errors          \* history: errors of handle with each record, up to MaxAttempts

stores  == <<marked, dead>>
history == <<accepted, errors>>
group   == <<owner, committed, interruptions>>
vars    == <<group, cursor, pc, task, stores, history>>

Records == 1..LogEnd

\* The record being handled, the end of its batch, the attempt, and whether the
\* batch is settled so far.
Tasks == [at : 0..LogEnd, last : 0..LogEnd, attempt : 1..MaxAttempts, settled : BOOLEAN]

NoTask == [at |-> 0, last |-> 0, attempt |-> 1, settled |-> TRUE]

TypeOK ==
  /\ owner \in Consumers \union {NoConsumer}
  /\ committed \in 0..LogEnd
  /\ cursor \in [Consumers -> 0..LogEnd]
  /\ pc \in [Consumers -> {"poll", "validate", "check", "effect", "mark", "dead", "commit"}]
  /\ task \in [Consumers -> Tasks]
  /\ marked \subseteq Records /\ dead \subseteq Records
  /\ interruptions \in 0..MaxInterruptions
  /\ accepted \subseteq Records
  /\ errors \in [Records -> 0..MaxAttempts]

Init ==
  /\ owner = NoConsumer
  /\ committed = 0
  /\ cursor = [c \in Consumers |-> 0]
  /\ pc = [c \in Consumers |-> "poll"]
  /\ task = [c \in Consumers |-> NoTask]
  /\ marked = {} /\ dead = {}
  /\ interruptions = 0
  /\ accepted = {} /\ errors = [i \in Records |-> 0]

-----------------------------------------------------------------------------
(* Moving a consumer *)

Goto(c, label) ==
  /\ pc' = [pc EXCEPT ![c] = label]
  /\ UNCHANGED task

\* The attempts at one record are counted against the next one of the batch.
NextRecordKeepsAttempt(c, ok) ==
  LET t == task[c]
      settled == t.settled /\ ok
  IN
  IF t.at < t.last
  THEN /\ task' = [task EXCEPT ![c].at = @ + 1, ![c].settled = settled]
       /\ pc' = [pc EXCEPT ![c] = "validate"]
  ELSE /\ task' = [task EXCEPT ![c] = NoTask]
       /\ pc' = [pc EXCEPT ![c] = IF settled THEN "commit" ELSE "poll"]

\* The record is done with; an unsettled one leaves the whole batch unsettled,
\* and an unsettled batch is not committed.
NextRecord(c, ok) ==
  LET t == task[c]
      settled == t.settled /\ ok
  IN
  IF t.at < t.last
  THEN /\ task' = [task EXCEPT ![c] = [at |-> t.at + 1, last |-> t.last,
                                       attempt |-> 1, settled |-> settled]]
       /\ pc' = [pc EXCEPT ![c] = "validate"]
  ELSE /\ task' = [task EXCEPT ![c] = NoTask]
       /\ pc' = [pc EXCEPT ![c] = IF settled THEN "commit" ELSE "poll"]

CountError(c) ==
  errors' = [errors EXCEPT ![task[c].at] = IF @ < MaxAttempts THEN @ + 1 ELSE @]

\* An exhausted record is dropped and taken for settled.
RetryDrops(c) ==
  /\ CountError(c)
  /\ IF task[c].attempt < MaxAttempts
     THEN /\ task' = [task EXCEPT ![c].attempt = @ + 1]
          /\ pc' = [pc EXCEPT ![c] = "validate"]
     ELSE NextRecord(c, TRUE)

\* The loop runs once too often.
RetryOnceMore(c) ==
  /\ CountError(c)
  /\ IF task[c].attempt <= MaxAttempts
     THEN /\ task' = [task EXCEPT ![c].attempt = @ + 1]
          /\ pc' = [pc EXCEPT ![c] = "validate"]
     ELSE Goto(c, "dead")

\* The attempts are not counted.
RetryForever(c) == CountError(c) /\ Goto(c, "validate")

\* handle returned an error that is not poison.
Retry(c) ==
  /\ CountError(c)
  /\ IF task[c].attempt < MaxAttempts
     THEN /\ task' = [task EXCEPT ![c].attempt = @ + 1]
          /\ pc' = [pc EXCEPT ![c] = "validate"]
     ELSE Goto(c, "dead")

-----------------------------------------------------------------------------
(* Run *)

\* What is polled moves the cursor at once; only a commit makes that durable.  A
\* poll that also reports an error of some partition goes round the loop without
\* a look at its records.
Poll(c) ==
  /\ pc[c] = "poll"
  /\ owner = c
  /\ \E last \in cursor[c] + 1 .. LogEnd :
       /\ cursor' = [cursor EXCEPT ![c] = last]
       /\ \/ /\ task' = [task EXCEPT ![c] =
                           [NoTask EXCEPT !.at = cursor[c] + 1, !.last = last]]
             /\ pc' = [pc EXCEPT ![c] = "validate"]
          \/ /\ "fetch" \in Faults
             /\ UNCHANGED <<pc, task>>
  /\ UNCHANGED <<group, stores, history>>

\* Commits what was polled under the present assignment; a commit that fails is
\* logged, and a consumer that lost the partition has nothing to commit.
Commit(c) ==
  /\ pc[c] = "commit"
  /\ \/ /\ owner = c
        /\ committed' = cursor[c]
     \/ UNCHANGED committed
  /\ Goto(c, "poll")
  /\ UNCHANGED <<owner, interruptions, cursor, stores, history>>

-----------------------------------------------------------------------------
(* handle and deadLetter *)

\* A registry outage holds the consumer here until the registry is back.
Validate(c) ==
  /\ pc[c] = "validate"
  /\ Goto(c, IF task[c].at \in Poison THEN "dead" ELSE "check")
  /\ UNCHANGED <<group, cursor, stores, history>>

CheckSeen(c) ==
  /\ pc[c] = "check"
  /\ \/ /\ task[c].at \in marked
        /\ NextRecord(c, TRUE)
        /\ UNCHANGED errors
     \/ /\ task[c].at \notin marked
        /\ Goto(c, "effect")
        /\ UNCHANGED errors
     \/ /\ "db" \in Faults
        /\ Retry(c)
  /\ UNCHANGED <<group, cursor, stores, accepted>>

\* CompleteFromGateway returns nil, which need not mean that it had an effect: the
\* payment was not waiting for the event, or the transaction of failAndCompensate
\* failed.  Or it returns an error, which may hide a commit that went through.
Effect(c) ==
  /\ pc[c] = "effect"
  /\ \/ /\ accepted' = accepted \union {task[c].at}
        /\ Goto(c, "mark")
        /\ UNCHANGED errors
     \/ /\ "db" \in Faults
        /\ Retry(c)
        /\ UNCHANGED accepted
  /\ UNCHANGED <<group, cursor, stores>>

Mark(c) ==
  LET done == marked \union {task[c].at} IN
  /\ pc[c] = "mark"
  /\ \/ /\ marked' = done
        /\ NextRecord(c, TRUE)
        /\ UNCHANGED errors
     \/ /\ "db" \in Faults
        /\ marked' \in {marked, done}
        /\ Retry(c)
  /\ UNCHANGED <<group, cursor, dead, accepted>>

DeadLetter(c) ==
  /\ pc[c] = "dead"
  /\ \/ /\ dead' = dead \union {task[c].at}
        /\ NextRecord(c, TRUE)
     \/ /\ "dlq" \in Faults
        /\ NextRecord(c, FALSE)
        /\ UNCHANGED dead
  /\ UNCHANGED <<group, cursor, marked, history>>

-----------------------------------------------------------------------------
(* The group *)

\* The group gives an unassigned partition to a consumer, which starts from the
\* committed offset.
Assign(c) ==
  /\ owner = NoConsumer
  /\ owner' = c
  /\ cursor' = [cursor EXCEPT ![c] = committed]
  /\ UNCHANGED <<committed, interruptions, pc, task, stores, history>>

Interrupts ==
  /\ interruptions < MaxInterruptions
  /\ interruptions' = interruptions + 1

\* The partition is taken away while the consumer may be handling a batch of it.
Revoke ==
  /\ Interrupts
  /\ owner # NoConsumer
  /\ owner' = NoConsumer
  /\ UNCHANGED <<committed, cursor, pc, task, stores, history>>

\* The replica dies and comes back with nothing in its hands.
Crash(c) ==
  /\ Interrupts
  /\ owner' = IF owner = c THEN NoConsumer ELSE owner
  /\ pc' = [pc EXCEPT ![c] = "poll"]
  /\ task' = [task EXCEPT ![c] = NoTask]
  /\ UNCHANGED <<committed, cursor, stores, history>>

Work(c) ==
  \/ Poll(c)      \/ Commit(c)
  \/ Validate(c)  \/ CheckSeen(c) \/ Effect(c) \/ Mark(c)
  \/ DeadLetter(c)

Next ==
  \/ \E c \in Consumers : Work(c) \/ Assign(c) \/ Crash(c)
  \/ Revoke

\* The loop of Run goes on, and the group assigns what nobody has.
Fairness ==
  /\ \A c \in Consumers : WF_vars(Work(c))
  /\ WF_vars(\E c \in Consumers : Assign(c))

Spec == Init /\ [][Next]_vars

FairSpec == Spec /\ Fairness

-----------------------------------------------------------------------------
(* Properties *)

\* A record is settled once it is processed or safely in the DLQ.
Settled == marked \union dead

\* No committed offset passes a record that is stored nowhere ("Committing an
\* unsettled batch would advance past an event we never stored anywhere"): a
\* replica that crashes, loses the partition or gives up on a record included.
CommittedIsSettled == 1..committed \subseteq Settled

\* An event is marked only when CompleteFromGateway has accepted it ("a swallowed
\* failure here strands the payment"), and dead-lettered only when it is poison or
\* MaxAttempts attempts of its own have failed, with two replicas at one record.
SettledForAReason ==
  /\ marked \subseteq accepted
  /\ \A i \in dead : i \in Poison \/ errors[i] = MaxAttempts

\* No event is forgotten: each is processed or dead-lettered in the end, also
\* when statements keep failing (handleWithRetry) and replicas die.
EveryEventSettles == \A i \in Records : <>(i \in Settled)
=============================================================================
