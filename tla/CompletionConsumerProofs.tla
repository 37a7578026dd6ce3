----------------------- MODULE CompletionConsumerProofs -----------------------
(***************************************************************************)
(* What CompletionConsumer keeps for any log, any number of replicas and   *)
(* any number of crashes and rebalances.                                   *)
(***************************************************************************)
EXTENDS CompletionConsumer, TLAPS

-----------------------------------------------------------------------------
(* The inductive invariants *)

Handling == {"validate", "check", "effect", "mark", "dead"}

\* A consumer that handles a batch is at a record of it and has failed with it
\* before each further attempt; it marks what was accepted and gives up on what is
\* poison or has used up its attempts.
ConsumerOK(c) ==
  /\ pc[c] \in Handling =>
       /\ 1 <= task[c].at /\ task[c].at <= task[c].last
       /\ task[c].attempt <= errors[task[c].at] + 1
  /\ pc[c] = "mark" => task[c].at \in accepted
  /\ pc[c] = "dead" => task[c].at \in Poison \/ errors[task[c].at] = MaxAttempts

EffectInv ==
  /\ TypeOK
  /\ SettledForAReason
  /\ \A c \in Consumers : ConsumerOK(c)

\* What the owner has polled is settled or still ahead of it in its batch.
PolledIsSettled(c) ==
  owner = c =>
    \A i \in 1..cursor[c] :
      \/ i \in Settled
      \/ /\ pc[c] \in Handling
         /\ task[c].at <= i /\ i <= task[c].last

CommitInv ==
  /\ EffectInv
  /\ CommittedIsSettled
  /\ \A c \in Consumers : PolledIsSettled(c)

USE DEF stores, group, history, vars

-----------------------------------------------------------------------------
(* What is settled, and why *)

LEMMA EffectInit == Init => EffectInv
BY ConsumerAssumption
   DEF Init, EffectInv, TypeOK, SettledForAReason, ConsumerOK, Tasks, NoTask, Handling,
       Records

LEMMA NoTaskType == NoTask \in Tasks
BY ConsumerAssumption DEF NoTask, Tasks

\* The record in hand is one of the log.
LEMMA AtRecord ==
  ASSUME EffectInv, NEW c \in Consumers, pc[c] \in Handling
  PROVE  task[c].at \in Records
BY ConsumerAssumption DEF EffectInv, TypeOK, ConsumerOK, Tasks, Records

\* The histories only grow.
HistoryGrows ==
  /\ accepted \subseteq accepted' /\ accepted' \subseteq Records
  /\ errors' \in [Records -> 0..MaxAttempts]
  /\ \A i \in Records : errors[i] <= errors'[i]

\* A step leaves the consumers it does not move in order.
LEMMA OthersKeep ==
  ASSUME EffectInv, NEW d \in Consumers, HistoryGrows,
         pc'[d] = pc[d], task'[d] = task[d]
  PROVE  ConsumerOK(d)'
<1>1. CASE pc[d] \in Handling
  <2>1. task[d].at \in Records /\ task[d].attempt \in Nat
    BY <1>1, AtRecord, ConsumerAssumption DEF EffectInv, TypeOK, Tasks
  <2>2. /\ errors[task[d].at] \in 0..MaxAttempts /\ errors'[task[d].at] \in 0..MaxAttempts
        /\ errors[task[d].at] <= errors'[task[d].at]
    BY <2>1 DEF EffectInv, TypeOK, HistoryGrows
  <2>. QED
    BY <1>1, <2>1, <2>2, ConsumerAssumption DEF EffectInv, ConsumerOK, HistoryGrows
<1>2. CASE pc[d] \notin Handling
  BY <1>2 DEF ConsumerOK, Handling
<1>. QED  BY <1>1, <1>2

\* What was settled for a reason still is.
LEMMA ReasonsStay ==
  ASSUME EffectInv, HistoryGrows, UNCHANGED stores
  PROVE  SettledForAReason'
BY ConsumerAssumption DEF EffectInv, TypeOK, SettledForAReason, HistoryGrows

\* The next record of the batch, the next attempt, and a move within a record.
LEMMA NextRecordTypes ==
  ASSUME EffectInv, NEW c \in Consumers, NEW ok \in BOOLEAN, pc[c] \in Handling,
         NextRecord(c, ok), HistoryGrows
  PROVE  /\ task' \in [Consumers -> Tasks]
         /\ pc' \in [Consumers -> {"poll", "validate", "check", "effect", "mark",
                                   "dead", "commit"}]
         /\ ConsumerOK(c)'
         /\ \A d \in Consumers \ {c} : pc'[d] = pc[d] /\ task'[d] = task[d]
<1>. DEFINE t == task[c]
            more == [at |-> t.at + 1, last |-> t.last, attempt |-> 1,
                     settled |-> t.settled /\ ok]
<1>1. t \in Tasks /\ t.at \in Nat /\ t.last \in 0..LogEnd /\ t.last \in Nat
  BY ConsumerAssumption DEF EffectInv, TypeOK, Tasks
<1>2. CASE t.at < t.last
  <2>1. more \in Tasks
    BY <1>1, <1>2, ConsumerAssumption DEF Tasks
  <2>2. task' = [task EXCEPT ![c] = more] /\ pc' = [pc EXCEPT ![c] = "validate"]
    BY <1>2 DEF NextRecord
  <2>3. 1 <= more.at /\ more.at <= more.last /\ more.at \in Records
    BY <1>1, <1>2, ConsumerAssumption DEF Records
  <2>4. errors'[more.at] \in Nat
    BY <2>3, ConsumerAssumption DEF HistoryGrows
  <2>5. task'[c] = more /\ pc'[c] = "validate"
    BY <2>2 DEF EffectInv, TypeOK
  <2>6. ConsumerOK(c)'
    BY <2>3, <2>4, <2>5 DEF ConsumerOK
  <2>. QED  BY <2>1, <2>2, <2>6 DEF EffectInv, TypeOK
<1>3. CASE ~(t.at < t.last)
  <2>1. /\ task' = [task EXCEPT ![c] = NoTask]
        /\ pc' = [pc EXCEPT ![c] = IF t.settled /\ ok THEN "commit" ELSE "poll"]
    BY <1>3 DEF NextRecord
  <2>. QED  BY <2>1, NoTaskType DEF EffectInv, TypeOK, Handling, ConsumerOK
<1>. QED  BY <1>2, <1>3

LEMMA RetryTypes ==
  ASSUME EffectInv, NEW c \in Consumers, pc[c] \in Handling, Retry(c)
  PROVE  /\ task' \in [Consumers -> Tasks]
         /\ pc' \in [Consumers -> {"poll", "validate", "check", "effect", "mark",
                                   "dead", "commit"}]
         /\ task'[c].at = task[c].at /\ task'[c].last = task[c].last
         /\ pc'[c] \in {"validate", "dead"}
         /\ errors' \in [Records -> 0..MaxAttempts]
         /\ \A i \in Records : errors[i] <= errors'[i]
         /\ ConsumerOK(c)'
         /\ \A d \in Consumers \ {c} : pc'[d] = pc[d] /\ task'[d] = task[d]
<1>. DEFINE t == task[c]
            e == errors[t.at]
            more == IF e < MaxAttempts THEN e + 1 ELSE e
<1>1. /\ t \in Tasks /\ t.at \in Records /\ t.attempt \in 1..MaxAttempts
      /\ 1 <= t.at /\ t.at <= t.last /\ t.attempt <= e + 1
  BY AtRecord DEF EffectInv, TypeOK, Tasks, ConsumerOK
<1>2. e \in 0..MaxAttempts /\ more \in 0..MaxAttempts /\ e <= more
  BY <1>1, ConsumerAssumption DEF EffectInv, TypeOK
<1>3. errors' = [errors EXCEPT ![t.at] = more]
  BY DEF Retry, CountError
<1>4. /\ errors' \in [Records -> 0..MaxAttempts]
      /\ \A i \in Records : errors[i] <= errors'[i]
      /\ errors'[t.at] = more
  BY <1>1, <1>2, <1>3, ConsumerAssumption DEF EffectInv, TypeOK
<1>5. CASE t.attempt < MaxAttempts
  <2>1. /\ task' = [task EXCEPT ![c].attempt = @ + 1]
        /\ pc' = [pc EXCEPT ![c] = "validate"]
    BY <1>5 DEF Retry
  <2>2. task'[c].at = t.at /\ task'[c].last = t.last /\ task'[c].attempt = t.attempt + 1
    BY <1>1, <2>1 DEF EffectInv, TypeOK, Tasks
  <2>3. task' \in [Consumers -> Tasks]
    BY <1>1, <1>5, <2>1, ConsumerAssumption DEF EffectInv, TypeOK, Tasks
  <2>4. t.attempt + 1 <= more + 1
    BY <1>1, <1>2, <1>5, ConsumerAssumption
  <2>5. pc'[c] = "validate"
    BY <2>1 DEF EffectInv, TypeOK
  <2>6. ConsumerOK(c)'
    BY <1>1, <1>4, <2>2, <2>4, <2>5 DEF ConsumerOK
  <2>. QED  BY <1>4, <2>1, <2>2, <2>3, <2>5, <2>6 DEF EffectInv, TypeOK
<1>6. CASE ~(t.attempt < MaxAttempts)
  <2>1. UNCHANGED task /\ pc' = [pc EXCEPT ![c] = "dead"]
    BY <1>6 DEF Retry, Goto
  <2>2. more = MaxAttempts /\ t.attempt <= more + 1
    BY <1>1, <1>2, <1>6, ConsumerAssumption
  <2>3. ConsumerOK(c)'
    BY <1>1, <1>4, <2>1, <2>2 DEF ConsumerOK, EffectInv, TypeOK
  <2>. QED  BY <1>4, <2>1, <2>3 DEF EffectInv, TypeOK
<1>. QED  BY <1>5, <1>6

\* A step of one consumer at its record, by the shape the actions share.
LEMMA StepAtRecord ==
  ASSUME EffectInv, NEW c \in Consumers, pc[c] \in Handling,
         UNCHANGED <<group, cursor>>, HistoryGrows,
         marked' \subseteq Records, dead' \subseteq Records, SettledForAReason',
         \/ \E ok \in BOOLEAN : NextRecord(c, ok)
         \/ Retry(c)
         \/ /\ ConsumerOK(c)'
            /\ \E label \in Handling : Goto(c, label)
  PROVE  EffectInv'
<1>1. /\ task' \in [Consumers -> Tasks]
      /\ pc' \in [Consumers -> {"poll", "validate", "check", "effect", "mark",
                                "dead", "commit"}]
      /\ ConsumerOK(c)'
      /\ \A d \in Consumers \ {c} : pc'[d] = pc[d] /\ task'[d] = task[d]
  BY NextRecordTypes, RetryTypes DEF Goto, Handling, EffectInv, TypeOK
<1>2. TypeOK'
  BY <1>1 DEF EffectInv, TypeOK, HistoryGrows
<1>. QED  BY <1>1, <1>2, OthersKeep DEF EffectInv

LEMMA EffectStep == EffectInv /\ [Next]_vars => EffectInv'
<1>. SUFFICES ASSUME EffectInv, [Next]_vars PROVE EffectInv'
  OBVIOUS
<1>. USE DEF EffectInv
<1>a. UNCHANGED history => HistoryGrows
  BY ConsumerAssumption DEF HistoryGrows, TypeOK
<1>1. CASE UNCHANGED vars
  BY <1>1 DEF TypeOK, SettledForAReason, ConsumerOK
<1>2. ASSUME NEW c \in Consumers, Poll(c) PROVE EffectInv'
  <2>1. PICK last \in cursor[c] + 1 .. LogEnd :
          /\ cursor' = [cursor EXCEPT ![c] = last]
          /\ \/ /\ task' = [task EXCEPT ![c] =
                              [NoTask EXCEPT !.at = cursor[c] + 1, !.last = last]]
                /\ pc' = [pc EXCEPT ![c] = "validate"]
             \/ UNCHANGED <<pc, task>>
    BY <1>2 DEF Poll
  <2>2. last \in 0..LogEnd /\ cursor[c] + 1 \in 0..LogEnd /\ 1 <= cursor[c] + 1
    BY ConsumerAssumption DEF TypeOK
  <2>3. [NoTask EXCEPT !.at = cursor[c] + 1, !.last = last] \in Tasks
    BY <2>2, NoTaskType DEF NoTask, Tasks
  <2>4. TypeOK'
    BY <1>2, <2>1, <2>2, <2>3 DEF TypeOK, Poll
  <2>5. ASSUME NEW d \in Consumers PROVE ConsumerOK(d)'
    <3>1. CASE pc'[d] = pc[d] /\ task'[d] = task[d]
      BY <1>2, <1>a, <3>1, OthersKeep DEF Poll
    <3>2. CASE d = c /\ pc'[c] = "validate"
               /\ task'[c] = [NoTask EXCEPT !.at = cursor[c] + 1, !.last = last]
      <4>1. /\ task'[c].at = cursor[c] + 1 /\ task'[c].last = last
            /\ task'[c].attempt = 1 /\ cursor[c] + 1 <= last
        BY <2>1, <3>2 DEF NoTask
      <4>2. cursor[c] + 1 \in Records
        BY <2>2, ConsumerAssumption DEF Records
      <4>3. errors'[cursor[c] + 1] \in Nat
        BY <1>2, <4>2, ConsumerAssumption DEF Poll, TypeOK
      <4>. QED  BY <2>2, <3>2, <4>1, <4>3 DEF ConsumerOK
    <3>. QED  BY <2>1, <3>1, <3>2 DEF TypeOK
  <2>. QED  BY <1>2, <2>4, <2>5 DEF Poll, SettledForAReason
<1>3. ASSUME NEW c \in Consumers, Commit(c) PROVE EffectInv'
  BY <1>3 DEF TypeOK, SettledForAReason, ConsumerOK, Commit, Goto, Handling
<1>4. ASSUME NEW c \in Consumers, Validate(c) PROVE EffectInv'
  <2>1. ConsumerOK(c)'
    BY <1>4 DEF Validate, Goto, ConsumerOK, TypeOK, Handling
  <2>. QED
    BY <1>4, <1>a, <2>1, ReasonsStay, StepAtRecord DEF Validate, Handling, TypeOK
<1>5. ASSUME NEW c \in Consumers, CheckSeen(c) PROVE EffectInv'
  <2>1. pc[c] \in Handling /\ UNCHANGED <<group, cursor, stores, accepted>>
    BY <1>5 DEF CheckSeen, Handling
  <2>2. HistoryGrows
    BY <1>5, <1>a, <2>1, RetryTypes DEF CheckSeen, HistoryGrows, TypeOK
  <2>3. \/ NextRecord(c, TRUE)
        \/ Retry(c)
        \/ ConsumerOK(c)' /\ Goto(c, "effect")
    BY <1>5 DEF CheckSeen, Goto, ConsumerOK, TypeOK, Handling
  <2>. QED  BY <2>1, <2>2, <2>3, ReasonsStay, StepAtRecord DEF Handling, TypeOK
<1>6. ASSUME NEW c \in Consumers, Effect(c) PROVE EffectInv'
  <2>1. /\ pc[c] \in Handling /\ task[c].at \in Records
        /\ UNCHANGED <<group, cursor, stores>>
    BY <1>6, AtRecord DEF Effect, Handling
  <2>2. HistoryGrows
    BY <1>6, <2>1, RetryTypes, ConsumerAssumption DEF Effect, HistoryGrows, TypeOK
  <2>3. \/ Retry(c)
        \/ ConsumerOK(c)' /\ Goto(c, "mark")
    BY <1>6 DEF Effect, Goto, ConsumerOK, TypeOK, Handling
  <2>. QED  BY <2>1, <2>2, <2>3, ReasonsStay, StepAtRecord DEF Handling, TypeOK
<1>7. ASSUME NEW c \in Consumers, Mark(c) PROVE EffectInv'
  <2>1. /\ pc[c] \in Handling /\ task[c].at \in Records /\ task[c].at \in accepted
        /\ UNCHANGED <<group, cursor, accepted, dead>>
    BY <1>7, AtRecord DEF Mark, Handling, ConsumerOK
  <2>2. marked' \subseteq marked \union {task[c].at}
    BY <1>7 DEF Mark
  <2>3. HistoryGrows
    BY <1>7, <1>a, <2>1, RetryTypes DEF Mark, HistoryGrows, TypeOK
  <2>4. SettledForAReason'
    BY <2>1, <2>2, <2>3, ConsumerAssumption DEF SettledForAReason, HistoryGrows, TypeOK
  <2>5. NextRecord(c, TRUE) \/ Retry(c)
    BY <1>7 DEF Mark
  <2>6. marked' \subseteq Records /\ dead' \subseteq Records
    BY <2>1, <2>2 DEF TypeOK
  <2>. QED  BY <2>1, <2>3, <2>4, <2>5, <2>6, StepAtRecord
<1>8. ASSUME NEW c \in Consumers, DeadLetter(c) PROVE EffectInv'
  <2>1. /\ pc[c] \in Handling /\ task[c].at \in Records
        /\ task[c].at \in Poison \/ errors[task[c].at] = MaxAttempts
        /\ UNCHANGED <<group, cursor, history, marked>>
    BY <1>8, AtRecord DEF DeadLetter, Handling, ConsumerOK
  <2>2. dead' \subseteq dead \union {task[c].at}
    BY <1>8 DEF DeadLetter
  <2>3. SettledForAReason'
    BY <2>1, <2>2 DEF SettledForAReason
  <2>4. \E ok \in BOOLEAN : NextRecord(c, ok)
    BY <1>8 DEF DeadLetter
  <2>5. marked' \subseteq Records /\ dead' \subseteq Records
    BY <2>1, <2>2 DEF TypeOK
  <2>. QED  BY <1>a, <2>1, <2>3, <2>4, <2>5, StepAtRecord
<1>9. ASSUME NEW c \in Consumers, Assign(c) PROVE EffectInv'
  BY <1>9 DEF TypeOK, SettledForAReason, ConsumerOK, Assign
<1>10. CASE Revoke
  BY <1>10, ConsumerAssumption DEF TypeOK, SettledForAReason, ConsumerOK, Revoke, Interrupts
<1>11. ASSUME NEW c \in Consumers, Crash(c) PROVE EffectInv'
  <2>1. TypeOK'
    BY <1>11, NoTaskType, ConsumerAssumption DEF TypeOK, Crash, Interrupts
  <2>2. ASSUME NEW d \in Consumers PROVE ConsumerOK(d)'
    BY <1>11, <1>a, OthersKeep DEF Crash, ConsumerOK, Handling, TypeOK
  <2>. QED  BY <1>11, <2>1, <2>2 DEF Crash, SettledForAReason
<1>. QED
  BY <1>1, <1>2, <1>3, <1>4, <1>5, <1>6, <1>7, <1>8, <1>9, <1>10, <1>11 DEF Next, Work

-----------------------------------------------------------------------------
(* What is committed is settled *)

LEMMA CommitInit == Init => CommitInv
BY EffectInit, ConsumerAssumption
   DEF Init, CommitInv, EffectInv, CommittedIsSettled, PolledIsSettled

\* The record in hand is settled and the batch goes on, or ends settled.
LEMMA NextRecordPolled ==
  ASSUME CommitInv, NEW c \in Consumers, pc[c] \in Handling, NextRecord(c, TRUE),
         task[c].at \in Settled', Settled \subseteq Settled',
         UNCHANGED <<owner, cursor>>
  PROVE  PolledIsSettled(c)'
<1>. DEFINE t == task[c]
<1>1. t.at \in Nat /\ t.last \in Nat
  BY ConsumerAssumption DEF CommitInv, EffectInv, TypeOK, Tasks
<1>2. CASE t.at < t.last
  <2>1. pc'[c] = "validate" /\ task'[c].at = t.at + 1 /\ task'[c].last = t.last
    BY <1>2 DEF NextRecord, CommitInv, EffectInv, TypeOK
  <2>. QED  BY <1>1, <2>1 DEF PolledIsSettled, CommitInv, EffectInv, TypeOK, Handling
<1>3. CASE ~(t.at < t.last)
  BY <1>1, <1>3 DEF PolledIsSettled, CommitInv, EffectInv, TypeOK
<1>. QED  BY <1>2, <1>3

\* The consumer stays at the record it has in hand.
LEMMA SameRecordPolled ==
  ASSUME CommitInv, NEW c \in Consumers, pc[c] \in Handling, pc'[c] \in Handling,
         task'[c].at = task[c].at, task'[c].last = task[c].last,
         Settled \subseteq Settled', UNCHANGED <<owner, cursor>>
  PROVE  PolledIsSettled(c)'
BY DEF CommitInv, PolledIsSettled

LEMMA SettledGrows == [Next]_vars => Settled \subseteq Settled'
BY DEF Next, Work, Poll, Commit, Validate, CheckSeen, Effect, Mark, DeadLetter, Assign,
       Revoke, Crash, Settled

\* No move of one consumer touches another.
LEMMA OthersStay ==
  ASSUME EffectInv, NEW c \in Consumers, NEW d \in Consumers \ {c},
         \/ \E ok \in BOOLEAN : NextRecord(c, ok)
         \/ \E label \in Handling : Goto(c, label)
         \/ Retry(c)
  PROVE  pc'[d] = pc[d] /\ task'[d] = task[d]
BY DEF NextRecord, Retry, Goto, EffectInv, TypeOK

\* A step of a consumer that handles a record.
LEMMA HandlingStep ==
  ASSUME Faults \cap {"dlq", "fetch"} = {}, CommitInv, NEW c \in Consumers,
         Validate(c) \/ CheckSeen(c) \/ Effect(c) \/ Mark(c) \/ DeadLetter(c)
  PROVE  CommittedIsSettled' /\ \A d \in Consumers : PolledIsSettled(d)'
<1>. USE DEF CommitInv
<1>1. /\ Settled \subseteq Settled' /\ UNCHANGED <<group, cursor>>
      /\ pc[c] \in Handling
  BY SettledGrows
     DEF Next, Work, Validate, CheckSeen, Effect, Mark, DeadLetter, Handling
<1>2. PolledIsSettled(c)'
  <2>1. CASE Retry(c)
    BY <1>1, <2>1, RetryTypes, SameRecordPolled DEF Handling
  <2>2. CASE \E label \in Handling : Goto(c, label)
    BY <1>1, <2>2, SameRecordPolled DEF Goto, EffectInv, TypeOK, Handling
  <2>3. CASE NextRecord(c, TRUE) /\ task[c].at \in Settled'
    BY <1>1, <2>3, NextRecordPolled
  <2>. QED
    BY <2>1, <2>2, <2>3
       DEF Validate, CheckSeen, Effect, Mark, DeadLetter, Settled, Handling
<1>3. ASSUME NEW d \in Consumers \ {c} PROVE PolledIsSettled(d)'
  <2>1. pc'[d] = pc[d] /\ task'[d] = task[d]
    BY <1>1, OthersStay
       DEF Validate, CheckSeen, Effect, Mark, DeadLetter, Handling
  <2>. QED  BY <1>1, <2>1 DEF PolledIsSettled
<1>. QED  BY <1>1, <1>2, <1>3 DEF CommittedIsSettled

LEMMA CommitStep ==
  ASSUME Faults \cap {"dlq", "fetch"} = {}, CommitInv, [Next]_vars
  PROVE  CommitInv'
<1>. USE DEF CommitInv
<1>1. EffectInv'
  BY EffectStep
<1>2. CASE UNCHANGED vars
  BY <1>1, <1>2 DEF CommittedIsSettled, PolledIsSettled, Settled
<1>3. ASSUME NEW c \in Consumers, Poll(c) PROVE CommitInv'
  <2>1. PICK last \in cursor[c] + 1 .. LogEnd :
          /\ cursor' = [cursor EXCEPT ![c] = last]
          /\ task' = [task EXCEPT ![c] =
                        [NoTask EXCEPT !.at = cursor[c] + 1, !.last = last]]
          /\ pc' = [pc EXCEPT ![c] = "validate"]
    BY <1>3 DEF Poll
  <2>2. PolledIsSettled(c)'
    <3>1. \A i \in 1..cursor[c] : i \in Settled
      BY <1>3 DEF Poll, PolledIsSettled, Handling
    <3>2. /\ task'[c].at = cursor[c] + 1 /\ task'[c].last = last
          /\ pc'[c] \in Handling /\ cursor'[c] = last
          /\ cursor[c] \in Nat /\ last \in Nat
      BY <2>1, ConsumerAssumption DEF EffectInv, TypeOK, NoTask, Handling
    <3>. QED  BY <1>3, <3>1, <3>2 DEF Poll, PolledIsSettled, Settled
  <2>3. ASSUME NEW d \in Consumers \ {c} PROVE PolledIsSettled(d)'
    BY <1>3 DEF Poll, PolledIsSettled
  <2>. QED  BY <1>1, <1>3, <2>2, <2>3 DEF Poll, CommittedIsSettled, Settled
<1>4. ASSUME NEW c \in Consumers, Commit(c) PROVE CommitInv'
  <2>1. owner = c => \A i \in 1..cursor[c] : i \in Settled
    BY <1>4 DEF Commit, PolledIsSettled, Handling
  <2>2. CommittedIsSettled'
    BY <1>4, <2>1 DEF Commit, CommittedIsSettled, Settled
  <2>3. \A d \in Consumers : PolledIsSettled(d)'
    BY <1>4, <2>1 DEF Commit, Goto, PolledIsSettled, Settled, EffectInv, TypeOK
  <2>. QED  BY <1>1, <2>2, <2>3
<1>5. ASSUME NEW c \in Consumers,
             Validate(c) \/ CheckSeen(c) \/ Effect(c) \/ Mark(c) \/ DeadLetter(c)
      PROVE  CommitInv'
  BY <1>1, <1>5, HandlingStep
<1>6. ASSUME NEW c \in Consumers, Assign(c) PROVE CommitInv'
  BY <1>1, <1>6 DEF Assign, CommittedIsSettled, PolledIsSettled, Settled, EffectInv, TypeOK
<1>7. CASE Revoke
  BY <1>1, <1>7, ConsumerAssumption DEF Revoke, CommittedIsSettled, PolledIsSettled, Settled
<1>8. ASSUME NEW c \in Consumers, Crash(c) PROVE CommitInv'
  <2>1. CommittedIsSettled'
    BY <1>8 DEF Crash, CommittedIsSettled, Settled
  <2>2. owner' # c
    BY <1>8, ConsumerAssumption DEF Crash
  <2>3. ASSUME NEW d \in Consumers \ {c} PROVE PolledIsSettled(d)'
    BY <1>8, ConsumerAssumption DEF Crash, PolledIsSettled, Settled, EffectInv, TypeOK
  <2>. QED  BY <1>1, <2>1, <2>2, <2>3 DEF PolledIsSettled
<1>. QED  BY <1>2, <1>3, <1>4, <1>5, <1>6, <1>7, <1>8 DEF Next, Work

-----------------------------------------------------------------------------
(* Theorems *)

\* Every state of the consumer group is well typed; no record is tried more than
\* maxAttempts times.
THEOREM ConsumerTypes == Spec => []TypeOK
<1>1. EffectInv => TypeOK
  BY DEF EffectInv
<1>. QED  BY <1>1, EffectInit, EffectStep, PTL DEF Spec

\* Whichever replicas handle an event and whatever fails, it is in processed_events
\* only if CompleteFromGateway returned nil for it, and in the dead-letter topic only
\* if it is poison or handle failed with it MaxAttempts times.
THEOREM SettlementHasAReason == Spec => []SettledForAReason
<1>1. EffectInv => SettledForAReason
  BY DEF EffectInv
<1>. QED  BY <1>1, EffectInit, EffectStep, PTL DEF Spec

\* While dead letters are accepted and no poll drops records, no committed offset
\* passes a record that is neither processed nor dead-lettered.
THEOREM NothingIsCommittedAway ==
  ASSUME Faults \cap {"dlq", "fetch"} = {}
  PROVE  Spec => []CommittedIsSettled
<1>1. CommitInv => CommittedIsSettled
  BY DEF CommitInv
<1>2. CommitInv /\ [Next]_vars => CommitInv'
  BY CommitStep
<1>. QED  BY <1>1, <1>2, CommitInit, PTL DEF Spec
=============================================================================
