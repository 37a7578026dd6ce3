----------------------------- MODULE StatusStream -----------------------------
(***************************************************************************)
(* The status feed of one payment: the bus of internal/pubsub, the commits *)
(* of the saga that publish to it, and the handlers of GET                 *)
(* /payments/{id}/events that subscribe (httpapi.streamEvents).            *)
(***************************************************************************)
EXTENDS Naturals, Sequences

CONSTANTS
  Goroutines,   \* goroutines that move the payment
  Streams,      \* requests to the events endpoint
  Buffer,       \* capacity of a subscriber's channel
  MaxUpdates    \* bound: status changes of the payment

\* A payment has no limit of updates: a completion that is delivered again repeats
\* one, and goroutines that race may park it and take it back.
ASSUME StreamAssumption == Buffer \in Nat /\ MaxUpdates \in Nat

VARIABLES
  current,   \* the row: its status, and the number of its updates so far
  news,      \* the update each goroutine has committed and not yet published
  sendTo,    \* the channels its Publish has still to serve, under the read lock
  sending,   \* goroutines inside Publish
  phase,     \* where each stream is
  told,      \* what its client was told last
  inbox      \* its channel

publisher  == <<news, sendTo, sending>>
handler    == <<phase, told, inbox>>
streamVars == <<current, publisher, handler>>

StreamStatuses == {"processing", "requires_action", "succeeded", "failed"}

FinalStatuses == {"succeeded", "failed"}

Updates == [at : 0..MaxUpdates, status : StreamStatuses]

Nothing == [at |-> 0, status |-> "processing"]

StreamTypeOK ==
  /\ current \in Updates
  /\ news \in [Goroutines -> Updates]
  /\ sending \subseteq Goroutines
  /\ sendTo \in [Goroutines -> SUBSET Streams]
  /\ phase \in [Streams -> {"idle", "loaded", "open", "ending", "left", "gone"}]
  /\ told \in [Streams -> Updates]
  /\ inbox \in [Streams -> Seq(Updates)]
  /\ \A s \in Streams : Len(inbox[s]) <= Buffer

StreamInit ==
  /\ current = Nothing
  /\ news = [g \in Goroutines |-> Nothing]
  /\ sending = {} /\ sendTo = [g \in Goroutines |-> {}]
  /\ phase = [s \in Streams |-> "idle"]
  /\ told = [s \in Streams |-> Nothing]
  /\ inbox = [s \in Streams |-> <<>>]

-----------------------------------------------------------------------------
(* The saga: commit, then publish *)

\* What a transition of the saga makes of a status.
Successors(status) ==
  CASE status = "processing"      -> StreamStatuses
    [] status = "requires_action" -> {"processing"}
    [] OTHER                      -> {}

\* The update is published from inside the transaction, which may yet abort.
CommitMayAbort(g) ==
  /\ news[g] = Nothing /\ current.at < MaxUpdates
  /\ \E status \in Successors(current.status) :
       LET u == [at |-> current.at + 1, status |-> status] IN
       /\ news' = [news EXCEPT ![g] = u]
       /\ current' \in {current, u}
  /\ UNCHANGED <<sending, sendTo, handler>>

\* A commit whose answer is lost takes effect and is not published.
CommitUpdate(g) ==
  /\ news[g] = Nothing /\ current.at < MaxUpdates
  /\ \E status \in Successors(current.status) :
       LET u == [at |-> current.at + 1, status |-> status] IN
       /\ current' = u
       /\ \/ news' = [news EXCEPT ![g] = u]
          \/ UNCHANGED news
  /\ UNCHANGED <<sending, sendTo, handler>>

\* step and status swapped in the statement.
ExpireSwapsColumns ==
  /\ current.status = "requires_action" /\ current.at < MaxUpdates
  /\ current' = [at |-> current.at + 1, status |-> "done"]
  /\ UNCHANGED <<publisher, handler>>

\* ExpireStaleRequiresAction publishes nothing.
ExpireParked ==
  /\ current.status = "requires_action" /\ current.at < MaxUpdates
  /\ current' = [at |-> current.at + 1, status |-> "failed"]
  /\ UNCHANGED <<publisher, handler>>

Subscribed == {s \in Streams : phase[s] \in {"open", "ending"}}

\* RLock, and the range over the channels of the payment.
PublishBegin(g) ==
  /\ news[g] # Nothing /\ g \notin sending
  /\ sending' = sending \union {g}
  /\ sendTo' = [sendTo EXCEPT ![g] = Subscribed]
  /\ UNCHANGED <<current, news, handler>>

\* The send waits for room in the channel.
PublishWaits(g) ==
  \E s \in sendTo[g] :
    /\ Len(inbox[s]) < Buffer
    /\ sendTo' = [sendTo EXCEPT ![g] = @ \ {s}]
    /\ inbox' = [inbox EXCEPT ![s] = Append(@, news[g])]
    /\ UNCHANGED <<current, news, sending, phase, told>>

\* A full channel drops the update rather than block the saga.
PublishTo(g) ==
  \E s \in sendTo[g] :
    /\ sendTo' = [sendTo EXCEPT ![g] = @ \ {s}]
    /\ inbox' = IF Len(inbox[s]) < Buffer
                THEN [inbox EXCEPT ![s] = Append(@, news[g])] ELSE inbox
    /\ UNCHANGED <<current, news, sending, phase, told>>

PublishEnd(g) ==
  /\ g \in sending /\ sendTo[g] = {}
  /\ sending' = sending \ {g}
  /\ news' = [news EXCEPT ![g] = Nothing]
  /\ UNCHANGED <<current, sendTo, handler>>

-----------------------------------------------------------------------------
(* The stream *)

LoadStatus(s) ==
  /\ phase[s] = "idle"
  /\ phase' = [phase EXCEPT ![s] = "loaded"]
  /\ told' = [told EXCEPT ![s] = current]
  /\ UNCHANGED <<current, publisher, inbox>>

\* The exclusive lock of the bus waits for the publishers to be through.
Subscribe(s) ==
  /\ phase[s] = "loaded" /\ sending = {}
  /\ phase' = [phase EXCEPT ![s] = "open"]
  /\ UNCHANGED <<current, publisher, told, inbox>>

\* The loop sends what arrives and ends with the first status that is not
\* processing.
Receive(s) ==
  /\ phase[s] = "open" /\ inbox[s] # <<>>
  /\ told' = [told EXCEPT ![s] = Head(inbox[s])]
  /\ inbox' = [inbox EXCEPT ![s] = Tail(@)]
  /\ phase' = IF Head(inbox[s]).status = "processing" THEN phase
              ELSE [phase EXCEPT ![s] = "ending"]
  /\ UNCHANGED <<current, publisher>>

Disconnect(s) ==
  /\ phase[s] = "open"
  /\ phase' = [phase EXCEPT ![s] = "ending"]
  /\ UNCHANGED <<current, publisher, told, inbox>>

\* The channel leaves the bus without a lock.
UnsubscribeUnlocked(s) ==
  /\ phase[s] = "ending"
  /\ phase' = [phase EXCEPT ![s] = "left"]
  /\ UNCHANGED <<current, publisher, told, inbox>>

Unsubscribe(s) ==
  /\ phase[s] = "ending" /\ sending = {}
  /\ phase' = [phase EXCEPT ![s] = "left"]
  /\ UNCHANGED <<current, publisher, told, inbox>>

\* close(ch), after the lock was given back.
CloseChannel(s) ==
  /\ phase[s] = "left"
  /\ phase' = [phase EXCEPT ![s] = "gone"]
  /\ UNCHANGED <<current, publisher, told, inbox>>

PublishStep(g) == PublishBegin(g) \/ PublishTo(g) \/ PublishEnd(g)

HandlerStep(s) == Subscribe(s) \/ Receive(s) \/ Unsubscribe(s) \/ CloseChannel(s)

StreamNext ==
  \/ \E g \in Goroutines : CommitUpdate(g) \/ PublishStep(g)
  \/ ExpireParked
  \/ \E s \in Streams : LoadStatus(s) \/ HandlerStep(s) \/ Disconnect(s)

StreamSpec == StreamInit /\ [][StreamNext]_streamVars

\* A goroutine inside Publish goes on; a handler need not, for its client may be
\* as slow as it likes.
StreamFairness == \A g \in Goroutines : WF_streamVars(PublishStep(g))

-----------------------------------------------------------------------------
(* Properties *)

\* No publisher is about to send on a channel that is closed, which would bring
\* the whole process down (Publish under the read lock, close after unsubscribe).
NoSendOnClosedChannel ==
  \A g \in Goroutines : \A s \in sendTo[g] : phase[s] # "gone"

\* What a client is told of the end of its payment is what the row says, for
\* good (transition and transitionWith publish only what is committed).
EndingToldIsTrue ==
  \A s \in Streams : told[s].status \in FinalStatuses => told[s] = current

\* "slow subscribers drop updates rather than block the saga": a publication comes
\* to its end though no handler ever reads or leaves (Publish holds the read lock
\* until every channel is served, and a handler that leaves waits for the lock).
SagaIsNotBlocked ==
  \A g \in Goroutines : g \in sending ~> g \notin sending
=============================================================================
