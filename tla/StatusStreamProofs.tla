-------------------------- MODULE StatusStreamProofs --------------------------
(***************************************************************************)
(* What the status feed keeps for any number of goroutines and streams,    *)
(* any buffer and any number of updates.                                   *)
(***************************************************************************)
EXTENDS StatusStream, TLAPS

-----------------------------------------------------------------------------
(* The inductive invariant *)

\* An update on its way that tells of an ending tells of the row as it is: a
\* payment that has ended is not updated again.
Lasts(u) == u.status \in FinalStatuses => u = current

\* A publisher serves only channels that are still in the bus; to leave it, a
\* handler waits until no publisher is inside.
PublisherOK(g) ==
  /\ Lasts(news[g])
  /\ sendTo[g] # {} => g \in sending
  /\ \A s \in sendTo[g] : phase[s] \in {"open", "ending"}

StreamOK(s) ==
  /\ Lasts(told[s])
  /\ \A i \in 1..Len(inbox[s]) : Lasts(inbox[s][i])

StreamInv ==
  /\ StreamTypeOK
  /\ \A g \in Goroutines : PublisherOK(g)
  /\ \A s \in Streams : StreamOK(s)

USE DEF publisher, handler

-----------------------------------------------------------------------------
(* It is preserved *)

LEMMA NothingIsUpdate == Nothing \in Updates /\ Nothing.status = "processing"
BY StreamAssumption DEF Nothing, Updates, StreamStatuses

LEMMA StreamInvInit == StreamInit => StreamInv
BY NothingIsUpdate, StreamAssumption
   DEF StreamInit, StreamInv, StreamTypeOK, PublisherOK, StreamOK, Lasts, FinalStatuses

LEMMA StreamInvStutter == StreamInv /\ UNCHANGED streamVars => StreamInv'
BY DEF streamVars, StreamInv, StreamTypeOK, PublisherOK, StreamOK, Lasts

\* A commit finds the payment unended, so no update on its way tells of an ending.
LEMMA CommitOverridesNoEnding ==
  ASSUME StreamInv, current.status \notin FinalStatuses, NEW u, Lasts(u)
  PROVE  u.status \notin FinalStatuses
BY DEF Lasts

LEMMA StreamInvCommit ==
  ASSUME StreamInv, NEW g \in Goroutines, CommitUpdate(g)
  PROVE  StreamInv'
<1>1. PICK u \in Updates :
        /\ current' = u
        /\ news' \in {news, [news EXCEPT ![g] = u]}
        /\ UNCHANGED <<sending, sendTo, handler>>
  <2>1. PICK status \in Successors(current.status) :
          /\ current.at < MaxUpdates
          /\ \/ news' = [news EXCEPT ![g] = [at |-> current.at + 1, status |-> status]]
             \/ UNCHANGED news
          /\ current' = [at |-> current.at + 1, status |-> status]
          /\ UNCHANGED <<sending, sendTo, handler>>
    BY DEF CommitUpdate
  <2>2. status \in StreamStatuses
    BY DEF Successors, StreamStatuses
  <2>3. [at |-> current.at + 1, status |-> status] \in Updates
    BY <2>1, <2>2, StreamAssumption DEF StreamInv, StreamTypeOK, Updates
  <2>. QED
    BY <2>1, <2>3
<1>2. current.status \notin FinalStatuses
  BY DEF CommitUpdate, Successors, FinalStatuses
<1>3. StreamTypeOK'
  BY <1>1 DEF StreamInv, StreamTypeOK
<1>4. ASSUME NEW h \in Goroutines
      PROVE  PublisherOK(h)'
  BY <1>1, <1>2 DEF StreamInv, StreamTypeOK, PublisherOK, Lasts
<1>5. ASSUME NEW s \in Streams
      PROVE  StreamOK(s)'
  BY <1>1, <1>2 DEF StreamInv, StreamOK, Lasts
<1>. QED
  BY <1>3, <1>4, <1>5 DEF StreamInv

LEMMA StreamInvExpire ==
  ASSUME StreamInv, ExpireParked
  PROVE  StreamInv'
<1>1. /\ current'.status = "failed" /\ current' \in Updates
      /\ UNCHANGED <<publisher, handler>>
  BY StreamAssumption DEF ExpireParked, StreamInv, StreamTypeOK, Updates, StreamStatuses
<1>2. current.status \notin FinalStatuses
  BY DEF ExpireParked, FinalStatuses
<1>. QED
  BY <1>1, <1>2 DEF StreamInv, StreamTypeOK, PublisherOK, StreamOK, Lasts

LEMMA StreamInvPublish ==
  ASSUME StreamInv, NEW g \in Goroutines, PublishStep(g)
  PROVE  StreamInv'
<1>1. CASE PublishBegin(g)
  BY <1>1
     DEF PublishBegin, Subscribed, StreamInv, StreamTypeOK, PublisherOK, StreamOK, Lasts
<1>2. CASE PublishTo(g)
  <2>1. PICK s \in sendTo[g] :
          /\ sendTo' = [sendTo EXCEPT ![g] = @ \ {s}]
          /\ inbox' = IF Len(inbox[s]) < Buffer
                      THEN [inbox EXCEPT ![s] = Append(@, news[g])] ELSE inbox
          /\ UNCHANGED <<current, news, sending, phase, told>>
    BY <1>2 DEF PublishTo
  <2>2. s \in Streams /\ news[g] \in Updates /\ inbox[s] \in Seq(Updates)
    BY <2>1 DEF StreamInv, StreamTypeOK
  <2>3. StreamTypeOK'
    BY <2>1, <2>2, StreamAssumption DEF StreamInv, StreamTypeOK
  <2>4. \A h \in Goroutines : PublisherOK(h)'
    BY <2>1 DEF StreamInv, StreamTypeOK, PublisherOK, Lasts
  <2>5. ASSUME NEW t \in Streams
        PROVE  StreamOK(t)'
    <3>1. CASE inbox'[t] = inbox[t]
      BY <2>1, <3>1 DEF StreamInv, StreamOK, Lasts
    <3>2. CASE inbox'[t] = Append(inbox[t], news[g])
      <4>1. inbox[t] \in Seq(Updates) /\ Lasts(news[g]) /\ StreamOK(t)
        BY DEF StreamInv, StreamTypeOK, PublisherOK
      <4>2. \A i \in 1..Len(inbox'[t]) : Lasts(inbox'[t][i])
        BY <3>2, <4>1, <2>2 DEF StreamOK
      <4>. QED
        BY <2>1, <4>1, <4>2 DEF StreamOK, Lasts
    <3>. QED
      BY <2>1, <2>2, <3>1, <3>2 DEF StreamInv, StreamTypeOK
  <2>. QED
    BY <2>3, <2>4, <2>5 DEF StreamInv
<1>3. CASE PublishEnd(g)
  BY <1>3, NothingIsUpdate
     DEF PublishEnd, StreamInv, StreamTypeOK, PublisherOK, StreamOK, Lasts, FinalStatuses
<1>. QED
  BY <1>1, <1>2, <1>3 DEF PublishStep

LEMMA StreamInvLoad ==
  ASSUME StreamInv, NEW s \in Streams, LoadStatus(s)
  PROVE  StreamInv'
BY DEF LoadStatus, StreamInv, StreamTypeOK, PublisherOK, StreamOK, Lasts

LEMMA StreamInvReceive ==
  ASSUME StreamInv, NEW s \in Streams, Receive(s)
  PROVE  StreamInv'
<1>1. /\ phase[s] = "open" /\ inbox[s] # <<>>
      /\ told' = [told EXCEPT ![s] = Head(inbox[s])]
      /\ inbox' = [inbox EXCEPT ![s] = Tail(@)]
      /\ phase' \in {phase, [phase EXCEPT ![s] = "ending"]}
      /\ UNCHANGED <<current, publisher>>
  BY DEF Receive
<1>2. inbox[s] \in Seq(Updates)
  BY DEF StreamInv, StreamTypeOK
<1>3. /\ Head(inbox[s]) = inbox[s][1] /\ Head(inbox[s]) \in Updates
      /\ 1 \in 1..Len(inbox[s])
      /\ Tail(inbox[s]) \in Seq(Updates)
      /\ Len(Tail(inbox[s])) = Len(inbox[s]) - 1
      /\ \A i \in 1..Len(Tail(inbox[s])) :
           i + 1 \in 1..Len(inbox[s]) /\ Tail(inbox[s])[i] = inbox[s][i + 1]
  BY <1>1, <1>2
<1>4. StreamTypeOK'
  <2>1. told' \in [Streams -> Updates]
    BY <1>1, <1>3 DEF StreamInv, StreamTypeOK
  <2>2. inbox' \in [Streams -> Seq(Updates)]
    BY <1>1, <1>3 DEF StreamInv, StreamTypeOK
  <2>3. ASSUME NEW t \in Streams
        PROVE  Len(inbox'[t]) <= Buffer
    <3>1. CASE t # s
      BY <1>1, <3>1 DEF StreamInv, StreamTypeOK
    <3>2. CASE t = s
      <4>1. inbox'[s] = Tail(inbox[s]) /\ Len(inbox[s]) <= Buffer
        BY <1>1 DEF StreamInv, StreamTypeOK
      <4>. QED
        BY <1>2, <1>3, <3>2, <4>1, StreamAssumption
    <3>. QED
      BY <3>1, <3>2
  <2>4. phase' \in [Streams -> {"idle", "loaded", "open", "ending", "left", "gone"}]
    BY <1>1 DEF StreamInv, StreamTypeOK
  <2>. QED
    BY <1>1, <2>1, <2>2, <2>3, <2>4 DEF StreamInv, StreamTypeOK
<1>5. \A g \in Goroutines : PublisherOK(g)'
  BY <1>1 DEF StreamInv, StreamTypeOK, PublisherOK, Lasts
<1>6. ASSUME NEW t \in Streams
      PROVE  StreamOK(t)'
  <2>1. CASE t # s
    BY <1>1, <2>1 DEF StreamInv, StreamTypeOK, StreamOK, Lasts
  <2>2. CASE t = s
    <3>1. told'[s] = inbox[s][1] /\ inbox'[s] = Tail(inbox[s])
      BY <1>1, <1>3 DEF StreamInv, StreamTypeOK
    <3>2. \A i \in 1..Len(inbox[s]) : Lasts(inbox[s][i])
      BY DEF StreamInv, StreamOK
    <3>. QED
      BY <1>1, <1>3, <2>2, <3>1, <3>2 DEF StreamOK, Lasts
  <2>. QED
    BY <2>1, <2>2
<1>. QED
  BY <1>4, <1>5, <1>6 DEF StreamInv

\* A channel leaves the bus, and only then is it closed.
LEMMA StreamInvLeave ==
  ASSUME StreamInv, NEW s \in Streams,
         Subscribe(s) \/ Disconnect(s) \/ Unsubscribe(s) \/ CloseChannel(s)
  PROVE  StreamInv'
<1>1. PICK to \in {"open", "ending", "left", "gone"} :
        phase' = [phase EXCEPT ![s] = to]
  BY DEF Subscribe, Disconnect, Unsubscribe, CloseChannel
<1>2. UNCHANGED <<current, publisher, told, inbox>>
  BY DEF Subscribe, Disconnect, Unsubscribe, CloseChannel
<1>3. StreamTypeOK'
  BY <1>1, <1>2 DEF StreamInv, StreamTypeOK
<1>4. ASSUME NEW g \in Goroutines, NEW t \in sendTo[g]
      PROVE  phase'[t] \in {"open", "ending"}
  BY <1>4
     DEF StreamInv, StreamTypeOK, PublisherOK, Subscribe, Disconnect, Unsubscribe,
         CloseChannel
<1>. QED
  BY <1>2, <1>3, <1>4 DEF StreamInv, PublisherOK, StreamOK, Lasts

LEMMA StreamInvNext == StreamInv /\ [StreamNext]_streamVars => StreamInv'
<1>. SUFFICES ASSUME StreamInv, [StreamNext]_streamVars PROVE StreamInv'
  OBVIOUS
<1>1. CASE UNCHANGED streamVars
  BY <1>1, StreamInvStutter
<1>2. CASE StreamNext
  BY <1>2, StreamInvCommit, StreamInvPublish, StreamInvExpire, StreamInvLoad,
     StreamInvReceive, StreamInvLeave
     DEF StreamNext, HandlerStep
<1>. QED
  BY <1>1, <1>2

-----------------------------------------------------------------------------

\* Updates on their way and channels in the bus are sound in every reachable state
\* (Publish, Subscribe, streamEvents).
THEOREM StreamInvariance == StreamSpec => []StreamInv
BY StreamInvInit, StreamInvNext, PTL DEF StreamSpec

\* A client is told statuses only; and however many updates are published to a
\* handler that does not read, by however many goroutines, its channel never holds
\* more than its capacity: Publish drops what does not fit.
THEOREM StreamTypes == StreamSpec => []StreamTypeOK
BY StreamInvariance, PTL DEF StreamInv

\* Publish never panics on a closed channel, although the channel is closed after
\* the lock was given back (Subscribe's cancel).
THEOREM SendsAreSafe == StreamSpec => []NoSendOnClosedChannel
<1>1. StreamInv => NoSendOnClosedChannel
  BY DEF StreamInv, PublisherOK, NoSendOnClosedChannel
<1>. QED
  BY <1>1, StreamInvariance, PTL

\* A client that was told an ending was told the truth, however the publications of
\* several goroutines are ordered (transition commits before it publishes).
THEOREM EndingsAreTrue == StreamSpec => []EndingToldIsTrue
<1>1. StreamInv => EndingToldIsTrue
  BY DEF StreamInv, StreamOK, Lasts, EndingToldIsTrue
<1>. QED
  BY <1>1, StreamInvariance, PTL
=============================================================================
