------------------------------- MODULE MCEdges -------------------------------
(***************************************************************************)
(* Small instances, for TLC, of the components around the saga.  They      *)
(* share no state, so a behaviour moves one of them and leaves the others  *)
(* at rest: part says which.                                               *)
(***************************************************************************)
EXTENDS OutboxRelay, StatusStream, Reconciliation, ProcessorClient, SweeperClock

CONSTANTS a, b, boot

VARIABLE part

OneOf == {a}
TwoOf == {a, b}

\* The reconciler runs once at boot and then with its ticker.
BootAndTicker == {a, boot}

\* The topic of the third row has no schema.
LastUnframable == {3}

ScreenedOrParked == [p \in {a, b} |-> IF p = a THEN {"early"} ELSE {"parked"}]

Nowhere == {}

edgeVars == <<relayVars, streamVars, reconVars, clientVars, clockVars, part>>

Init ==
  /\ RelayInit /\ StreamInit /\ ReconInit /\ ClientInit /\ ClockInit
  /\ part \in {"relay", "stream", "recon", "client", "clock"}

Relaying(A) ==
  part = "relay" /\ A /\ UNCHANGED <<streamVars, reconVars, clientVars, clockVars, part>>

Streaming(A) ==
  part = "stream" /\ A /\ UNCHANGED <<relayVars, reconVars, clientVars, clockVars, part>>

Reconciling(A) ==
  part = "recon" /\ A /\ UNCHANGED <<relayVars, streamVars, clientVars, clockVars, part>>

Calling(A) ==
  part = "client" /\ A /\ UNCHANGED <<relayVars, streamVars, reconVars, clockVars, part>>

Sweeping(A) ==
  part = "clock" /\ A /\ UNCHANGED <<relayVars, streamVars, reconVars, clientVars, part>>

Next ==
  \/ Relaying(RelayNext) \/ Streaming(StreamNext) \/ Reconciling(ReconNext)
  \/ Calling(ClientNext) \/ Sweeping(ClockNext)

\* A relay or a stream at rest owes nothing; the tickers of the reconciler and of
\* the sweepers are only fair when theirs is the part that moves.  That part does
\* not change, so fairness of an action of the one or of the other is fairness of
\* both.
Fairness ==
  /\ RelayFairness /\ StreamFairness
  /\ \A p \in Captures : WF_edgeVars(Reconciling(Ripen(p)))
  /\ \A r \in Periodic :
       /\ SF_edgeVars(\/ Reconciling(FetchSettlement(r))
                      \/ Sweeping(\E rows \in FullBatches(Finds("resume", age)) :
                                    ResumeStale(rows)))
       /\ SF_edgeVars(\/ Reconciling(Compare(r))
                      \/ Sweeping(ExpireStaleRequiresAction(Finds("parked", age))))
       /\ WF_edgeVars(Reconciling(Record(r)))
  /\ WF_edgeVars(Sweeping(Tick)) /\ WF_edgeVars(Sweeping(Sweep))
  /\ \A p \in SweptPayments :
       WF_edgeVars(Sweeping(Progress(p) \/ RemoteFails(p) \/ StopUntouched(p)))

FairSpec == Init /\ [][Next]_edgeVars /\ Fairness
=============================================================================
