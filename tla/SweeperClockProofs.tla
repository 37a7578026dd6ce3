-------------------------- MODULE SweeperClockProofs --------------------------
(***************************************************************************)
(* What the sweepers guarantee for any number of payments, any timeouts    *)
(* and any limit of rows, whatever the remote services do.                 *)
(***************************************************************************)
EXTENDS SweeperClock, TLAPS

-----------------------------------------------------------------------------
(* The inductive invariant *)

\* A payment whose remote call failed is younger than it is stale for as long as it
\* has to rest.
RestingOK(p) ==
  driver[p] = "gave_up" =>
    /\ place[p] \in {"funds_held", "capturing", "psp_captured", "ended"}
    /\ unserved[p] < StaleAfter => age[p] <= unserved[p]

ClockInv ==
  /\ ClockTypeOK
  /\ \A p \in SweptPayments : RestingOK(p)

-----------------------------------------------------------------------------
(* It is preserved *)

LEMMA Timeouts == Oldest \in Nat /\ StaleAfter \in Nat /\ 0 < StaleAfter
BY ClockAssumption

LEMMA ClockInvInit == ClockInit => ClockInv
BY Timeouts DEF ClockInit, ClockInv, ClockTypeOK, RestingOK

LEMMA ClockInvStutter == ClockInv /\ UNCHANGED clockVars => ClockInv'
BY DEF clockVars, ClockInv, ClockTypeOK, RestingOK

LEMMA OlderAges ==
  ASSUME NEW bound \in Nat, NEW ages \in [SweptPayments -> 0..bound],
         NEW unless \in SUBSET SweptPayments
  PROVE  /\ Older(ages, unless, bound) \in [SweptPayments -> 0..bound]
         /\ \A p \in SweptPayments \ unless : place[p] # "ended" =>
              Older(ages, unless, bound)[p] =
                IF ages[p] < bound THEN ages[p] + 1 ELSE bound
         /\ \A p \in SweptPayments : place[p] = "ended" => Older(ages, unless, bound)[p] = 0
BY DEF Older

LEMMA ClockInvTick ==
  ASSUME ClockInv, Tick
  PROVE  ClockInv'
<1>. DEFINE driven == {p \in SweptPayments : Driven(p)}
<1>1. /\ age' = Older(age, {}, Oldest)
      /\ unserved' = Older(unserved, driven, StaleAfter)
      /\ driver' = [p \in SweptPayments |-> IF driver[p] = "new" THEN "old" ELSE driver[p]]
      /\ due' \subseteq Sweepers
      /\ UNCHANGED <<place, alerted>>
  BY DEF Tick
<1>2. /\ age \in [SweptPayments -> 0..Oldest] /\ unserved \in [SweptPayments -> 0..StaleAfter]
      /\ driven \in SUBSET SweptPayments /\ Oldest \in Nat /\ StaleAfter \in Nat
  BY Timeouts DEF ClockInv, ClockTypeOK
<1>3. /\ age' \in [SweptPayments -> 0..Oldest] /\ unserved' \in [SweptPayments -> 0..StaleAfter]
      /\ \A p \in SweptPayments : place[p] # "ended" =>
           /\ age'[p] = IF age[p] < Oldest THEN age[p] + 1 ELSE Oldest
           /\ ~Driven(p) =>
                unserved'[p] = IF unserved[p] < StaleAfter THEN unserved[p] + 1 ELSE StaleAfter
      /\ \A p \in SweptPayments : place[p] = "ended" => age'[p] = 0
  <2>1. /\ Older(age, {}, Oldest) \in [SweptPayments -> 0..Oldest]
        /\ \A p \in SweptPayments : place[p] # "ended" =>
             Older(age, {}, Oldest)[p] = IF age[p] < Oldest THEN age[p] + 1 ELSE Oldest
        /\ \A p \in SweptPayments : place[p] = "ended" => Older(age, {}, Oldest)[p] = 0
    BY <1>2, OlderAges
  <2>2. /\ Older(unserved, driven, StaleAfter) \in [SweptPayments -> 0..StaleAfter]
        /\ \A p \in SweptPayments \ driven : place[p] # "ended" =>
             Older(unserved, driven, StaleAfter)[p] =
               IF unserved[p] < StaleAfter THEN unserved[p] + 1 ELSE StaleAfter
    BY <1>2, OlderAges
  <2>. QED
    BY <1>1, <2>1, <2>2
<1>4. ClockTypeOK'
  BY <1>1, <1>3 DEF ClockInv, ClockTypeOK
<1>5. ASSUME NEW p \in SweptPayments
      PROVE  RestingOK(p)'
  <2>. SUFFICES ASSUME driver[p] = "gave_up", unserved'[p] < StaleAfter
                PROVE  age'[p] <= unserved'[p]
    BY <1>1 DEF RestingOK, ClockInv, ClockTypeOK
  <2>1. CASE place[p] = "ended"
    BY <1>2, <1>3, <2>1
  <2>2. CASE place[p] # "ended"
    BY <1>2, <1>3, <2>2 DEF Driven, ClockInv, RestingOK
  <2>. QED
    BY <2>1, <2>2
<1>. QED
  BY <1>4, <1>5 DEF ClockInv

LEMMA FindsPayments ==
  ASSUME NEW s \in Sweepers, NEW ages
  PROVE  Finds(s, ages) \subseteq SweptPayments
BY DEF Finds, Stale, Sweepers

\* A payment that rests is not taken up before it is stale.
LEMMA RestersAreLeft ==
  ASSUME ClockInv, NEW p \in Finds("resume", age), driver[p] = "gave_up"
  PROVE  unserved[p] >= StaleAfter
<1>1. p \in SweptPayments /\ age[p] >= StaleAfter
  BY DEF Finds, Stale
<1>. QED
  BY <1>1, Timeouts DEF ClockInv, ClockTypeOK, RestingOK

LEMMA ClockInvResume ==
  ASSUME ClockInv, NEW batch \in SUBSET SweptPayments, ResumeStale(batch)
  PROVE  ClockInv'
BY DEF ResumeStale, Runs, ClockInv, ClockTypeOK, RestingOK

LEMMA ClockInvFails ==
  ASSUME ClockInv, NEW s \in Sweepers, NEW batch \in SUBSET SweptPayments,
         Runs(s), Fails(batch)
  PROVE  ClockInv'
<1>1. /\ due' = due \ {s}
      /\ place' = [p \in SweptPayments |-> IF p \in batch THEN "ended" ELSE place[p]]
      /\ age' = [p \in SweptPayments |-> IF p \in batch THEN 0 ELSE age[p]]
      /\ UNCHANGED <<driver, alerted, unserved>>
  BY DEF Runs, Fails
<1>2. ClockTypeOK'
  BY <1>1, Timeouts DEF ClockInv, ClockTypeOK, Places
<1>3. \A p \in SweptPayments : RestingOK(p)'
  BY <1>1 DEF ClockInv, ClockTypeOK, RestingOK
<1>. QED
  BY <1>2, <1>3 DEF ClockInv

LEMMA ClockInvAlert ==
  ASSUME ClockInv, NEW batch \in SUBSET SweptPayments, AlertStalledLedgerCaptures(batch)
  PROVE  ClockInv'
BY DEF AlertStalledLedgerCaptures, Runs, ClockInv, ClockTypeOK, RestingOK

LEMMA ClockInvSweep ==
  ASSUME ClockInv, Sweep
  PROVE  ClockInv'
<1>1. ASSUME NEW s \in Sweepers, NEW batch \in Batches(Finds(s, age)) \union {{}, Finds(s, age)}
      PROVE  batch \in SUBSET SweptPayments
  BY <1>1, FindsPayments DEF Batches
<1>. QED
  BY <1>1, ClockInvFails, ClockInvResume, ClockInvAlert
     DEF Sweep, ExpireStuckSubmissions, ExpireStuckCaptures, ExpireStaleRequiresAction,
         Sweepers

\* A payment that moves on does so with a goroutine of its own.
LEMMA ClockInvMoves ==
  ASSUME ClockInv, NEW p \in SweptPayments, Progress(p) \/ StepUp(p) \/ CompleteFromGateway(p)
  PROVE  ClockInv'
<1>1. PICK where \in Places :
        /\ place' = [place EXCEPT ![p] = where]
        /\ age' = [age EXCEPT ![p] = 0]
        /\ driver' = [driver EXCEPT ![p] = "new"]
        /\ UNCHANGED <<due, alerted, unserved>>
  BY DEF Progress, StepUp, CompleteFromGateway, Handed, Leads, Places
<1>. QED
  BY <1>1, Timeouts DEF ClockInv, ClockTypeOK, RestingOK

LEMMA ClockInvStops ==
  ASSUME ClockInv, NEW p \in SweptPayments, RemoteFails(p) \/ StopUntouched(p)
  PROVE  ClockInv'
<1>1. PICK how \in {"none", "gave_up"} :
        /\ driver' = [driver EXCEPT ![p] = how]
        /\ unserved' = [unserved EXCEPT ![p] = 0]
        /\ how = "gave_up" => CallsRemote(p) /\ age' = [age EXCEPT ![p] = 0]
        /\ how = "none" => UNCHANGED age
        /\ UNCHANGED <<place, due, alerted>>
  BY DEF RemoteFails, StopUntouched, Stops
<1>2. ClockTypeOK'
  BY <1>1, Timeouts DEF ClockInv, ClockTypeOK
<1>3. ASSUME NEW q \in SweptPayments
      PROVE  RestingOK(q)'
  BY <1>1, Timeouts DEF CallsRemote, ClockInv, ClockTypeOK, RestingOK
<1>. QED
  BY <1>2, <1>3 DEF ClockInv

LEMMA ClockInvNext == ClockInv /\ [ClockNext]_clockVars => ClockInv'
<1>. SUFFICES ASSUME ClockInv, [ClockNext]_clockVars PROVE ClockInv'
  OBVIOUS
<1>1. CASE UNCHANGED clockVars
  BY <1>1, ClockInvStutter
<1>2. CASE ClockNext
  BY <1>2, ClockInvTick, ClockInvSweep, ClockInvMoves, ClockInvStops DEF ClockNext
<1>. QED
  BY <1>1, <1>2

-----------------------------------------------------------------------------

\* Ages, goroutines and due sweeps fit together in every reachable state (the
\* tickers of run).
THEOREM ClockInvariance == ClockSpec => []ClockInv
BY ClockInvInit, ClockInvNext, PTL DEF ClockSpec

\* Places, ages and goroutines are well typed; among others updated_at is never in
\* the future (touch).
THEOREM ClockTypes == ClockSpec => []ClockTypeOK
BY ClockInvariance, PTL DEF ClockInv

\* A sweep leaves who has failed at a remote service alone until it is stale, for
\* any timeouts and any part of its batch that gets done (touch, ResumeStale).
THEOREM FailedCallsRest == ClockSpec => RetriesBackOff
<1>1. ClockInv /\ [ClockNext]_clockVars =>
        [\A p \in SweptPayments :
           driver[p] = "gave_up" /\ driver'[p] = "new" /\ "resume" \in due \ due' =>
             unserved[p] >= StaleAfter]_clockVars
  <2>. SUFFICES ASSUME ClockInv, ClockNext, NEW p \in SweptPayments,
                       driver[p] = "gave_up", driver'[p] = "new",
                       "resume" \in due, "resume" \notin due'
                PROVE  unserved[p] >= StaleAfter
    OBVIOUS
  <2>1. PICK batch \in Batches(Finds("resume", age)) : ResumeStale(batch)
    BY DEF ClockNext, Tick, Sweep, ExpireStuckSubmissions, ExpireStuckCaptures,
           ExpireStaleRequiresAction, AlertStalledLedgerCaptures, Runs, Progress,
           RemoteFails, StopUntouched, Stops, StepUp, CompleteFromGateway, Handed
  <2>2. p \in Finds("resume", age)
    BY <2>1 DEF ResumeStale, Batches
  <2>. QED
    BY <2>2, RestersAreLeft
<1>. QED
  BY <1>1, ClockInvariance, PTL DEF ClockSpec, RetriesBackOff
=============================================================================
