---------------------------- MODULE MCSweeperClock ----------------------------
(***************************************************************************)
(* An instance, for TLC, of the sweepers during an outage: one payment at  *)
(* each place where a remote service owes the next step, and neither the   *)
(* processor nor account-service ever answers.                             *)
(***************************************************************************)
EXTENDS SweeperClock, TLC

CONSTANTS submitting, capturing, collected, awaiting

AtTheServices ==
  submitting :> {"funds_held"} @@ capturing :> {"capturing"}
  @@ collected :> {"psp_captured"} @@ awaiting :> {"wallet"}

AllDown == {"processor", "accounts"}

OutageSpec == ClockSpec /\ GoesOn /\ ResumeWorks /\ ParkedSweepWorks /\ OtherSweepsWork
=============================================================================
