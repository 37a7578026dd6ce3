--------------------------- MODULE PaymentLifecycle ---------------------------
(***************************************************************************)
(* What the saga promises of a payment, without goroutines, messages or    *)
(* faults: how its status moves, in which order the processor takes the    *)
(* money, the ledger books it and the customer is told, and what the       *)
(* outbox announces with the last step.  It holds however many goroutines  *)
(* drive the payment at once and wherever they die.                        *)
(***************************************************************************)
CONSTANT Payments

VARIABLES
  status,     \* status of each payment
  collected,  \* the payments whose money the processor has taken
  booked,     \* the payments whose money the ledger has credited
  announced   \* the endings announced for each payment

vars == <<status, collected, booked, announced>>

Init ==
  /\ status = [p \in Payments |-> "absent"]
  /\ collected = {}
  /\ booked = {}
  /\ announced = [p \in Payments |-> {}]

Moves(p, from, to) ==
  /\ status[p] = from
  /\ status' = [status EXCEPT ![p] = to]

Announces(p, ending) ==
  announced' = [announced EXCEPT ![p] = @ \union {ending}]

Create(p) == Moves(p, "absent", "processing") /\ UNCHANGED <<collected, booked, announced>>

\* The payment waits for a second factor, and goes on when it is given.
Park(p)   == Moves(p, "processing", "requires_action") /\ UNCHANGED <<collected, booked, announced>>
Unpark(p) == Moves(p, "requires_action", "processing") /\ UNCHANGED <<collected, booked, announced>>

Collect(p) ==
  /\ status[p] # "absent"
  /\ collected' = collected \union {p}
  /\ UNCHANGED <<status, booked, announced>>

Book(p) ==
  /\ p \in collected
  /\ booked' = booked \union {p}
  /\ UNCHANGED <<status, collected, announced>>

\* The ending and its announcement are one step.
Succeed(p) ==
  /\ p \in booked
  /\ Moves(p, "processing", "succeeded")
  /\ Announces(p, "captured")
  /\ UNCHANGED <<collected, booked>>

Fail(p) ==
  /\ Moves(p, "processing", "failed")
  /\ Announces(p, "failed")
  /\ UNCHANGED <<collected, booked>>

\* A parked payment is the only one that may end unannounced.
Expire(p) == Moves(p, "requires_action", "failed") /\ UNCHANGED <<collected, booked, announced>>

Next ==
  \E p \in Payments :
    \/ Create(p) \/ Park(p) \/ Unpark(p) \/ Collect(p) \/ Book(p)
    \/ Succeed(p) \/ Fail(p) \/ Expire(p)

Spec == Init /\ [][Next]_vars
=============================================================================
