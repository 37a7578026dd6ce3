---------------------------- MODULE MCPaymentSaga ----------------------------
(***************************************************************************)
(* Small instances of PaymentSaga for TLC.                                 *)
(***************************************************************************)
EXTENDS PaymentSaga, TLC

CONSTANTS card, wallet, w1, w2, w3

Card   == {card}
Wallet == {wallet}
Both   == {card, wallet}
NoWallets == {}

OneWorker    == {w1}
TwoWorkers   == {w1, w2}
ThreeWorkers == {w1, w2, w3}

NoFaults    == {}
CrashOnly   == {"crash"}
CrashAndDb  == {"crash", "db"}

\* Bound: a behaviour goes on with at most one payment, of either kind.  The
\* payments of this system share nothing but the slots for goroutines.
OnePaymentCreated == \A p, q \in Payments :
  status[p] # "absent" /\ status[q] # "absent" => p = q

\* Goroutines are interchangeable; used by runs without temporal properties.
WorkerSymmetry == Permutations(Workers)
=============================================================================
