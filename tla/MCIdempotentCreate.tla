-------------------------- MODULE MCIdempotentCreate --------------------------
(***************************************************************************)
(* Small instances of IdempotentCreate for TLC.                            *)
(***************************************************************************)
EXTENDS IdempotentCreate, TLC

CONSTANTS r1, r2, r3, r4, k1, b1, b2

FourRequests == {r1, r2, r3, r4}
OneKey       == {k1}
TwoBodies    == {b1, b2}

AbandonAndDb == {"abandon", "db"}
AbandonOnly  == {"abandon"}

\* Requests are interchangeable, and so are bodies.
CreateSymmetry == Permutations(Requests) \union Permutations(Bodies)
=============================================================================
