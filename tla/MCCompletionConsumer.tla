------------------------- MODULE MCCompletionConsumer -------------------------
(***************************************************************************)
(* Small instances of CompletionConsumer for TLC.                          *)
(***************************************************************************)
EXTENDS CompletionConsumer

CONSTANTS c1, c2

TwoConsumers == {c1, c2}
OneConsumer  == {c1}

FirstRecord  == {1}
SecondRecord == {2}

FailingStatements  == {"db"}
FailingDeadLetters == {"dlq"}
=============================================================================
