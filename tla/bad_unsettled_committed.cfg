SPECIFICATION Spec
CONSTANTS
  c1 = c1
  c2 = c2
  NoConsumer = NoConsumer
  Consumers <- OneConsumer
  LogEnd = 3
  Poison <- FirstRecord
  MaxAttempts = 3
  MaxInterruptions = 0
  Faults <- FailingDeadLetters
CHECK_DEADLOCK FALSE
INVARIANTS
  CommittedIsSettled
