SPECIFICATION FairSpec
CONSTANTS
  c1 = c1
  c2 = c2
  NoConsumer = NoConsumer
  Consumers <- TwoConsumers
  LogEnd = 3
  Poison <- SecondRecord
  MaxAttempts = 3
  MaxInterruptions = 2
  Faults <- FailingStatements
CHECK_DEADLOCK FALSE
INVARIANTS
  TypeOK
  CommittedIsSettled
  SettledForAReason
PROPERTIES
  EveryEventSettles
