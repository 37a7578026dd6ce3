SPECIFICATION Spec
CONSTANTS
  card = card
  wallet = wallet
  w1 = w1
  w2 = w2
  w3 = w3
  NoPayment = NoPayment
  Payments <- Both
  Wallets <- Wallet
  Workers <- ThreeWorkers
  Faults <- CrashAndDb
SYMMETRY WorkerSymmetry
CONSTRAINT OnePaymentCreated
INVARIANTS
  TypeOK
  BookedImpliesCollected
  SucceededIsBooked
  HoldIdKnown
  OutboxTellsTheOutcome
  CollectedWasAuthorized
  CollectedWasAnnounced
PROPERTIES
  TerminalIsFinal
  ImplementsLifecycle
