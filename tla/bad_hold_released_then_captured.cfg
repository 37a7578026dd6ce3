SPECIFICATION Spec
CONSTANTS
  card = card
  wallet = wallet
  w1 = w1
  w2 = w2
  w3 = w3
  NoPayment = NoPayment
  Payments <- Card
  Wallets <- NoWallets
  Workers <- OneWorker
  Faults <- CrashOnly
INVARIANTS
  HoldKeptAtCheckpoint
