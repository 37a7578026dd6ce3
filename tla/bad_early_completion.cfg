SPECIFICATION Spec
CONSTANTS
  card = card
  wallet = wallet
  w1 = w1
  w2 = w2
  w3 = w3
  NoPayment = NoPayment
  Payments <- Wallet
  Wallets <- Wallet
  Workers <- TwoWorkers
  Faults <- NoFaults
PROPERTIES
  ApprovalAppliedBeforeMark
