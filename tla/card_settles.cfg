SPECIFICATION FairSpec
CONSTANTS
  card = card
  wallet = wallet
  w1 = w1
  w2 = w2
  w3 = w3
  NoPayment = NoPayment
  Payments <- Both
  Wallets <- Wallet
  Workers <- OneWorker
  Faults <- NoFaults
PROPERTIES
  CardSettles
