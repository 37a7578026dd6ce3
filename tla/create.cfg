SPECIFICATION Spec
CONSTANTS
  r1 = r1
  r2 = r2
  r3 = r3
  r4 = r4
  k1 = k1
  b1 = b1
  b2 = b2
  Requests <- FourRequests
  Keys <- OneKey
  Bodies <- TwoBodies
  Faults <- AbandonAndDb
SYMMETRY CreateSymmetry
CHECK_DEADLOCK FALSE
INVARIANTS
  TypeOK
  OneClaimerAtATime
  RepliesMatchRequest
PROPERTIES
  ImplementsContract
