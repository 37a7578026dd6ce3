SPECIFICATION OutageSpec
CONSTANTS
  submitting = submitting
  capturing = capturing
  collected = collected
  awaiting = awaiting
  SweptPayments = {submitting, capturing, collected, awaiting}
  Origins <- AtTheServices
  Down <- AllDown
  Limit = 4
  StaleAfter = 2
  AlertAfter = 4
  GatewayTimeout = 4
  ParkedTimeout = 3
  Oldest = 4
CHECK_DEADLOCK FALSE
PROPERTIES
  OutageEnds
