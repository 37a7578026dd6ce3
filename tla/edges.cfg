SPECIFICATION FairSpec
CONSTANTS
  a = a
  b = b
  boot = boot
  Relays <- TwoOf
  LastRow = 3
  Batch = 2
  Unframable <- LastUnframable
  MaxDisturbances = 2
  Goroutines <- TwoOf
  Streams <- OneOf
  Buffer = 1
  MaxUpdates = 3
  Captures <- OneOf
  Runners <- BootAndTicker
  Periodic <- OneOf
  MaxRestarts = 1
  Callers <- TwoOf
  Cancellable <- OneOf
  Attempts = 3
  TripAfter = 3
  MaxRequests = 2
  MaxCounted = 4
  SweptPayments <- TwoOf
  Origins <- ScreenedOrParked
  Down <- Nowhere
  Limit = 1
  StaleAfter = 2
  AlertAfter = 3
  GatewayTimeout = 3
  ParkedTimeout = 3
  Oldest = 3
CHECK_DEADLOCK FALSE
INVARIANTS
  RelayTypeOK
  MarkedIsPublished
  DuplicatesNeedAFailure
  StreamTypeOK
  NoSendOnClosedChannel
  EndingToldIsTrue
  ReconTypeOK
  ClientTypeOK
  DeclinesNeedAnAnswer
  ClockTypeOK
PROPERTIES
  EveryRowIsPublished
  SagaIsNotBlocked
  MissingMoneyIsReal
  PhantomNeedsARace
  LostMoneyIsReported
  RetriesBackOff
  NobodyIsForgotten
