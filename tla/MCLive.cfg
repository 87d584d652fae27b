SPECIFICATION FairSpec
CONSTANTS
  Seats <- OneSeat
  Jobs = {"charge-departures", "watch-charges", "close-payment-intents"}
  Answers = {"requires_capture", "requires_action", "processing", "requires_payment_method", "failed"}
  Callers = {}
  NumBookings = 1
  MaxIntents = 1
  Minimum = 1
  AutoCancel = TRUE
  OnMinimum = TRUE
  Start = 3
  DueLead = 2
  EarlyFloor = 1
  DeadlineWindow = 1
  DeadlineMargin = 1
  Notice = 0
  RecoveryWindow = 1
  MaxAttempts = 2
  MaxFaults = 0
  ReadFaults = FALSE
PROPERTIES BookingsResolve HoldsEnd LateChargesAreRefunded
CHECK_DEADLOCK FALSE
