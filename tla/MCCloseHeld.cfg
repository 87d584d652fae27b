SPECIFICATION Spec
CONSTANTS
  Seats <- OneSeat
  Jobs = {"charge-departures", "watch-charges", "close-payment-intents"}
  Answers = {"requires_capture", "requires_action", "processing", "requires_payment_method", "failed"}
  Callers = {c1}
  NumBookings = 1
  MaxIntents = 1
  Minimum = 1
  AutoCancel = TRUE
  OnMinimum = TRUE
  Start = 5
  DueLead = 2
  EarlyFloor = 3
  DeadlineWindow = 1
  DeadlineMargin = 2
  Notice = 1
  RecoveryWindow = 1
  MaxAttempts = 2
  MaxFaults = 1
  ReadFaults = FALSE
PROPERTIES ReleasedBeforeClose
CHECK_DEADLOCK FALSE
