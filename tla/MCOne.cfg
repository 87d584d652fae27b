SPECIFICATION Spec
CONSTANTS
  Seats <- OneSeat
  Jobs = {"charge-departures", "watch-charges", "close-payment-intents"}
  Answers = {"requires_capture", "requires_action", "processing", "requires_payment_method", "failed"}
  Callers = {c1}
  NumBookings = 1
  MaxIntents = 2
  Minimum = 1
  AutoCancel = TRUE
  OnMinimum = TRUE
  Start = 2
  DueLead = 1
  EarlyFloor = 1
  DeadlineWindow = 1
  DeadlineMargin = 0
  Notice = 0
  RecoveryWindow = 1
  MaxAttempts = 2
  MaxFaults = 1
  ReadFaults = FALSE
CHECK_DEADLOCK FALSE
INVARIANTS TypeOK MoneyIsTracked ConfirmedIsPaid RefundIsOfACharge
PROPERTIES LifeSpec
