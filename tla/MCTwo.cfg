SPECIFICATION Spec
CONSTANTS
  Seats <- TwoSeats
  Jobs = {"charge-departures"}
  Answers = {"requires_capture", "requires_payment_method"}
  Callers = {c1}
  NumBookings = 2
  MaxIntents = 1
  Minimum = 1
  AutoCancel = TRUE
  OnMinimum = TRUE
  Start = 1
  DueLead = 1
  EarlyFloor = 1
  DeadlineWindow = 1
  DeadlineMargin = 0
  Notice = 0
  RecoveryWindow = 1
  MaxAttempts = 2
  MaxFaults = 0
  ReadFaults = FALSE
PROPERTIES ReachedCapturesAll
CHECK_DEADLOCK FALSE
