SPECIFICATION Spec
CONSTANTS
  Seats <- TwoSeats
  Jobs = {"charge-departures"}
  Answers = {"requires_capture", "requires_action", "processing", "requires_payment_method", "failed"}
  Callers = {c1}
  NumBookings = 2
  MaxIntents = 1
  Minimum = 2
  AutoCancel = TRUE
  OnMinimum = TRUE
  Start = 2
  DueLead = 1
  EarlyFloor = 1
  DeadlineWindow = 1
  DeadlineMargin = 0
  Notice = 0
  RecoveryWindow = 1
  MaxAttempts = 2
  MaxFaults = 0
  ReadFaults = FALSE
PROPERTIES CaptureNeedsMinimum
CHECK_DEADLOCK FALSE
