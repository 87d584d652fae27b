SPECIFICATION TouristSpec
CONSTANTS
  Seats <- OneSeat
  Followed <- AllKinds
  Retries = 1
  NumBookings = 1
  MaxIntents = 1
  Minimum = 1
  AutoCancel = TRUE
  OnMinimum = TRUE
  Start = 5
  DueLead = 2
  EarlyFloor = 3
  DeadlineWindow = 1
  DeadlineMargin = 2
  Notice = 1
  RecoveryWindow = 1
  MaxAttempts = 4
CHECK_DEADLOCK FALSE
INVARIANTS NoChargeIsTrue ShownIsDone NothingWaitsUnseen
PROPERTIES RejectionIsTold DeadlineIsKept
