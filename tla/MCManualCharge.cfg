SPECIFICATION CardsSpec
CONSTANTS
  Seats <- OneSeat
  Jobs = {"charge-departures", "watch-charges", "close-payment-intents"}
  Answers = {"requires_capture"}
  Callers = {}
  Panel = {p1, p2}
  Updates = {u1, u2}
  First = card
  Casts <- AllCasts
  PanelAnswers = {"succeeded", "requires_action", "requires_payment_method"}
  NumBookings = 1
  MaxIntents = 2
  Minimum = 1
  AutoCancel = TRUE
  OnMinimum = TRUE
  Start = 2
  DueLead = 1
  EarlyFloor = 1
  DeadlineWindow = 1
  DeadlineMargin = 0
  Notice = 0
  RecoveryWindow = 1
  MaxAttempts = 2
  MaxFaults = 1
  ReadFaults = FALSE
CHECK_DEADLOCK FALSE
SYMMETRY Symmetry
INVARIANTS HeldOnce CardsStayAttached
