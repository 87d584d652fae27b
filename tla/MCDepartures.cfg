SPECIFICATION Spec
CONSTANTS
  Bookings = {1, 2, 3}
  Departures = {1, 2}
  Openings <- Both
  Deferred = {3}
  Seats <- OneEach
  Capacity = 2
  Minimum = 2
  Policies = {"auto_cancel", "staff_decides"}
  MaxAttempts = 1
CHECK_DEADLOCK FALSE
INVARIANTS SeatsMatch LastMoveIsTold MoneyIsTold PanelMatches
