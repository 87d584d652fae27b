SPECIFICATION Spec
CONSTANTS
  Bookings = {1}
  Departures = {1, 2}
  Openings <- Moved
  Deferred = {}
  Seats <- OneEach
  Capacity = 2
  Minimum = 2
  Policies = {"auto_cancel", "staff_decides"}
  MaxAttempts = 1
INVARIANTS NotChargedIsTrue
CHECK_DEADLOCK FALSE
