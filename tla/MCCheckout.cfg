SPECIFICATION Spec
CONSTANTS
  Requests = {1, 2}
  Departures <- Mixes
  Seats <- OneEach
  Resubmitted = {2}
  OtherAmount = {1}
  Cap = 1
INVARIANTS NeverOversold PromisedIsHeld
PROPERTIES SeatsComeBack MoneyIsRecorded
CHECK_DEADLOCK FALSE
