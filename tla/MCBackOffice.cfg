SPECIFICATION BackOfficeSpec
CONSTANTS
  YearDays = 4
  Types = {"adult"}
  Amounts = {1, 2}
  NumDays = 2
  Week = 2
  Lookahead = 2
  Schedules = {"s1", "s2"}
  Admins = {"a1", "a2"}
  Customers = {"c1"}
  Cart = {"adult"}
  Tables <- AllOpenings
  Users = {"a1", "a2"}
  Panel = {"a1", "a2"}
  Bookings = {"b1"}
  Late = {"b1"}
  Addresses = {"first", "second"}
  Anon = "anon"
  Shapes <- AllShapes
  Guides = {"g1", "g2"}
  Staff = {"s1", "s2"}
  Outings = {1}
  StartDay <- InTwoDays
  HorizonDays = 2
  GuideRetries = 0
  Nobody = "nobody"
CHECK_DEADLOCK FALSE
INVARIANTS LowestIsCharged NoBookingOnWithdrawn PaymentFindsBooking SomebodyGoes AssignedIsNoticed
PROPERTIES ErasedStaysErased SomeAdmin
